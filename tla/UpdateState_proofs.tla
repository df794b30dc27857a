------------------------- MODULE UpdateState_proofs -------------------------
(***************************************************************************)
(* What is proved of UpdateState for any number of versions, requests and  *)
(* attempts.  The state file is not guarded by a lock: three goroutines    *)
(* each hold a copy they will save.  So the invariant is said of all four  *)
(* states, StateOK, and of the promise the marking goroutine carries from  *)
(* its load to its save, MarkOK.                                           *)
(***************************************************************************)
EXTENDS UpdateState, TLAPS

StateOK(st) ==
    /\ st \in State
    /\ st.previous # None => st.previous.good
    /\ st.current # None /\ st.current.good => st.current.version \notin Bad
    /\ st.previous # None => st.previous.version \notin Bad

MarkOK ==
    mark.pc = "save" =>
      /\ up = "run" /\ slot \in Versions \ Bad
      /\ mark.st.current # None /\ mark.st.current.version = slot

\* The inductive invariant.
UpdateInv ==
    /\ TypeOK
    /\ StateOK(file) /\ StateOK(job.st) /\ StateOK(mark.st)
    /\ \A r \in Requests : StateOK(back[r].st)
    /\ MarkOK

-----------------------------------------------------------------------------
(* What the operators on a state preserve                                  *)

LEMMA EmptyOK == StateOK(Empty)
  BY DEF StateOK, State, Empty

LEMMA UndoneOK ==
    ASSUME NEW st, NEW failed, st.previous \in Slots \cup {None},
           st.previous # None => st.previous.good /\ st.previous.version \notin Bad
    PROVE  StateOK(Undone(st, failed))
  BY EmptyOK DEF StateOK, State, Undone

\* Counting an attempt leaves a state, or the version has had its starts and
\* is undone.
LEMMA ChosenOK ==
    ASSUME NEW st, StateOK(st), st.current # None
    PROVE  /\ StateOK(Chosen(st))
           /\ Chosen(st).current # None => Chosen(st).current \in Slots
  <1>1. st.current \in Slots /\ st.previous \in Slots \cup {None}
    BY DEF StateOK, State
  <1>2. CASE st.current.good
    <2>1. Counted(st) = st /\ ~Exhausted(st)
      BY <1>2 DEF Counted, Exhausted
    <2> QED
      BY <1>1, <2>1 DEF Chosen
  <1>3. CASE ~st.current.good
    <2> DEFINE more == [st EXCEPT !.current.attempts = @ + 1]
    <2>1. Counted(st) = more
      BY <1>3 DEF Counted
    <2>2. /\ more.previous = st.previous
          /\ more.current = [st.current EXCEPT !.attempts = @ + 1]
          /\ more = [current |-> more.current, previous |-> st.previous]
      BY DEF StateOK, State
    <2>3. CASE Exhausted(more)
      <3>1. Chosen(st) = Undone(more, more.current)
        BY <2>1, <2>3 DEF Chosen
      <3>2. StateOK(Undone(more, more.current))
        BY <2>2, <1>1, UndoneOK DEF StateOK
      <3> QED
        BY <3>1, <3>2 DEF StateOK, State
    <2>4. CASE ~Exhausted(more)
      <3>1. Chosen(st) = more
        BY <2>1, <2>4 DEF Chosen
      <3>2. ~more.current.good /\ more.current.attempts = st.current.attempts + 1
            /\ more.current.version = st.current.version /\ more.current.at = st.current.at
        BY <1>1, <1>3, <2>2 DEF Slots
      <3>3. more.current.attempts \in 0..MaxAttempts
        BY <1>1, <2>4, <3>2, UpdateAssumption DEF Exhausted, Slots
      <3>4. more.current \in Slots
        BY <1>1, <2>2, <3>3 DEF Slots
      <3>5. more \in State
        BY <1>1, <2>2, <3>4 DEF State
      <3>6. StateOK(more)
        BY <2>2, <3>2, <3>5 DEF StateOK
      <3> QED
        BY <3>1, <3>4, <3>6
    <2> QED
      BY <2>3, <2>4
  <1> QED
    BY <1>2, <1>3

LEMMA WithUpdateOK ==
    ASSUME NEW st, StateOK(st), NEW v \in Versions, replaced \in Nat
    PROVE  StateOK(WithUpdate(st, v))
  <1> DEFINE new == [version |-> v, good |-> FALSE, attempts |-> 0, at |-> replaced]
  <1>1. new \in Slots
    BY UpdateAssumption DEF Slots
  <1> QED
    BY <1>1 DEF WithUpdate, StateOK, State

LEMMA WentBackOK ==
    ASSUME NEW st, StateOK(st)
    PROVE  StateOK(WentBack(st))
  BY DEF WentBack, StateOK, State

LEMMA MarkedGoodOK ==
    ASSUME NEW st, StateOK(st), st.current # None, st.current.version \notin Bad
    PROVE  StateOK(MarkedGood(st))
  <1>1. st.current \in Slots
    BY DEF StateOK, State
  <1> DEFINE c == [version |-> st.current.version, good |-> TRUE, attempts |-> 0,
                   at |-> st.current.at]
  <1>2. c \in Slots
    BY <1>1, UpdateAssumption DEF Slots
  <1>3. MarkedGood(st) = [st EXCEPT !.current = c]
    BY DEF MarkedGood
  <1>4. c.version \notin Bad
    OBVIOUS
  <1> HIDE DEF c
  <1>5. [st EXCEPT !.current = c] = [current |-> c, previous |-> st.previous]
    BY DEF StateOK, State
  <1> QED
    BY <1>2, <1>3, <1>4, <1>5 DEF StateOK, State

\* Whatever is saved, the file holds one of two good states.
LEMMA SavedOK ==
    ASSUME NEW st, StateOK(st), StateOK(file), Saved(st)
    PROVE  StateOK(file')
  BY DEF Saved

-----------------------------------------------------------------------------
(* Every step keeps the invariant                                          *)

\* An event from outside leaves a budget.
LEMMA SpendType ==
    ASSUME TypeOK, NEW k \in Outside, Spend(k)
    PROVE  budget' \in [Outside -> Nat]
  BY DEF TypeOK, Spend

\* A new life of the process starts with no goroutine holding a state.
LEMMA RelaunchOK ==
    ASSUME TypeOK, NEW b \in Bases, Relaunch(b), StateOK(file), UNCHANGED file,
           staged' \in SUBSET Versions, installed' \in Bases, replaced' \in Nat,
           full' \in BOOLEAN, budget' \in [Outside -> Nat]
    PROVE  UpdateInv'
  <1>1. /\ NoJob \in [pc : {"none", "fetch", "save"}, version : Versions, st : State]
        /\ NoRequest \in [pc : {"idle", "load", "save"}, st : State]
        /\ Waiting \in [pc : {"wait", "idle", "save"}, st : State]
    BY UpdateAssumption DEF NoJob, NoRequest, Waiting, State, Empty, Versions
  <1>2. TypeOK'
    BY <1>1 DEF TypeOK, Relaunch
  <1>3. StateOK(file') /\ StateOK(job'.st) /\ StateOK(mark'.st) /\ mark'.pc = "wait"
    BY EmptyOK DEF Relaunch, NoJob, Waiting
  <1>4. \A r \in Requests : StateOK(back'[r].st)
    BY EmptyOK DEF Relaunch, NoRequest
  <1> QED
    BY <1>2, <1>3, <1>4 DEF UpdateInv, MarkOK

LEMMA InitOK == Init => UpdateInv
  <1> SUFFICES ASSUME Init PROVE UpdateInv
    OBVIOUS
  <1>1. /\ NoJob \in [pc : {"none", "fetch", "save"}, version : Versions, st : State]
        /\ NoRequest \in [pc : {"idle", "load", "save"}, st : State]
        /\ Waiting \in [pc : {"wait", "idle", "save"}, st : State]
        /\ Empty \in State
    BY UpdateAssumption DEF NoJob, NoRequest, Waiting, State, Empty, Versions
  <1>2. TypeOK
    BY <1>1, UpdateAssumption DEF TypeOK, Init
  <1>3. StateOK(file) /\ StateOK(job.st) /\ StateOK(mark.st) /\ mark.pc = "wait"
    BY EmptyOK DEF Init, NoJob, Waiting
  <1>4. \A r \in Requests : StateOK(back[r].st)
    BY EmptyOK DEF Init, NoRequest
  <1> QED
    BY <1>2, <1>3, <1>4 DEF UpdateInv, MarkOK

\* The launcher: what it saves is a good state, and nobody holds another.
LEMMA LaunchKeeps ==
    ASSUME UpdateInv, Launch
    PROVE  UpdateInv'
  <1> DEFINE st == Chosen(file)
  <1>1. /\ UNCHANGED <<job, back, mark, staged, installed, replaced, full, phase, restart, unsaved>>
        /\ mark.pc # "save"
    BY DEF UpdateInv, MarkOK, Launch, threads, machine
  <1>2. StateOK(file) /\ TypeOK
    BY DEF UpdateInv
  <1>3. file.current # None => StateOK(st) /\ (st.current # None => st.current \in Slots)
    BY <1>2, ChosenOK
  <1> HIDE DEF st
  <1>4. /\ StateOK(file')
        /\ up' \in {"launch", "run"} /\ slot' \in Versions \cup {None} /\ build' \in Bases
        /\ budget' \in [Outside -> Nat]
    <2>1. CASE file.current = None \/ Newer(file.current)
      BY <2>1, <1>2, EmptyOK, SavedOK DEF Launch, RunBase, TypeOK
    <2>2. CASE file.current # None /\ ~Newer(file.current) /\ st.current = None
      BY <2>2, <1>2, <1>3, SavedOK DEF Launch, RunBase, TypeOK, st
    <2>3. CASE /\ file.current # None /\ ~Newer(file.current) /\ st.current # None
               /\ st.current.version \notin staged
      <3>1. StateOK(Undone(st, st.current))
        BY <2>3, <1>3, UndoneOK DEF StateOK, State
      <3>2. Saved(Undone(st, st.current)) /\ UNCHANGED <<up, slot, build, budget>>
        BY <2>3 DEF Launch, st
      <3> QED
        BY <3>1, <3>2, <1>2, SavedOK DEF TypeOK
    <2>4. CASE /\ file.current # None /\ ~Newer(file.current) /\ st.current # None
               /\ st.current.version \in staged
      <3>1. /\ Saved(st)
            /\ \/ HandOver(st.current.version) /\ UNCHANGED budget
               \/ Spend("exec") /\ RunBase
        BY <2>4 DEF Launch, st
      <3>2. st.current.version \in Versions
        BY <2>4, <1>3 DEF Slots
      <3>3. StateOK(file')
        BY <3>1, <2>4, <1>2, <1>3, SavedOK
      <3>4. CASE HandOver(st.current.version) /\ UNCHANGED budget
        BY <3>2, <3>3, <3>4, <1>2 DEF HandOver, TypeOK, Bases
      <3>5. CASE Spend("exec") /\ RunBase
        BY <3>3, <3>5, <1>2, SpendType DEF RunBase, TypeOK, Outside
      <3> QED
        BY <3>1, <3>4, <3>5
    <2> QED
      BY <2>1, <2>2, <2>3, <2>4
  <1>5. TypeOK'
    BY <1>1, <1>2, <1>4 DEF TypeOK, StateOK
  <1> QED
    BY <1>1, <1>4, <1>5 DEF UpdateInv, MarkOK

\* The installation: refused, failed, or saved over whatever the file holds.
LEMMA InstallKeeps ==
    ASSUME UpdateInv, Install \/ \E v \in Versions : Apply(v)
    PROVE  UpdateInv'
  <1>0. /\ TypeOK /\ StateOK(file) /\ StateOK(job.st) /\ StateOK(mark.st) /\ MarkOK
        /\ \A r \in Requests : StateOK(back[r].st)
    BY DEF UpdateInv
  <1>1. ASSUME NEW v \in Versions, Apply(v)
        PROVE  UpdateInv'
    <2>1. job' = [pc |-> "fetch", version |-> v, st |-> Empty]
      BY <1>1 DEF Apply, NoJob
    <2>2. budget' \in [Outside -> Nat]
      BY <1>0, <1>1, SpendType DEF Apply, Outside
    <2>3. /\ UNCHANGED <<file, staged, installed, replaced, full, up, slot, build, restart>>
          /\ UNCHANGED <<back, mark, unsaved>> /\ phase' = "busy"
      BY <1>1 DEF Apply, disk, machine
    <2>4. job' \in [pc : {"none", "fetch", "save"}, version : Versions, st : State]
          /\ StateOK(job'.st)
      BY <2>1, EmptyOK DEF StateOK
    <2>5. TypeOK'
      BY <1>0, <2>2, <2>3, <2>4 DEF TypeOK
    <2> QED
      BY <1>0, <2>3, <2>4, <2>5 DEF UpdateInv, MarkOK
  <1>2. CASE InstallFail
    <2>1. NoJob \in [pc : {"none", "fetch", "save"}, version : Versions, st : State]
          /\ StateOK(NoJob.st)
      BY EmptyOK, UpdateAssumption DEF NoJob, StateOK, Versions
    <2>2. TypeOK'
      BY <1>0, <1>2, <2>1 DEF InstallFail, TypeOK, machine
    <2> QED
      BY <1>0, <1>2, <2>1, <2>2 DEF InstallFail, UpdateInv, MarkOK
  <1>3. CASE InstallLoad
    <2>1. job' = [pc |-> "save", version |-> job.version, st |-> file]
      BY <1>0, <1>3 DEF InstallLoad, TypeOK
    <2>2. TypeOK'
      BY <1>0, <1>3, <2>1 DEF InstallLoad, TypeOK, machine, server
    <2> QED
      BY <1>0, <1>3, <2>1, <2>2 DEF InstallLoad, UpdateInv, MarkOK, server
  <1>4. CASE InstallSave
    <2> DEFINE st == WithUpdate(job.st, job.version)
    <2>1. NoJob \in [pc : {"none", "fetch", "save"}, version : Versions, st : State]
          /\ StateOK(NoJob.st)
      BY EmptyOK, UpdateAssumption DEF NoJob, StateOK, Versions
    <2>2. StateOK(st)
      BY <1>0, WithUpdateOK DEF TypeOK
    <2>3. StateOK(file') /\ job' = NoJob
      BY <1>0, <1>4, <2>2, SavedOK DEF InstallSave
    <2>4. /\ staged' \subseteq Versions
          /\ phase' \in {"idle", "busy", "failed", "restarting"} /\ restart' \in BOOLEAN
      BY <1>0, <1>4 DEF InstallSave, TypeOK, Pruned
    <2>5. TypeOK'
      BY <1>0, <1>4, <2>1, <2>3, <2>4 DEF InstallSave, TypeOK, machine, StateOK
    <2> QED
      BY <1>0, <1>4, <2>1, <2>3, <2>5 DEF InstallSave, UpdateInv, MarkOK
  <1> QED
    BY <1>1, <1>2, <1>3, <1>4 DEF Install

\* One more rollback request moves on.
LEMMA BackUpdate ==
    ASSUME UpdateInv, NEW r \in Requests,
           NEW q \in [pc : {"idle", "load", "save"}, st : State], StateOK(q.st),
           back' = [back EXCEPT ![r] = q]
    PROVE  /\ back' \in [Requests -> [pc : {"idle", "load", "save"}, st : State]]
           /\ \A t \in Requests : StateOK(back'[t].st)
  BY DEF UpdateInv, TypeOK

LEMMA RollbackKeeps ==
    ASSUME UpdateInv, NEW r \in Requests, Rollback(r)
    PROVE  UpdateInv'
  <1>0. /\ TypeOK /\ StateOK(file) /\ StateOK(job.st) /\ StateOK(mark.st) /\ MarkOK
        /\ \A t \in Requests : StateOK(back[t].st)
        /\ back[r] \in [pc : {"idle", "load", "save"}, st : State]
    BY DEF UpdateInv, TypeOK
  <1>1. NoRequest \in [pc : {"idle", "load", "save"}, st : State] /\ StateOK(NoRequest.st)
    BY EmptyOK DEF NoRequest, StateOK
  <1>2. CASE RollbackCheck(r)
    <2> DEFINE q == [back[r] EXCEPT !.pc = "load"]
    <2>1. q \in [pc : {"idle", "load", "save"}, st : State] /\ q.st = back[r].st
      BY <1>0
    <2>2. back' = [back EXCEPT ![r] = q]
      BY <1>2 DEF RollbackCheck
    <2> HIDE DEF q
    <2>3. budget' \in [Outside -> Nat]
      BY <1>0, <1>2, SpendType DEF RollbackCheck, Outside
    <2>4. UNCHANGED <<file, staged, installed, replaced, full, up, slot, build, phase, restart>>
          /\ UNCHANGED <<job, mark, unsaved>>
      BY <1>2 DEF RollbackCheck, disk, machine, server
    <2>5. TypeOK'
      BY <1>0, <2>1, <2>2, <2>3, <2>4, BackUpdate DEF TypeOK
    <2> QED
      BY <1>0, <2>1, <2>2, <2>4, <2>5, BackUpdate DEF UpdateInv, MarkOK
  <1>3. CASE RollbackLoad(r)
    <2> DEFINE q == IF file.current = None THEN NoRequest ELSE [pc |-> "save", st |-> file]
    <2>1. q \in [pc : {"idle", "load", "save"}, st : State] /\ StateOK(q.st)
      BY <1>0, <1>1 DEF StateOK
    <2>2. back' = [back EXCEPT ![r] = q]
      BY <1>3 DEF RollbackLoad
    <2> HIDE DEF q
    <2>3. UNCHANGED <<file, staged, installed, replaced, full, up, slot, build, phase, restart>>
          /\ UNCHANGED <<job, mark, unsaved, budget>>
      BY <1>3 DEF RollbackLoad, disk, machine, server
    <2>4. TypeOK'
      BY <1>0, <2>1, <2>2, <2>3, BackUpdate DEF TypeOK
    <2> QED
      BY <1>0, <2>1, <2>2, <2>3, <2>4, BackUpdate DEF UpdateInv, MarkOK
  <1>4. CASE RollbackSave(r)
    <2>1. StateOK(file')
      BY <1>0, <1>4, WentBackOK, SavedOK DEF RollbackSave
    <2>2. /\ back' = [back EXCEPT ![r] = NoRequest]
          /\ UNCHANGED <<staged, installed, replaced, full, up, slot, build>>
          /\ UNCHANGED <<job, mark, unsaved, budget>>
      BY <1>4 DEF RollbackSave, machine
    <2>3. phase' \in {"idle", "busy", "failed", "restarting"} /\ restart' \in BOOLEAN
      BY <1>0, <1>4 DEF RollbackSave, TypeOK
    <2>4. TypeOK'
      BY <1>0, <1>1, <2>1, <2>2, <2>3, BackUpdate DEF TypeOK, StateOK
    <2> QED
      BY <1>0, <1>1, <2>1, <2>2, <2>4, BackUpdate DEF UpdateInv, MarkOK
  <1> QED
    BY <1>2, <1>3, <1>4 DEF Rollback

\* The timer's goroutine marks the version it runs, and only that one.
LEMMA MarkKeeps ==
    ASSUME UpdateInv, Mark
    PROVE  UpdateInv'
  <1>0. /\ TypeOK /\ StateOK(file) /\ StateOK(job.st) /\ StateOK(mark.st) /\ MarkOK
        /\ \A t \in Requests : StateOK(back[t].st)
    BY DEF UpdateInv
  <1>1. NoRequest \in [pc : {"wait", "idle", "save"}, st : State] /\ StateOK(NoRequest.st)
    BY EmptyOK DEF NoRequest, StateOK
  <1>2. CASE MarkLoad
    <2>1. /\ UNCHANGED <<file, staged, installed, replaced, full, up, slot, build, phase, restart>>
          /\ UNCHANGED <<job, back, unsaved, budget>>
          /\ mark' = IF Unmarked(file) THEN [pc |-> "save", st |-> file] ELSE NoRequest
      BY <1>2 DEF MarkLoad, disk, machine, server
    <2>2. mark' \in [pc : {"wait", "idle", "save"}, st : State] /\ StateOK(mark'.st)
      BY <1>0, <1>1, <2>1 DEF StateOK
    <2>3. MarkOK'
      BY <1>0, <1>2, <2>1 DEF MarkOK, MarkLoad, Unmarked, NoRequest, TypeOK
    <2>4. TypeOK'
      BY <1>0, <2>1, <2>2 DEF TypeOK
    <2> QED
      BY <1>0, <2>1, <2>2, <2>3, <2>4 DEF UpdateInv
  <1>3. CASE MarkSave
    <2>1. /\ UNCHANGED <<staged, installed, replaced, full, up, slot, build, phase, restart>>
          /\ UNCHANGED <<job, back, unsaved, budget>>
          /\ mark' = NoRequest /\ Saved(MarkedGood(mark.st))
      BY <1>3 DEF MarkSave, machine, server
    <2>2. mark.st.current # None /\ mark.st.current.version \notin Bad
      BY <1>0, <1>3 DEF MarkOK, MarkSave
    <2>3. StateOK(file')
      BY <1>0, <2>1, <2>2, MarkedGoodOK, SavedOK
    <2>4. TypeOK'
      BY <1>0, <1>1, <2>1, <2>3 DEF TypeOK, StateOK
    <2> QED
      BY <1>0, <1>1, <2>1, <2>3, <2>4 DEF UpdateInv, MarkOK, NoRequest
  <1> QED
    BY <1>2, <1>3 DEF Mark

LEMMA WorldKeeps ==
    ASSUME UpdateInv, Restart \/ World
    PROVE  UpdateInv'
  <1>0. /\ TypeOK /\ StateOK(file) /\ StateOK(job.st) /\ StateOK(mark.st) /\ MarkOK
        /\ \A t \in Requests : StateOK(back[t].st)
    BY DEF UpdateInv
  <1>1. CASE Restart \/ DieEarly
    BY <1>0, <1>1, RelaunchOK DEF Restart, DieEarly, TypeOK, disk, machine
  <1>2. CASE Crash
    <2>1. budget' \in [Outside -> Nat]
      BY <1>0, <1>2, SpendType DEF Crash, Outside
    <2> QED
      BY <1>0, <1>2, <2>1, RelaunchOK DEF Crash, TypeOK, disk, machine
  <1>3. ASSUME NEW v \in Bases, Package(v)
        PROVE  UpdateInv'
    <2>1. budget' \in [Outside -> Nat]
      BY <1>0, <1>3, SpendType DEF Package, Outside
    <2> QED
      BY <1>0, <1>3, <2>1, RelaunchOK DEF Package, TypeOK, disk
  <1>4. CASE DiskFull \/ Trial \/ \E v \in Versions : LoseBinary(v)
    <2>1. budget' \in [Outside -> Nat]
      BY <1>0, <1>4, SpendType DEF DiskFull, Trial, LoseBinary, Outside, TypeOK
    <2>2. /\ UNCHANGED <<file, installed, replaced, up, slot, build, phase, restart>>
          /\ UNCHANGED <<job, back, mark>>
          /\ staged' \subseteq staged /\ full' \in BOOLEAN /\ unsaved' \in BOOLEAN
      BY <1>0, <1>4 DEF DiskFull, Trial, LoseBinary, TypeOK, disk, machine, server, threads
    <2>3. TypeOK'
      BY <1>0, <2>1, <2>2 DEF TypeOK
    <2> QED
      BY <1>0, <2>2, <2>3 DEF UpdateInv, MarkOK
  <1> QED
    BY <1>1, <1>2, <1>3, <1>4 DEF World

LEMMA UpdateInvCorrect == Spec => []UpdateInv
  <1>1. ASSUME UpdateInv, [Next]_vars
        PROVE  UpdateInv'
    <2>1. CASE UNCHANGED vars
      <3>1. /\ UNCHANGED <<file, staged, installed, replaced, full, up, slot, build, phase>>
            /\ UNCHANGED <<restart, job, back, mark, unsaved, budget>>
        BY <2>1 DEF vars, disk, machine, server, threads
      <3>2. TypeOK'
        BY <1>1, <3>1 DEF UpdateInv, TypeOK
      <3> QED
        BY <1>1, <3>1, <3>2 DEF UpdateInv, MarkOK
    <2> QED
      BY <1>1, <2>1, LaunchKeeps, InstallKeeps, RollbackKeeps, MarkKeeps, WorldKeeps DEF Next
  <1> QED
    BY InitOK, <1>1, PTL DEF Spec

-----------------------------------------------------------------------------
(* The theorems                                                            *)

\* The state file is always one the launcher can read on, and no version ever
\* has more than MaxAttempts starts on record.
THEOREM UpdateTypeCorrect == Spec => []TypeOK
  BY UpdateInvCorrect, PTL DEF UpdateInv

\* What an update is undone to has stayed up, whatever the installation, the
\* rollbacks and MarkGood overwrite of each other's work.
THEOREM FallbackIsGood == Spec => []PreviousIsGood
  <1>1. UpdateInv => PreviousIsGood
    BY DEF UpdateInv, StateOK, PreviousIsGood
  <1> QED
    BY <1>1, UpdateInvCorrect, PTL

\* A version that cannot stay up is never recorded as good.
THEOREM OnlyGoodIsMarked == Spec => []GoodStayedUp
  <1>1. UpdateInv => GoodStayedUp
    BY DEF UpdateInv, StateOK, GoodStayedUp, GoodSlots
  <1> QED
    BY <1>1, UpdateInvCorrect, PTL

=============================================================================
