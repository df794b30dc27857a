----------------------------- MODULE UpdateState -----------------------------
(***************************************************************************)
(* Updates applied from the dashboard (internal/update): the state file    *)
(* that names the version to start and the one to go back to, the launcher *)
(* that reads it first in every start of the installed binary, and the     *)
(* three goroutines of the running server that load, change and save it:   *)
(* an installation, a rollback, and the timer that marks a version good.   *)
(*                                                                         *)
(* Only the phase is under Manager.mu; the file is read and replaced       *)
(* without a lock, and a restart or a crash can come between the two.      *)
(***************************************************************************)
EXTENDS Naturals, FiniteSets

CONSTANTS
    MaxVersion,     \* releases are 1..MaxVersion, ordered as Compare orders them
    Bad,            \* the releases that never stay up for GoodAfter
    MaxAttempts,    \* starts a version gets (state.go)
    None,           \* nil
    Requests,       \* concurrent rollback requests
    InitialBase,    \* what the installed binary may be at first
    Budget          \* bound on each kind of event from outside

Versions == 1..MaxVersion
Dev      == 0               \* an installed binary that is no release
Bases    == Versions \cup {Dev}
Outside  == {"apply", "rollback", "crash", "exec", "full", "lost", "package", "trial"}

ASSUME UpdateAssumption ==
    /\ MaxVersion \in Nat \ {0} /\ MaxAttempts \in Nat \ {0}
    /\ Bad \subseteq Versions
    /\ InitialBase \subseteq Bases
    /\ None \notin Nat
    /\ Budget \in [Outside -> Nat]

VARIABLES
    file,       \* state.json: Current and Previous
    staged,     \* the versions whose binary is under <data_dir>/updates
    installed,  \* the version of the binary the service starts
    replaced,   \* how often that binary was replaced: its modification time
    full,       \* saving the state fails
    up,         \* "launch": in Launch; "run": serving
    slot,       \* the running version the launcher handed over to, or None
    build,      \* the version of the running code
    phase,      \* Manager.status.Phase; every phase of an installation is "busy"
    restart,    \* a restart is asked for (the restart channel)
    job,        \* the installation's goroutine
    back,       \* the rollback requests
    mark,       \* the goroutine that waits GoodAfter
    unsaved,    \* port rules are on trial: what Precheck asks
    budget      \* events left

disk    == <<file, staged>>
machine == <<installed, replaced, full>>
server  == <<up, slot, build, phase, restart>>
threads == <<job, back, mark>>
vars    == <<disk, machine, server, threads, unsaved, budget>>

Slots == [version : Versions, good : BOOLEAN, attempts : 0..MaxAttempts, at : Nat]
State == [current : Slots \cup {None}, previous : Slots \cup {None}]
Empty == [current |-> None, previous |-> None]

Spend(k) == budget[k] > 0 /\ budget' = [budget EXCEPT ![k] = @ - 1]

\* Save is atomic: the file is replaced or it is not.
Saved(st) == file' = IF full THEN file ELSE st

-----------------------------------------------------------------------------
(* Launch: the installed binary decides what runs                          *)

\* The installed binary was replaced since: a release wins when it is not the
\* older one, any other build when it is the later one.
Newer(c) == IF installed = Dev THEN replaced > c.at ELSE installed >= c.version

\* rollback: the previous good version, or none.
Undone(st, failed) ==
    LET p == st.previous IN
    IF p # None /\ p.good /\ p.version # failed.version
      THEN [current |-> p, previous |-> None]
      ELSE Empty

AttemptNotCounted(st) == st   \* mutant: starts are not counted

\* A start of a version that is not good yet is an attempt.
Counted(st) ==
    IF st.current.good THEN st ELSE [st EXCEPT !.current.attempts = @ + 1]

OneMore(st) == ~st.current.good /\ st.current.attempts > MaxAttempts + 1   \* mutant
Exhausted(st) == ~st.current.good /\ st.current.attempts > MaxAttempts

Chosen(st) ==
    LET counted == Counted(st) IN
    IF Exhausted(counted) THEN Undone(counted, counted.current) ELSE counted

RunBase == up' = "run" /\ slot' = None /\ build' = installed
HandOver(v) == up' = "run" /\ slot' = v /\ build' = v

\* One action: nothing else runs before the server exists.  After a rollback
\* for a missing binary, Launch calls itself (it stays in "launch").  An Exec
\* that fails lets the installed binary go on.
Launch ==
    LET st == Chosen(file)
        c  == st.current
    IN
    /\ up = "launch"
    /\ \/ /\ file.current = None
          /\ RunBase /\ UNCHANGED <<file, budget>>
       \/ /\ file.current # None /\ Newer(file.current)
          /\ RunBase /\ Saved(Empty) /\ UNCHANGED budget
       \/ /\ file.current # None /\ ~Newer(file.current) /\ c = None
          /\ RunBase /\ Saved(st) /\ UNCHANGED budget
       \/ /\ file.current # None /\ ~Newer(file.current) /\ c # None
          /\ c.version \notin staged
          /\ Saved(Undone(st, c)) /\ UNCHANGED <<up, slot, build, budget>>
       \/ /\ file.current # None /\ ~Newer(file.current) /\ c # None
          /\ c.version \in staged
          /\ Saved(st)
          /\ \/ HandOver(c.version) /\ UNCHANGED budget
             \/ Spend("exec") /\ RunBase
    /\ UNCHANGED <<staged, machine, phase, restart, threads, unsaved>>

-----------------------------------------------------------------------------
(* The running server                                                      *)

NoJob == [pc |-> "none", version |-> 1, st |-> Empty]
NoRequest == [pc |-> "idle", st |-> Empty]
Waiting   == [pc |-> "wait", st |-> Empty]
Settled == phase \in {"idle", "failed"}

\* Apply: the newest release found is any version above the running one.
Apply(v) ==
    /\ up = "run" /\ Settled /\ v > build /\ ~unsaved /\ Spend("apply")
    /\ phase' = "busy"
    /\ job' = [NoJob EXCEPT !.pc = "fetch", !.version = v]
    /\ UNCHANGED <<disk, machine, up, slot, build, restart, back, mark, unsaved>>

\* Download, verification, test run or backup fail: the binary may be staged.
InstallFail ==
    /\ up = "run" /\ job.pc = "fetch"
    /\ phase' = "failed" /\ job' = NoJob
    /\ staged' \in {staged, staged \cup {job.version}}
    /\ UNCHANGED <<file, machine, up, slot, build, restart, back, mark, unsaved, budget>>

\* The binary is staged and tested, the backup made, the state read.
InstallLoad ==
    /\ up = "run" /\ job.pc = "fetch"
    /\ staged' = staged \cup {job.version}
    /\ job' = [job EXCEPT !.pc = "save", !.st = file]
    /\ UNCHANGED <<file, machine, server, back, mark, unsaved, budget>>

KeepCurrent(st, v) ==         \* mutant: the current version is kept, good or not
    [current  |-> [version |-> v, good |-> FALSE, attempts |-> 0, at |-> replaced],
     previous |-> st.current]

\* What going back means is kept: the last good version, or the installed one.
WithUpdate(st, v) ==
    [current  |-> [version |-> v, good |-> FALSE, attempts |-> 0, at |-> replaced],
     previous |-> IF st.current = None THEN None
                  ELSE IF st.current.good THEN st.current ELSE st.previous]

\* prune: staged versions that are neither current nor previous go.
Pruned(st) == {v \in staged : \E s \in {st.current, st.previous} : s # None /\ s.version = v}

InstallSave ==
    LET st == WithUpdate(job.st, job.version) IN
    /\ up = "run" /\ job.pc = "save" /\ job' = NoJob
    /\ Saved(st)
    /\ \/ full /\ phase' = "failed" /\ UNCHANGED <<staged, restart>>
       \/ ~full /\ phase' = "restarting" /\ restart' = TRUE /\ staged' = Pruned(st)
    /\ UNCHANGED <<machine, up, slot, build, back, mark, unsaved, budget>>

\* Rollback looks at the phase, but does not claim it until it has saved.
RollbackCheck(r) ==
    /\ up = "run" /\ back[r].pc = "idle" /\ Settled /\ ~unsaved /\ Spend("rollback")
    /\ back' = [back EXCEPT ![r].pc = "load"]
    /\ UNCHANGED <<disk, machine, server, job, mark, unsaved>>

RollbackLoad(r) ==
    /\ up = "run" /\ back[r].pc = "load"
    /\ back' = [back EXCEPT ![r] = IF file.current = None THEN NoRequest
                                   ELSE [pc |-> "save", st |-> file]]
    /\ UNCHANGED <<disk, machine, server, job, mark, unsaved, budget>>

WentBack(st) == [current |-> st.previous, previous |-> None]

RollbackSave(r) ==
    /\ up = "run" /\ back[r].pc = "save"
    /\ back' = [back EXCEPT ![r] = NoRequest]
    /\ Saved(WentBack(back[r].st))
    /\ \/ full /\ UNCHANGED <<phase, restart>>
       \/ ~full /\ phase' = "restarting" /\ restart' = TRUE
    /\ UNCHANGED <<staged, machine, up, slot, build, job, mark, unsaved, budget>>

AnyCurrent(st) == st.current # None /\ ~st.current.good   \* mutant: whichever it is
\* It came up and stayed up: MarkGood, once in the life of the process.
Unmarked(st) ==
    st.current # None /\ st.current.version = slot /\ ~st.current.good

MarkLoad ==
    /\ up = "run" /\ slot # None /\ slot \notin Bad /\ mark.pc = "wait"
    /\ mark' = IF Unmarked(file) THEN [pc |-> "save", st |-> file] ELSE NoRequest
    /\ UNCHANGED <<disk, machine, server, job, back, unsaved, budget>>

MarkedGood(st) == [st EXCEPT !.current = [version |-> @.version, at |-> @.at, good |-> TRUE,
                                           attempts |-> 0]]

MarkSave ==
    /\ up = "run" /\ mark.pc = "save" /\ mark' = NoRequest
    /\ Saved(MarkedGood(mark.st))
    /\ UNCHANGED <<staged, machine, server, job, back, unsaved, budget>>

\* The process is replaced by the installed binary, or exits and is started
\* again: its goroutines and the trial of the port rules are gone.
Relaunch(base) ==
    /\ up' = "launch" /\ slot' = None /\ build' = base
    /\ phase' = "idle" /\ restart' = FALSE
    /\ job' = NoJob /\ back' = [r \in Requests |-> NoRequest] /\ mark' = Waiting
    /\ unsaved' = FALSE

Restart ==
    /\ up = "run" /\ restart /\ Relaunch(installed)
    /\ UNCHANGED <<disk, machine, budget>>

-----------------------------------------------------------------------------
(* The world around the process                                            *)

\* A version that does not stay up dies before GoodAfter.
DieEarly ==
    /\ up = "run" /\ slot \in Bad /\ Relaunch(installed)
    /\ UNCHANGED <<disk, machine, budget>>

Crash ==
    /\ Spend("crash") /\ Relaunch(installed)
    /\ UNCHANGED <<disk, machine>>

\* A new image or package; the service is started with it.
Package(v) ==
    /\ Spend("package") /\ installed' = v /\ replaced' = replaced + 1 /\ Relaunch(v)
    /\ UNCHANGED <<disk, full>>

DiskFull ==
    /\ Spend("full") /\ full' = ~full
    /\ UNCHANGED <<disk, installed, replaced, server, threads, unsaved>>

LoseBinary(v) ==
    /\ Spend("lost") /\ v \in staged /\ staged' = staged \ {v}
    /\ UNCHANGED <<file, machine, server, threads, unsaved>>

\* An administrator changes port rules, or settles the change.
Trial ==
    /\ up = "run"
    /\ \/ ~unsaved /\ Spend("trial") /\ unsaved' = TRUE
       \/ unsaved /\ unsaved' = FALSE /\ UNCHANGED budget
    /\ UNCHANGED <<disk, machine, server, threads>>

Init ==
    /\ file = Empty /\ staged = {}
    /\ installed \in InitialBase /\ replaced = 0 /\ full = FALSE
    /\ up = "launch" /\ slot = None /\ build = installed
    /\ phase = "idle" /\ restart = FALSE
    /\ job = NoJob /\ back = [r \in Requests |-> NoRequest] /\ mark = Waiting
    /\ unsaved = FALSE /\ budget = Budget

Install == InstallFail \/ InstallLoad \/ InstallSave
Mark == MarkLoad \/ MarkSave
Rollback(r) == RollbackCheck(r) \/ RollbackLoad(r) \/ RollbackSave(r)
World ==
    \/ DieEarly \/ Crash \/ DiskFull \/ Trial
    \/ \E v \in Bases : Package(v)
    \/ \E v \in Versions : LoseBinary(v)

Next ==
    \/ Launch
    \/ \E v \in Versions : Apply(v)
    \/ Install
    \/ \E r \in Requests : Rollback(r)
    \/ Mark
    \/ Restart
    \/ World

Spec == Init /\ [][Next]_vars

(***************************************************************************)
(* The service manager starts the service again, a version that cannot     *)
(* stay up does not, and a requested restart comes.  Nobody has to apply   *)
(* or roll back anything.                                                  *)
(***************************************************************************)
FairSpec ==
    /\ Spec
    /\ WF_vars(Launch) /\ WF_vars(DieEarly) /\ WF_vars(Restart)

(***************************************************************************)
(* Properties                                                              *)
(***************************************************************************)

\* Every variable keeps its type; no version has more than MaxAttempts starts on
\* record (more starts may have happened: a full disk keeps none of them, and
\* applying or putting back a version begins its count anew).
TypeOK ==
    /\ file \in State /\ staged \subseteq Versions
    /\ installed \in Bases /\ replaced \in Nat /\ full \in BOOLEAN
    /\ up \in {"launch", "run"} /\ slot \in Versions \cup {None} /\ build \in Bases
    /\ phase \in {"idle", "busy", "failed", "restarting"} /\ restart \in BOOLEAN
    /\ job \in [pc : {"none", "fetch", "save"}, version : Versions, st : State]
    /\ back \in [Requests -> [pc : {"idle", "load", "save"}, st : State]]
    /\ mark \in [pc : {"wait", "idle", "save"}, st : State]
    /\ unsaved \in BOOLEAN /\ budget \in [Outside -> Nat]

\* What an update is undone to has stayed up once, through the load and save
\* of three goroutines (install keeps prev, rollback, MarkGood).
GoodSlots == {s \in {file.current, file.previous} : s # None /\ s.good}
PreviousIsGood == file.previous # None => file.previous.good

\* A version that cannot stay up is never recorded as good, also when another
\* version was installed or put back while the timer ran (MarkGood).
GoodStayedUp == \A s \in GoodSlots : s.version \notin Bad

\* Whatever was applied, undone, lost or replaced, the service comes back with
\* a version that stays up, unless the disk is full: failing starts come to an
\* end (Launch, MaxAttempts), and so does the search for a binary.  What was
\* installed counts as staying up: nothing watches its start (the launcher runs
\* it as the last resort), and DieEarly is the end of a version handed over to.
Serving == up = "run" /\ slot \notin Bad
ServiceReturns == []<>(Serving \/ full)

\* Going back by itself never ends before what the administrator installed
\* last: the newer of the installed binary and the update runs (README:
\* "the newer of the two choices wins").
NewestWins ==
    [][up = "launch" /\ up' = "run" => build' >= installed]_vars

=============================================================================
