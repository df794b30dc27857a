------------------------------- MODULE Services -------------------------------
(***************************************************************************)
(* The services of the server behind the Honeypots screen: listeners that  *)
(* are switched on and off while the server runs, their accept loops and   *)
(* connections, the shutdown, and the turns kept in the database        *)
(* (server/services.go, server/server.go, storage/settings.go).            *)
(* Server.mu makes a step of what is done under it.  Between Accept and    *)
(* track a connection is in the hand of its accept loop only: that is      *)
(* where turns and Stop come in between.                                *)
(***************************************************************************)
EXTENDS Integers, Sequences, FiniteSets

CONSTANTS
    PortOf,        \* the ports of the services, in the order they are started
    Managed,       \* those of the config file alone: stealth and passthrough
    FirstFiles,    \* bound: what the config file says at first, [Service -> BOOLEAN] each
    Guests,        \* connections; one that has ended may come again
    NoOne,        \* no connection, no accept loop
    Unset,         \* no override, no choice
    MaxConns,      \* maxConcurrentConns: 4096
    MaxLoops,      \* bound: accept loops at once
    MaxTurns,   \* bound: turns of the operator
    MaxEdits,      \* bound: edits of the config file, and ports other programs take
    MaxEnds,       \* bound: crashes and shutdowns
    MaxRefused     \* bound: database calls that fail

Service == DOMAIN PortOf
\* config.Validate: services that are on have ports of their own.
ValidFile(f) == \A s, t \in Service : f[s] /\ f[t] /\ PortOf[s] = PortOf[t] => s = t

LoopIds == 1..MaxLoops
Overrides == [on : BOOLEAN, cfg : BOOLEAN]
Loops == [of : Service, hand : Guests \cup {NoOne}]

ASSUME ServicesAssumption ==
    /\ PortOf \in Seq(Nat) /\ Managed \subseteq Service
    /\ \A f \in FirstFiles : f \in [Service -> BOOLEAN] /\ ValidFile(f)
    /\ IsFiniteSet(Guests) /\ NoOne \notin Guests \cup LoopIds \cup Loops /\ Unset \notin BOOLEAN \cup Overrides
    /\ MaxConns \in Nat \ {0} /\ MaxLoops \in Nat /\ Len(PortOf) <= MaxLoops
    /\ MaxTurns \in Nat /\ MaxEdits \in Nat /\ MaxEnds \in Nat /\ MaxRefused \in Nat

VARIABLES
    file,      \* what the config file says
    override,  \* the row of each service in the database: [on, cfg] or Unset
    others,    \* ports held by other programs
    phase,     \* of the process: "down", "up", "failed" (Start gave up), "stopping"
    svc,       \* of each service: cfg (cfgEnabled), on (enabled), ln (the accept loop
               \*   of its listener, or NoOne), error (lastErr), conns
    loops,     \* accept loops: [of, hand], or NoOne
    visit,     \* of each connection: at, of, cut (closed by the server)
    tracked,   \* Server.conns
    slots,     \* taken of Server.sem
    choice,    \* history: the last choice that was saved, until the file changes
    asRead,      \* history: what the last Start that looked found in the file
    unkept,   \* history: services whose last switch was not saved
    slipped,   \* history: connections tracked while their service did not listen
    turns, edits, ends, refused

process_vars == <<phase, svc, loops, visit, tracked, slots, slipped>>
stored_vars == <<override, choice, asRead, unkept>>
limit_vars == <<turns, edits, ends, refused>>
services_vars == <<file, stored_vars, others, process_vars, limit_vars>>

Away == [at |-> "away", of |-> NoOne, cut |-> FALSE]
Off(cfg) == [cfg |-> cfg, on |-> FALSE, ln |-> NoOne, error |-> FALSE, conns |-> {}]
Runtimes == [cfg : BOOLEAN, on : BOOLEAN, ln : LoopIds \cup {NoOne}, error : BOOLEAN, conns : SUBSET Guests]
Visits == [at : {"hand", "served", "leaving"}, of : Service, cut : BOOLEAN]

ServicesTypeOK ==
    /\ file \in [Service -> BOOLEAN]
    /\ override \in [Service -> Overrides \cup {Unset}]
    /\ others \subseteq {PortOf[s] : s \in Service}
    /\ phase \in {"down", "up", "failed", "stopping"}
    /\ svc \in [Service -> Runtimes]
    /\ loops \in [LoopIds -> Loops \cup {NoOne}]
    /\ visit \in [Guests -> Visits \cup {Away}]
    /\ tracked \subseteq Guests /\ slipped \subseteq Guests /\ slots \in 0..MaxConns
    /\ choice \in [Service -> BOOLEAN \cup {Unset}]
    /\ asRead \in [Service -> BOOLEAN] /\ unkept \subseteq Service

\* A process that is gone takes its listeners and connections with it.
Gone ==
    /\ phase' = "down"
    /\ svc' = [s \in Service |-> Off(FALSE)]
    /\ loops' = [l \in LoopIds |-> NoOne]
    /\ visit' = [g \in Guests |-> Away]
    /\ tracked' = {} /\ slipped' = {} /\ slots' = 0

ServicesInit ==
    /\ file \in FirstFiles
    /\ override = [s \in Service |-> Unset]
    /\ others = {} /\ phase = "down"
    /\ svc = [s \in Service |-> Off(FALSE)]
    /\ loops = [l \in LoopIds |-> NoOne]
    /\ visit = [g \in Guests |-> Away]
    /\ tracked = {} /\ slipped = {} /\ slots = 0
    /\ choice = [s \in Service |-> Unset] /\ asRead = file /\ unkept = {}
    /\ turns = MaxTurns /\ edits = MaxEdits /\ ends = MaxEnds /\ refused = MaxRefused

-----------------------------------------------------------------------------
(* Start.                                                                  *)

\* ServiceOverride: the row counts while the file says what it said then, and
\* is deleted otherwise.  Only honeypots have one.
\* A faulty form, for a mutant: once stored, the choice counts for ever.
CountsAlways(s) == override[s] # Unset
Counts(s) == override[s] # Unset /\ override[s].cfg = file[s]
Kept(s) == IF Counts(s) THEN override[s] ELSE Unset
Enabled(s) == IF Counts(s) THEN override[s].on ELSE file[s]

\* The history: a choice ends where this Start finds the file changed since the
\* last one that looked.
SeenBy(read) ==
    /\ override' = [s \in Service |-> IF s \in read THEN Kept(s) ELSE override[s]]
    /\ choice' = [s \in Service |-> IF s \in read /\ file[s] # asRead[s] THEN Unset ELSE choice[s]]
    /\ asRead' = [s \in Service |-> IF s \in read THEN file[s] ELSE asRead[s]]
    /\ unkept' = unkept \ read

\* The listeners are opened in order, under the lock: a port that another
\* program or a service before this one has is refused, and Start ends at a
\* refusal unless the service is on by the dashboard's choice alone.
Gets(s) == Enabled(s) /\ PortOf[s] \notin others /\ \A t \in 1..s - 1 : Enabled(t) => PortOf[t] # PortOf[s]
Refuses(s) == Enabled(s) /\ ~Gets(s)
Fatal == {s \in Service : Refuses(s) /\ file[s]}
Tried(s) == \A t \in Fatal : s <= t
Opened == {s \in Service : Gets(s) /\ Tried(s)}

StartUp ==
    /\ phase = "down"
    /\ SeenBy(Service)
    /\ svc' = [s \in Service |-> [cfg |-> file[s], on |-> Enabled(s), ln |-> IF s \in Opened THEN s ELSE NoOne,
                                 error |-> Refuses(s) /\ Tried(s), conns |-> {}]]
    /\ loops' = [l \in LoopIds |-> IF l \in Opened THEN [of |-> l, hand |-> NoOne] ELSE NoOne]
    /\ phase' = IF Fatal = {} THEN "up" ELSE "failed"
    /\ UNCHANGED <<file, others, visit, tracked, slots, slipped, limit_vars>>

\* buildServices ends at a row that cannot be read, before any listener.
StartUnread(s) ==
    /\ phase = "down" /\ refused > 0 /\ refused' = refused - 1
    /\ s \notin Managed
    /\ SeenBy({t \in Service : t < s})
    /\ UNCHANGED <<file, others, process_vars, turns, edits, ends>>

-----------------------------------------------------------------------------
(* SetServiceEnabled, one switch at a time under the lock.                 *)

Switchable(s) ==
    phase = "up" /\ s \notin Managed /\ turns > 0 /\ turns' = turns - 1
\* The row is written last: when that fails the switch is answered with an
\* error, and has happened.
Save(s, on) ==
    \/ /\ override' = [override EXCEPT ![s] = [on |-> on, cfg |-> svc[s].cfg]]
       /\ choice' = [choice EXCEPT ![s] = on]
       /\ unkept' = unkept \ {s}
       /\ UNCHANGED <<asRead, refused>>
    \/ /\ refused > 0 /\ refused' = refused - 1
       /\ unkept' = unkept \cup {s}
       /\ UNCHANGED <<override, choice, asRead>>

\* Another service that listens on the port refuses the switch, with nothing
\* done; another program that has it leaves an error (startListenerLocked).
PortConflict(s) == \E t \in Service \ {s} : svc[t].ln # NoOne /\ PortOf[t] = PortOf[s]
Free == {l \in LoopIds : loops[l] = NoOne}
SwitchOn(s) ==
    /\ Switchable(s) /\ ~PortConflict(s) /\ (svc[s].ln # NoOne \/ PortOf[s] \notin others)
    /\ Save(s, TRUE)
    /\ IF svc[s].ln # NoOne
       THEN svc' = [svc EXCEPT ![s].on = TRUE] /\ UNCHANGED loops
       ELSE /\ Free # {}
            /\ LET l == CHOOSE l \in Free : TRUE
               IN /\ svc' = [svc EXCEPT ![s].on = TRUE, ![s].ln = l, ![s].error = FALSE, ![s].conns = {}]
                  /\ loops' = [loops EXCEPT ![l] = [of |-> s, hand |-> NoOne]]
    /\ UNCHANGED <<file, others, phase, visit, tracked, slots, slipped, edits, ends>>
SwitchRefused(s) ==
    /\ Switchable(s) /\ svc[s].ln = NoOne /\ ~PortConflict(s) /\ PortOf[s] \in others
    /\ svc' = [svc EXCEPT ![s].error = TRUE]
    /\ UNCHANGED <<file, stored_vars, others, phase, loops, visit, tracked, slots, slipped, edits, ends, refused>>

\* stopListenerLocked: the listener and the connections on the service's list.
Cut(gs) == [g \in Guests |-> IF g \in gs THEN [visit[g] EXCEPT !.cut = TRUE] ELSE visit[g]]
SwitchOff(s) ==
    /\ Switchable(s)
    /\ Save(s, FALSE)
    /\ visit' = IF svc[s].ln # NoOne THEN Cut(svc[s].conns) ELSE visit
    /\ svc' = [svc EXCEPT ![s].on = FALSE, ![s].ln = NoOne, ![s].error = FALSE]
    /\ UNCHANGED <<file, others, phase, loops, tracked, slots, slipped, edits, ends>>

-----------------------------------------------------------------------------
(* acceptLoop and the goroutine of a connection.                           *)

Listens(l) == loops[l] # NoOne /\ svc[loops[l].of].ln = l
\* Without a free slot the connection is closed and nothing has changed.
Accept(l, g) ==
    /\ Listens(l) /\ loops[l].hand = NoOne /\ visit[g] = Away /\ slots < MaxConns
    /\ slots' = slots + 1
    /\ loops' = [loops EXCEPT ![l].hand = g]
    /\ visit' = [visit EXCEPT ![g] = [at |-> "hand", of |-> loops[l].of, cut |-> FALSE]]
    /\ UNCHANGED <<file, stored_vars, others, phase, svc, tracked, slipped, limit_vars>>

\* track: a server that stops takes no connection any more, and the loop ends.
\* A faulty form, for a mutant: the flag is not asked.
TrackAlways == TRUE
MayTrack == phase # "stopping"
Tracked(l) ==
    LET g == loops[l].hand  s == loops[l].of
    IN /\ MayTrack
       /\ tracked' = tracked \cup {g}
       /\ svc' = [svc EXCEPT ![s].conns = @ \cup {g}]
       /\ visit' = [visit EXCEPT ![g].at = "served"]
       /\ loops' = [loops EXCEPT ![l].hand = NoOne]
       /\ slipped' = IF svc[s].ln = NoOne THEN slipped \cup {g} ELSE slipped
       /\ UNCHANGED slots
TurnedAway(l) ==
    /\ ~MayTrack
    /\ slots' = slots - 1
    /\ visit' = [visit EXCEPT ![loops[l].hand] = Away]
    /\ loops' = [loops EXCEPT ![l] = NoOne]
    /\ UNCHANGED <<tracked, svc, slipped>>
Track(l) ==
    /\ loops[l] # NoOne /\ loops[l].hand # NoOne
    /\ Tracked(l) \/ TurnedAway(l)
    /\ UNCHANGED <<file, stored_vars, others, phase, limit_vars>>
\* Accept returns ErrClosed.
LoopEnds(l) ==
    /\ loops[l] # NoOne /\ loops[l].hand = NoOne /\ ~Listens(l)
    /\ loops' = [loops EXCEPT ![l] = NoOne]
    /\ UNCHANGED <<file, stored_vars, others, phase, svc, visit, tracked, slots, slipped, limit_vars>>

\* A handler returns when it likes, and once its connection is closed it must:
\* the connection is closed and untracked, then its slot is given back.
Leave(g) ==
    /\ visit[g].at = "served"
    /\ visit' = [visit EXCEPT ![g].at = "leaving", ![g].cut = TRUE]
    /\ tracked' = tracked \ {g} /\ slipped' = slipped \ {g}
    /\ svc' = [svc EXCEPT ![visit[g].of].conns = @ \ {g}]
    /\ UNCHANGED <<file, stored_vars, others, phase, loops, slots, limit_vars>>
Release(g) ==
    /\ visit[g].at = "leaving"
    /\ visit' = [visit EXCEPT ![g] = Away]
    /\ slots' = slots - 1
    /\ UNCHANGED <<file, stored_vars, others, phase, svc, loops, tracked, slipped, limit_vars>>

-----------------------------------------------------------------------------
(* Stop, crashes, and the world.                                           *)

\* Under the lock; a Start that gave up is followed by it (main).
StopNow ==
    /\ phase' = "stopping"
    /\ svc' = [s \in Service |-> [svc[s] EXCEPT !.ln = NoOne]]
    /\ visit' = Cut(tracked)
    /\ UNCHANGED <<file, stored_vars, others, loops, tracked, slots, slipped, turns, edits, refused>>
Stop == phase = "up" /\ ends > 0 /\ ends' = ends - 1 /\ StopNow
StopAfterFailure == phase = "failed" /\ UNCHANGED ends /\ StopNow
\* wg.Wait is over: no accept loop and no handler is left.
Stopped ==
    /\ phase = "stopping"
    /\ \A l \in LoopIds : loops[l] = NoOne
    /\ \A g \in Guests : visit[g] = Away
    /\ Gone
    /\ UNCHANGED <<file, stored_vars, others, limit_vars>>
Crash ==
    /\ phase # "down" /\ ends > 0 /\ ends' = ends - 1
    /\ Gone
    /\ UNCHANGED <<file, stored_vars, others, turns, edits, refused>>

Outside == edits > 0 /\ edits' = edits - 1 /\ UNCHANGED <<stored_vars, process_vars, turns, ends, refused>>
EditFile(s) ==
    /\ Outside
    /\ file' = [file EXCEPT ![s] = ~@] /\ ValidFile(file')
    /\ UNCHANGED others
\* Another program takes a port that nobody listens on, or gives it back.
PortTaken(p) ==
    /\ Outside
    /\ \A s \in Service : PortOf[s] = p => svc[s].ln = NoOne
    /\ others' = others \cup {p} /\ others' # others
    /\ UNCHANGED file
PortGiven(p) ==
    /\ Outside
    /\ p \in others /\ others' = others \ {p}
    /\ UNCHANGED file

\* What the goroutines of the server cannot but do.
Onward ==
    \/ \E l \in LoopIds : Track(l) \/ LoopEnds(l)
    \/ \E g \in Guests : (visit[g].cut /\ Leave(g)) \/ Release(g)
    \/ Stopped
ServicesNext ==
    \/ StartUp \/ \E s \in Service : StartUnread(s)
    \/ \E s \in Service : SwitchOn(s) \/ SwitchRefused(s) \/ SwitchOff(s) \/ EditFile(s)
    \/ \E l \in LoopIds : (\E g \in Guests : Accept(l, g)) \/ Track(l) \/ LoopEnds(l)
    \/ \E g \in Guests : Leave(g) \/ Release(g)
    \/ Stop \/ StopAfterFailure \/ Stopped \/ Crash
    \/ \E s \in Service : PortTaken(PortOf[s]) \/ PortGiven(PortOf[s])

ServicesSpec == ServicesInit /\ [][ServicesNext]_services_vars

-----------------------------------------------------------------------------
(* Services(): what the Honeypots screen has of a service (svcStatus).     *)

Running(s) == svc[s].ln # NoOne
StatusOf(s) == IF svc[s].error THEN "Failed to start" ELSE IF Running(s) THEN "Listening" ELSE "Off"
InService == {g \in Guests : visit[g].at = "served"}

\* The statuses are true: a service that is listening has one accept loop that
\* takes connections and its port to itself, one that is off has its switch off,
\* and one that is on and not listening says that it failed.
StatusTrue ==
    phase = "up" => \A s \in Service :
        /\ StatusOf(s) = "Listening" <=> \E l \in LoopIds : Listens(l) /\ loops[l].of = s
        /\ StatusOf(s) = "Listening" =>
               /\ svc[s].on /\ PortOf[s] \notin others
               /\ \A t \in Service \ {s} : Running(t) => PortOf[t] # PortOf[s]
        /\ StatusOf(s) = "Off" => ~svc[s].on

\* Every slot that is taken belongs to a connection in the hand of an accept
\* loop, in its handler, or on the way out of it, whatever was switched or
\* stopped in between.
SlotsMatch == slots = Cardinality({g \in Guests : visit[g] # Away})

\* A connection that is served and not closed is where Stop finds it, and where
\* the switch of its service does; only one that was tracked after its service
\* was switched off escapes the switch, and none escapes Stop.
NoneEscapes ==
    /\ tracked = InService
    /\ \A g \in InService : ~visit[g].cut =>
           /\ phase # "stopping"
           /\ g \in slipped \/ (Running(visit[g].of) /\ g \in svc[visit[g].of].conns)

\* After any number of restarts, crashes and edits a honeypot is as the operator
\* last chose, while the file says the same of it, and as the file says
\* otherwise; the exception is a switch that was answered with an error because
\* it could not be saved, until the next start.
ChoiceSurvives ==
    phase = "up" => \A s \in Service \ unkept :
        svc[s].on = IF choice[s] = Unset THEN svc[s].cfg ELSE choice[s]

ServicesTrue == ServicesTypeOK /\ StatusTrue /\ SlotsMatch /\ NoneEscapes /\ ChoiceSurvives

\* Stop returns: whatever was accepted, tracked and switched before, the accept
\* loops end and the handlers return, if one whose connection is closed does.
StopReturns == (phase \in {"stopping", "failed"}) ~> (phase = "down")

\* Nothing is served of a honeypot that is off, as "stopListenerLocked closes rt's
\* listener and its open connections" has it (services.go:117).  The code does not
\* keep that: a connection in the hand of the accept loop is tracked afterwards.
OffIsSilent ==
    phase = "up" => \A s \in Service \ Managed :
        ~Running(s) => \A g \in InService : visit[g].of = s => visit[g].cut
===============================================================================
