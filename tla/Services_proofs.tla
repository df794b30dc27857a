--------------------------- MODULE Services_proofs ---------------------------
(***************************************************************************)
(* What is proved of the services of the server for any number of          *)
(* services, connections, accept loops and switches: no slot is lost, no   *)
(* connection escapes Stop, the statuses are true and choices survive.     *)
(***************************************************************************)
EXTENDS Services, FiniteSetTheorems, TLAPS

\* A connection in the hand of an accept loop is in no other, and without a
\* process there is none.
Hands ==
    /\ \A l \in LoopIds : loops[l] # NoOne /\ loops[l].hand # NoOne =>
           visit[loops[l].hand] = [at |-> "hand", of |-> loops[l].of, cut |-> FALSE]
    /\ \A k, l \in LoopIds : loops[k] # NoOne /\ loops[l] # NoOne /\ loops[k].hand # NoOne
                             /\ loops[k].hand = loops[l].hand => k = l
NoneLeft ==
    phase = "down" => /\ \A g \in Guests : visit[g] = Away
                      /\ \A l \in LoopIds : loops[l] = NoOne
                      /\ \A s \in Service : svc[s].ln = NoOne
OwnListed == \A s \in Service : svc[s].conns \subseteq {g \in InService : visit[g].of = s}
ConnRecords == Hands /\ NoneLeft /\ OwnListed /\ NoneEscapes

\* A listener has its own accept loop, whatever the phase.
OwnLoops ==
    /\ \A s \in Service : svc[s].ln # NoOne =>
           /\ loops[svc[s].ln] # NoOne /\ loops[svc[s].ln].of = s
           /\ svc[s].on /\ ~svc[s].error /\ PortOf[s] \notin others
           /\ \A t \in Service \ {s} : svc[t].ln # NoOne => PortOf[t] # PortOf[s]
    /\ phase = "up" => \A s \in Service : svc[s].on /\ svc[s].ln = NoOne => svc[s].error
    /\ phase = "stopping" => \A s \in Service : svc[s].ln = NoOne

\* The row and the history say the same, and the row is about the file that was
\* read last.
ChoiceKept ==
    /\ \A s \in Service : choice[s] = IF override[s] = Unset THEN Unset ELSE override[s].on
    /\ \A s \in Service : override[s] # Unset => override[s].cfg = asRead[s]
    /\ phase = "up" => \A s \in Service : svc[s].cfg = asRead[s]
    /\ ChoiceSurvives

Inv == ServicesTypeOK /\ SlotsMatch /\ ConnRecords /\ OwnLoops /\ ChoiceKept
-----------------------------------------------------------------------------
(* Types.  Slots are counted apart: a slot is given back only if taken.    *)

Typed ==
    /\ file \in [Service -> BOOLEAN]
    /\ override \in [Service -> Overrides \cup {Unset}]
    /\ others \subseteq {PortOf[s] : s \in Service}
    /\ phase \in {"down", "up", "failed", "stopping"}
    /\ svc \in [Service -> Runtimes]
    /\ loops \in [LoopIds -> Loops \cup {NoOne}]
    /\ visit \in [Guests -> Visits \cup {Away}]
    /\ tracked \subseteq Guests /\ slipped \subseteq Guests
    /\ choice \in [Service -> BOOLEAN \cup {Unset}]
    /\ asRead \in [Service -> BOOLEAN] /\ unkept \subseteq Service

LEMMA ServiceIsLoop == Service = 1..Len(PortOf) /\ Service \subseteq LoopIds
  BY ServicesAssumption DEF Service, LoopIds

LEMMA SeenTyped ==
    ASSUME Typed, NEW read \in SUBSET Service, SeenBy(read)
    PROVE  /\ override' \in [Service -> Overrides \cup {Unset}]
           /\ choice' \in [Service -> BOOLEAN \cup {Unset}]
           /\ asRead' \in [Service -> BOOLEAN] /\ unkept' \subseteq Service
  BY DEF Typed, SeenBy, Kept, Counts

LEMMA SaveTyped ==
    ASSUME Typed, NEW s \in Service, NEW on \in BOOLEAN, Save(s, on)
    PROVE  /\ override' \in [Service -> Overrides \cup {Unset}]
           /\ choice' \in [Service -> BOOLEAN \cup {Unset}]
           /\ asRead' \in [Service -> BOOLEAN] /\ unkept' \subseteq Service
  <1>1. svc[s].cfg \in BOOLEAN
    BY DEF Typed, Runtimes
  <1> QED
    BY <1>1 DEF Typed, Save, Overrides

\* A connection that is not away is of a service; cutting it leaves it there.
LEMMA Served ==
    ASSUME Typed, NEW g \in Guests, visit[g] # Away
    PROVE  visit[g] \in Visits
  BY DEF Typed

LEMMA CutTyped ==
    ASSUME Typed, NEW gs \in SUBSET InService
    PROVE  Cut(gs) \in [Guests -> Visits \cup {Away}]
  <1>1. ASSUME NEW g \in gs
        PROVE  [visit[g] EXCEPT !.cut = TRUE] \in Visits
    <2>1. g \in Guests /\ visit[g] # Away
      BY <1>1 DEF InService, Away
    <2>2. visit[g] \in Visits
      BY <2>1, Served
    <2> QED
      BY <2>2 DEF Visits
  <1> QED
    BY <1>1 DEF Typed, Cut

\* One service changes.
LEMMA RuntimeTyped ==
    ASSUME Typed, NEW s \in Service, NEW r \in Runtimes, svc' = [svc EXCEPT ![s] = r]
    PROVE  svc' \in [Service -> Runtimes]
  BY DEF Typed

LEMMA Fields ==
    ASSUME NEW r \in Runtimes
    PROVE  /\ r.cfg \in BOOLEAN /\ r.on \in BOOLEAN /\ r.ln \in LoopIds \cup {NoOne}
           /\ r.error \in BOOLEAN /\ r.conns \in SUBSET Guests
           /\ r = [cfg |-> r.cfg, on |-> r.on, ln |-> r.ln, error |-> r.error, conns |-> r.conns]
  BY DEF Runtimes

LEMMA TypedNext ==
    ASSUME Typed, ConnRecords, ServicesNext
    PROVE  Typed'
  <1> USE DEF Typed
  <1>1. CASE StartUp
    <2>1. \A s \in Service : Enabled(s) \in BOOLEAN
      BY DEF Enabled, Counts, Overrides
    <2>2. svc' \in [Service -> Runtimes]
      BY <1>1, <2>1, ServiceIsLoop DEF StartUp, Runtimes, Refuses, Gets, Tried
    <2>3. loops' \in [LoopIds -> Loops \cup {NoOne}]
      BY <1>1 DEF StartUp, Loops, Opened
    <2> QED
      BY <1>1, <2>2, <2>3, SeenTyped DEF StartUp
  <1>2. ASSUME NEW s \in Service, StartUnread(s) PROVE Typed'
    BY <1>2, SeenTyped DEF StartUnread, process_vars
  <1>3. ASSUME NEW s \in Service, SwitchOn(s) PROVE Typed'
    <2>1. svc' \in [Service -> Runtimes] /\ loops' \in [LoopIds -> Loops \cup {NoOne}]
      <3>1. CASE svc[s].ln # NoOne
        <4>1. svc[s] \in Runtimes
          OBVIOUS
        <4>2. [svc[s] EXCEPT !.on = TRUE] \in Runtimes
          BY <4>1, Fields DEF Runtimes
        <4> QED
          BY <1>3, <3>1, <4>2, RuntimeTyped DEF SwitchOn
      <3>2. CASE svc[s].ln = NoOne
        <4> DEFINE l == CHOOSE l \in Free : TRUE
        <4>1. l \in LoopIds
          BY <1>3, <3>2 DEF SwitchOn, Free
        <4>2. svc' = [svc EXCEPT ![s].on = TRUE, ![s].ln = l, ![s].error = FALSE, ![s].conns = {}]
              /\ loops' = [loops EXCEPT ![l] = [of |-> s, hand |-> NoOne]]
          BY <1>3, <3>2 DEF SwitchOn
        <4> HIDE DEF l
        <4>3. svc' \in [Service -> Runtimes] /\ loops' \in [LoopIds -> Loops \cup {NoOne}]
          <5>0. svc[s] \in Runtimes
            OBVIOUS
          <5>1. [svc[s] EXCEPT !.on = TRUE, !.ln = l, !.error = FALSE, !.conns = {}] \in Runtimes
            BY <4>1, <5>0, Fields DEF Runtimes
          <5>2. loops' \in [LoopIds -> Loops \cup {NoOne}]
            BY <4>1, <4>2 DEF Loops
          <5> QED
            BY <4>2, <5>1, <5>2, RuntimeTyped
        <4> QED
          BY <4>3
      <3> QED
        BY <3>1, <3>2
    <2> QED
      BY <1>3, <2>1, SaveTyped DEF SwitchOn
  <1>4. ASSUME NEW s \in Service, SwitchRefused(s) PROVE Typed'
    <2>1. svc' \in [Service -> Runtimes]
      <3>1. svc[s] \in Runtimes
        OBVIOUS
      <3>2. [svc[s] EXCEPT !.error = TRUE] \in Runtimes
        BY <3>1, Fields DEF Runtimes
      <3> QED
        BY <1>4, <3>2, RuntimeTyped DEF SwitchRefused
    <2> QED
      BY <1>4, <2>1 DEF SwitchRefused, stored_vars
  <1>5. ASSUME NEW s \in Service, SwitchOff(s) PROVE Typed'
    <2>1. svc' \in [Service -> Runtimes]
      <3>1. PICK r \in Runtimes : r = svc[s]
        OBVIOUS
      <3>2. [r EXCEPT !.on = FALSE, !.ln = NoOne, !.error = FALSE] \in Runtimes
        BY Fields DEF Runtimes
      <3> QED
        BY <1>5, <3>1, <3>2, RuntimeTyped DEF SwitchOff
    <2>2. visit' \in [Guests -> Visits \cup {Away}]
      BY <1>5, CutTyped DEF SwitchOff, ConnRecords, OwnListed
    <2> QED
      BY <1>5, <2>1, <2>2, SaveTyped DEF SwitchOff
  <1>6. ASSUME NEW l \in LoopIds, NEW g \in Guests, Accept(l, g) PROVE Typed'
    <2>1. loops[l] \in Loops
      BY <1>6 DEF Accept, Listens
    <2>2. loops' \in [LoopIds -> Loops \cup {NoOne}]
      BY <1>6, <2>1 DEF Accept, Loops
    <2>3. visit' \in [Guests -> Visits \cup {Away}]
      BY <1>6, <2>1 DEF Accept, Loops, Visits
    <2> QED
      BY <1>6, <2>2, <2>3 DEF Accept, stored_vars
  <1>7. ASSUME NEW l \in LoopIds, Track(l) PROVE Typed'
    <2> DEFINE g == loops[l].hand  s == loops[l].of
    <2>1. loops[l] \in Loops /\ g \in Guests /\ s \in Service
      BY <1>7 DEF Track, Loops
    <2>2. visit[g] \in Visits
      <3>1. visit[g] = [at |-> "hand", of |-> s, cut |-> FALSE]
        BY <1>7, <2>1 DEF Track, ConnRecords, Hands
      <3> QED
        BY <2>1, <3>1 DEF Visits
    <2>3. CASE Tracked(l)
      <3>1. svc' \in [Service -> Runtimes]
        <4>1. svc[s] \in Runtimes
          BY <2>1
        <4>2. [svc[s] EXCEPT !.conns = @ \cup {g}] \in Runtimes
          BY <2>1, <4>1, Fields DEF Runtimes
        <4> QED
          BY <2>1, <2>3, <4>2, RuntimeTyped DEF Tracked
      <3>2. loops' \in [LoopIds -> Loops \cup {NoOne}]
        BY <2>1, <2>3 DEF Tracked, Loops
      <3>3. visit' \in [Guests -> Visits \cup {Away}]
        BY <2>1, <2>2, <2>3 DEF Tracked, Visits
      <3> QED
        BY <1>7, <2>1, <2>3, <3>1, <3>2, <3>3 DEF Track, Tracked, stored_vars
    <2>4. CASE TurnedAway(l)
      BY <1>7, <2>1, <2>4 DEF Track, TurnedAway, stored_vars
    <2> QED
      BY <1>7, <2>3, <2>4 DEF Track
  <1>8. ASSUME NEW l \in LoopIds, LoopEnds(l) PROVE Typed'
    BY <1>8 DEF LoopEnds, stored_vars
  <1>9. ASSUME NEW g \in Guests, Leave(g) PROVE Typed'
    <2>1. visit[g] \in Visits
      BY <1>9, Served DEF Leave, Away
    <2>2. svc' \in [Service -> Runtimes]
      <3>1. visit[g].of \in Service
        BY <2>1 DEF Visits
      <3>2. [svc[visit[g].of] EXCEPT !.conns = @ \ {g}] \in Runtimes
        BY <3>1, Fields DEF Runtimes
      <3> QED
        BY <1>9, <3>1, <3>2, RuntimeTyped DEF Leave
    <2>3. visit' \in [Guests -> Visits \cup {Away}]
      BY <1>9, <2>1 DEF Leave, Visits
    <2> QED
      BY <1>9, <2>2, <2>3 DEF Leave, stored_vars
  <1>10. ASSUME NEW g \in Guests, Release(g) PROVE Typed'
    BY <1>10 DEF Release, stored_vars
  <1>11. ASSUME StopNow PROVE Typed'
    <2>1. svc' \in [Service -> Runtimes]
      <3>1. \A s \in Service : [svc[s] EXCEPT !.ln = NoOne] \in Runtimes
        BY Fields DEF Runtimes
      <3> QED
        BY <1>11, <3>1 DEF StopNow
    <2>2. visit' \in [Guests -> Visits \cup {Away}]
      BY <1>11, CutTyped DEF StopNow, ConnRecords, NoneEscapes
    <2> QED
      BY <1>11, <2>1, <2>2 DEF StopNow, stored_vars
  <1>12. ASSUME Gone, UNCHANGED <<file, stored_vars, others>> PROVE Typed'
    BY <1>12 DEF Gone, Off, Runtimes, stored_vars
  <1>13. ASSUME Outside, file' \in [Service -> BOOLEAN], others' \subseteq {PortOf[s] : s \in Service} PROVE Typed'
    BY <1>13 DEF Outside, stored_vars, process_vars
  <1>14. ASSUME NEW s \in Service, EditFile(s) \/ PortTaken(PortOf[s]) \/ PortGiven(PortOf[s]) PROVE Typed'
    BY <1>13, <1>14 DEF EditFile, PortTaken, PortGiven
  <1> QED
    BY <1>1, <1>2, <1>3, <1>4, <1>5, <1>6, <1>7, <1>8, <1>9, <1>10, <1>11, <1>12, <1>14
    DEF ServicesNext, Stop, StopAfterFailure, Stopped, Crash
-----------------------------------------------------------------------------
(* Slots.                                                                  *)

SlotsCounted == slots \in 0..MaxConns /\ SlotsMatch

LEMMA Taken ==
    ASSUME Typed, SlotsCounted, NEW g \in Guests, visit[g] = Away, slots < MaxConns, slots' = slots + 1,
           NEW v, v # Away, visit' = [visit EXCEPT ![g] = v]
    PROVE  SlotsCounted'
  <1> DEFINE Busy == {h \in Guests : visit[h] # Away}
  <1>1. IsFiniteSet(Busy) /\ slots = Cardinality(Busy)
    BY ServicesAssumption, FS_Subset DEF SlotsCounted, SlotsMatch
  <1>2. {h \in Guests : visit'[h] # Away} = Busy \cup {g} /\ g \notin Busy
    BY DEF Typed
  <1>3. Cardinality(Busy \cup {g}) = Cardinality(Busy) + 1
    <2> HIDE DEF Busy
    <2> QED
      BY <1>1, <1>2, FS_AddElement
  <1>4. SlotsMatch'
    BY <1>1, <1>2, <1>3 DEF SlotsMatch
  <1> QED
    BY <1>4, ServicesAssumption DEF SlotsCounted

LEMMA GivenBack ==
    ASSUME Typed, SlotsCounted, NEW g \in Guests, visit[g] # Away, slots' = slots - 1,
           visit' = [visit EXCEPT ![g] = Away]
    PROVE  SlotsCounted'
  <1> DEFINE Busy == {h \in Guests : visit[h] # Away}
  <1>1. IsFiniteSet(Busy) /\ slots = Cardinality(Busy)
    BY ServicesAssumption, FS_Subset DEF SlotsCounted, SlotsMatch
  <1>2. {h \in Guests : visit'[h] # Away} = Busy \ {g} /\ g \in Busy
    BY DEF Typed
  <1>3. Cardinality(Busy \ {g}) = Cardinality(Busy) - 1 /\ Cardinality(Busy) # 0
    <2> HIDE DEF Busy
    <2> QED
      BY <1>1, <1>2, FS_RemoveElement, FS_EmptySet
  <1>4. SlotsMatch'
    BY <1>1, <1>2, <1>3 DEF SlotsMatch
  <1> QED
    BY <1>1, <1>3, <1>4, ServicesAssumption DEF SlotsCounted

LEMMA SameSlots ==
    ASSUME SlotsCounted, slots' = slots, \A g \in Guests : visit'[g] = Away <=> visit[g] = Away
    PROVE  SlotsCounted'
  <1>1. {g \in Guests : visit'[g] # Away} = {g \in Guests : visit[g] # Away}
    OBVIOUS
  <1> QED
    BY <1>1 DEF SlotsCounted, SlotsMatch

\* Closing connections that are served leaves everything else of them as it is.
LEMMA CutOnly ==
    ASSUME Typed, NEW gs \in SUBSET InService, NEW g \in Guests
    PROVE  /\ Cut(gs)[g].at = visit[g].at /\ Cut(gs)[g].of = visit[g].of
           /\ Cut(gs)[g] = Away <=> visit[g] = Away
           /\ visit[g].at = "hand" => Cut(gs)[g] = visit[g]
           /\ Cut(gs)[g].cut <=> visit[g].cut \/ g \in gs
  <1>1. visit[g] \in Visits \cup {Away} /\ DOMAIN visit = Guests
    BY DEF Typed
  <1>2. CASE g \in gs
    <2>1. visit[g].at = "served" /\ visit[g] \in Visits
      BY <1>1, <1>2 DEF InService, Away
    <2> QED
      BY <1>2, <2>1 DEF Cut, Visits, Away
  <1>3. CASE g \notin gs
    BY <1>3 DEF Cut
  <1> QED
    BY <1>2, <1>3

LEMMA SlotsNext ==
    ASSUME Typed, SlotsCounted, ConnRecords, ServicesNext
    PROVE  SlotsCounted'
  <1>1. ASSUME NEW l \in LoopIds, NEW g \in Guests, Accept(l, g) PROVE SlotsCounted'
    <2> DEFINE v == [at |-> "hand", of |-> loops[l].of, cut |-> FALSE]
    <2>1. v # Away /\ visit' = [visit EXCEPT ![g] = v]
      BY <1>1 DEF Accept, Away
    <2> HIDE DEF v
    <2> QED
      BY <1>1, <2>1, Taken DEF Accept
  <1>2. ASSUME NEW l \in LoopIds, Track(l) PROVE SlotsCounted'
    <2>0. loops[l] \in Loops /\ loops[l].hand # NoOne
      BY <1>2 DEF Track, Typed
    <2>1. loops[l].hand \in Guests /\ visit[loops[l].hand].at = "hand" /\ visit[loops[l].hand] \in Visits
      <3>1. visit[loops[l].hand] = [at |-> "hand", of |-> loops[l].of, cut |-> FALSE]
        BY <1>2 DEF Track, ConnRecords, Hands
      <3>2. loops[l].hand \in Guests /\ loops[l].of \in Service
        BY <2>0 DEF Loops
      <3> QED
        BY <3>1, <3>2 DEF Visits
    <2>2. CASE Tracked(l)
      <3>1. visit[loops[l].hand] # Away /\ visit'[loops[l].hand] # Away
        BY <2>1, <2>2 DEF Tracked, Typed, Away, Visits
      <3> QED
        BY <2>1, <2>2, <3>1, SameSlots DEF Tracked, Typed
    <2>3. CASE TurnedAway(l)
      <3>1. visit[loops[l].hand] # Away
        BY <2>1 DEF Away
      <3> QED
        BY <2>1, <2>3, <3>1, GivenBack DEF TurnedAway
    <2> QED
      BY <1>2, <2>2, <2>3 DEF Track
  <1>3. ASSUME NEW g \in Guests, Leave(g) PROVE SlotsCounted'
    <2>1. visit[g] # Away
      BY <1>3 DEF Leave, Away
    <2>2. visit[g] \in Visits
      BY <2>1, Served
    <2>3. visit'[g] # Away
      BY <1>3, <2>2 DEF Leave, Typed, Away, Visits
    <2> QED
      BY <1>3, <2>1, <2>3, SameSlots DEF Leave, Typed
  <1>4. ASSUME NEW g \in Guests, Release(g) PROVE SlotsCounted'
    <2>1. visit[g] # Away
      BY <1>4 DEF Release, Away
    <2> QED
      BY <1>4, <2>1, GivenBack DEF Release
  <1>5. ASSUME NEW s \in Service, SwitchOff(s) PROVE SlotsCounted'
    <2>1. svc[s].conns \in SUBSET InService
      BY DEF ConnRecords, OwnListed
    <2> QED
      BY <1>5, <2>1, CutOnly, SameSlots DEF SwitchOff
  <1>6. ASSUME StopNow PROVE SlotsCounted'
    <2>1. tracked \in SUBSET InService
      BY DEF ConnRecords, NoneEscapes
    <2> QED
      BY <1>6, <2>1, CutOnly, SameSlots DEF StopNow
  <1>7. ASSUME Gone PROVE SlotsCounted'
    <2>1. {g \in Guests : visit'[g] # Away} = {}
      BY <1>7 DEF Gone
    <2> QED
      <3>1. Cardinality({g \in Guests : visit'[g] # Away}) = 0
        BY <2>1, FS_EmptySet
      <3> QED
        BY <1>7, <3>1, ServicesAssumption DEF Gone, SlotsCounted, SlotsMatch
  <1>8. ASSUME UNCHANGED <<visit, slots>> PROVE SlotsCounted'
    BY <1>8 DEF SlotsCounted, SlotsMatch
  <1>9. ASSUME NEW s \in Service, StartUnread(s) \/ SwitchOn(s) \/ SwitchRefused(s) \/ EditFile(s)
                                  \/ PortTaken(PortOf[s]) \/ PortGiven(PortOf[s])
        PROVE  UNCHANGED <<visit, slots>>
    BY <1>9 DEF StartUnread, SwitchOn, SwitchRefused, EditFile, PortTaken, PortGiven, Outside, process_vars
  <1>10. ASSUME StartUp \/ \E l \in LoopIds : LoopEnds(l) PROVE UNCHANGED <<visit, slots>>
    BY <1>10 DEF StartUp, LoopEnds
  <1> QED
    BY <1>1, <1>2, <1>3, <1>4, <1>5, <1>6, <1>7, <1>8, <1>9, <1>10
    DEF ServicesNext, Stop, StopAfterFailure, Stopped, Crash
-----------------------------------------------------------------------------
(* Connections.                                                            *)

\* What is said of hands holds as long as every hand that is full was so before,
\* of a connection that has not moved, in the same accept loop.
LEMMA HandsKept ==
    ASSUME Hands,
           \A l \in LoopIds : loops'[l] # NoOne /\ loops'[l].hand # NoOne =>
               loops[l] = loops'[l] /\ visit'[loops[l].hand] = visit[loops[l].hand]
    PROVE  Hands'
  BY DEF Hands

LEMMA HandsNext ==
    ASSUME Typed, ConnRecords, ServicesNext
    PROVE  Hands'
  <1> USE DEF ConnRecords
  <1>0. \A l \in LoopIds : loops[l] # NoOne => loops[l] \in Loops
    BY DEF Typed
  <1>a. \A l \in LoopIds : loops[l] # NoOne /\ loops[l].hand # NoOne =>
            loops[l].hand \in Guests /\ visit[loops[l].hand].at = "hand"
    <2>1. \A l \in LoopIds : loops[l] # NoOne /\ loops[l].hand # NoOne => loops[l].hand \in Guests
      BY <1>0 DEF Loops
    <2>2. ASSUME NEW l \in LoopIds, loops[l] # NoOne, loops[l].hand # NoOne
          PROVE  visit[loops[l].hand].at = "hand"
      <3>1. visit[loops[l].hand] = [at |-> "hand", of |-> loops[l].of, cut |-> FALSE]
        BY <2>2 DEF Hands
      <3> QED
        BY <3>1
    <2> QED
      BY <2>1, <2>2
  <1>1. CASE StartUp
    <2>1. \A l \in LoopIds : loops'[l] # NoOne => loops'[l].hand = NoOne
      BY <1>1 DEF StartUp
    <2> QED
      BY <2>1, HandsKept
  <1>2. ASSUME NEW s \in Service, SwitchOn(s) PROVE Hands'
    <2>1. CASE UNCHANGED loops
      BY <1>2, <2>1 DEF SwitchOn, Hands
    <2>2. CASE loops' # loops
      <3> DEFINE l == CHOOSE l \in Free : TRUE
      <3>1. loops' = [loops EXCEPT ![l] = [of |-> s, hand |-> NoOne]] /\ UNCHANGED visit
        BY <1>2, <2>2 DEF SwitchOn
      <3> HIDE DEF l
      <3> QED
        BY <3>1, HandsKept DEF Typed
    <2> QED
      BY <2>1, <2>2
  <1>3. ASSUME NEW l \in LoopIds, NEW g \in Guests, Accept(l, g) PROVE Hands'
    <2>1. loops[l] \in Loops /\ loops[l].hand = NoOne /\ visit[g].at = "away"
      BY <1>0, <1>3 DEF Accept, Listens, Away
    <2>2. loops'[l] = [of |-> loops[l].of, hand |-> g] /\ \A k \in LoopIds \ {l} : loops'[k] = loops[k]
      BY <1>3, <2>1 DEF Accept, Typed, Loops
    <2>3. visit'[g] = [at |-> "hand", of |-> loops[l].of, cut |-> FALSE]
          /\ \A h \in Guests \ {g} : visit'[h] = visit[h]
      BY <1>3 DEF Accept, Typed
    <2>4. \A k \in LoopIds \ {l} : loops[k] # NoOne => loops[k].hand # g
      BY <1>a, <2>1, ServicesAssumption
    <2>5. ASSUME NEW k \in LoopIds, loops'[k] # NoOne, loops'[k].hand # NoOne
          PROVE  visit'[loops'[k].hand] = [at |-> "hand", of |-> loops'[k].of, cut |-> FALSE]
      <3>1. CASE k = l
        <4>1. loops'[k].hand = g /\ loops'[k].of = loops[l].of
          BY <2>2, <3>1
        <4> QED
          BY <2>3, <4>1
      <3>2. CASE k # l
        BY <1>a, <2>2, <2>3, <2>4, <2>5, <3>2 DEF Hands
      <3> QED
        BY <3>1, <3>2
    <2>6. ASSUME NEW j \in LoopIds, NEW k \in LoopIds, loops'[j] # NoOne, loops'[k] # NoOne,
                 loops'[j].hand # NoOne, loops'[j].hand = loops'[k].hand
          PROVE  j = k
      <3>1. loops'[l].hand = g
        BY <2>2
      <3>2. CASE j # l /\ k # l
        BY <2>2, <2>6, <3>2 DEF Hands
      <3> QED
        BY <2>2, <2>4, <2>6, <3>1, <3>2
    <2> QED
      BY <2>5, <2>6 DEF Hands
  <1>4. ASSUME NEW l \in LoopIds, Track(l) PROVE Hands'
    <2>1. loops[l] # NoOne /\ loops[l].hand # NoOne /\ loops[l].hand \in Guests
      BY <1>4, <1>a DEF Track
    <2>2. \A k \in LoopIds \ {l} : loops'[k] = loops[k]
      BY <1>4 DEF Track, Tracked, TurnedAway, Typed
    <2>3. loops'[l] = NoOne \/ loops'[l].hand = NoOne
      BY <1>0, <1>4, <2>1 DEF Track, Tracked, TurnedAway, Typed, Loops
    <2>4. \A h \in Guests \ {loops[l].hand} : visit'[h] = visit[h]
      BY <1>4, <2>1 DEF Track, Tracked, TurnedAway, Typed
    <2>5. \A k \in LoopIds \ {l} : loops[k] # NoOne /\ loops[k].hand # NoOne => loops[k].hand # loops[l].hand
      BY <2>1 DEF Hands
    <2> QED
      BY <1>a, <2>2, <2>3, <2>4, <2>5, HandsKept
  <1>5. ASSUME NEW l \in LoopIds, LoopEnds(l) PROVE Hands'
    BY <1>5, HandsKept DEF LoopEnds, Typed
  <1>6. ASSUME NEW g \in Guests, Leave(g) \/ Release(g) PROVE Hands'
    <2>1. visit[g].at # "hand" /\ UNCHANGED loops
      BY <1>6 DEF Leave, Release
    <2>2. \A h \in Guests \ {g} : visit'[h] = visit[h]
      BY <1>6 DEF Leave, Release, Typed
    <2> QED
      BY <1>a, <2>1, <2>2, HandsKept
  <1>7. ASSUME NEW gs \in SUBSET InService, visit' = Cut(gs), UNCHANGED loops PROVE Hands'
    <2>1. \A h \in Guests : visit[h].at = "hand" => visit'[h] = visit[h]
      BY <1>7, CutOnly
    <2> QED
      BY <1>7, <1>a, <2>1, HandsKept
  <1>8. ASSUME NEW s \in Service, SwitchOff(s) PROVE Hands'
    <2>1. CASE svc[s].ln # NoOne
      BY <1>7, <1>8, <2>1 DEF SwitchOff, OwnListed
    <2>2. CASE svc[s].ln = NoOne
      BY <1>8, <2>2 DEF SwitchOff, Hands
    <2> QED
      BY <2>1, <2>2
  <1>9. ASSUME StopNow PROVE Hands'
    BY <1>7, <1>9 DEF StopNow, NoneEscapes
  <1>10. ASSUME Gone PROVE Hands'
    BY <1>10, HandsKept DEF Gone
  <1>11. ASSUME NEW s \in Service, StartUnread(s) \/ SwitchRefused(s) \/ EditFile(s)
                                   \/ PortTaken(PortOf[s]) \/ PortGiven(PortOf[s])
         PROVE  Hands'
    <2>1. UNCHANGED <<visit, loops>>
      BY <1>11 DEF StartUnread, SwitchRefused, EditFile, PortTaken, PortGiven, Outside, process_vars
    <2> QED
      BY <2>1 DEF Hands
  <1> QED
    BY <1>1, <1>2, <1>3, <1>4, <1>5, <1>6, <1>8, <1>9, <1>10, <1>11
    DEF ServicesNext, Stop, StopAfterFailure, Stopped, Crash

\* Without a process nothing is opened, accepted or served.
LEMMA EmptyNext ==
    ASSUME Typed, ConnRecords, ServicesNext
    PROVE  NoneLeft'
  <1> USE DEF ConnRecords
  <1>1. SUFFICES ASSUME phase' = "down" PROVE NoneLeft'
    BY DEF NoneLeft
  <1>2. CASE Gone
    <2>1. \A s \in Service : svc'[s].ln = NoOne
      BY <1>2 DEF Gone, Off
    <2> QED
      BY <1>2, <2>1 DEF Gone, NoneLeft
  <1>3. CASE phase = "down" /\ UNCHANGED <<svc, loops, visit>>
    BY <1>3 DEF NoneLeft
  <1>4. ASSUME NEW s \in Service, StartUnread(s) \/ EditFile(s) \/ PortTaken(PortOf[s]) \/ PortGiven(PortOf[s])
        PROVE  NoneLeft'
    BY <1>1, <1>3, <1>4 DEF StartUnread, EditFile, PortTaken, PortGiven, Outside, process_vars
  <1>5. ASSUME NEW s \in Service, SwitchOn(s) \/ SwitchRefused(s) \/ SwitchOff(s) PROVE FALSE
    BY <1>1, <1>5 DEF SwitchOn, SwitchRefused, SwitchOff, Switchable
  <1>6. ASSUME NEW l \in LoopIds, (\E g \in Guests : Accept(l, g)) \/ Track(l) \/ LoopEnds(l) PROVE FALSE
    BY <1>1, <1>6 DEF Accept, Listens, Track, LoopEnds, NoneLeft
  <1>7. ASSUME NEW g \in Guests, Leave(g) \/ Release(g) PROVE FALSE
    BY <1>1, <1>7 DEF Leave, Release, NoneLeft, Away
  <1>8. ASSUME StartUp \/ StopNow PROVE FALSE
    BY <1>1, <1>8 DEF StartUp, StopNow
  <1> QED
    BY <1>2, <1>4, <1>5, <1>6, <1>7, <1>8 DEF ServicesNext, Stop, StopAfterFailure, Stopped, Crash

\* The lists of the services and the one of Stop.
LEMMA EscapesNext ==
    ASSUME Typed, ConnRecords, ServicesNext
    PROVE  OwnListed' /\ NoneEscapes'
  <1> USE DEF ConnRecords
  <1>0. DOMAIN svc = Service /\ DOMAIN visit = Guests
    BY DEF Typed
  <1>1. CASE StartUp
    <2>1. InService' = {} /\ UNCHANGED <<visit, tracked>>
      BY <1>1 DEF StartUp, NoneLeft, InService, Away
    <2>2. \A s \in Service : svc'[s].conns = {}
      BY <1>1 DEF StartUp
    <2>3. tracked = {}
      BY <1>1, <2>1 DEF StartUp, NoneEscapes, InService, NoneLeft, Away
    <2> QED
      BY <2>1, <2>2, <2>3 DEF OwnListed, NoneEscapes
  <1>2. ASSUME NEW s \in Service, SwitchOn(s) PROVE OwnListed' /\ NoneEscapes'
    <2>0. UNCHANGED <<visit, tracked, slipped, phase>> /\ InService' = InService
      BY <1>2 DEF SwitchOn, InService
    <2>1. CASE svc[s].ln # NoOne
      <3>0. svc' = [svc EXCEPT ![s].on = TRUE]
        BY <1>2, <2>1 DEF SwitchOn
      <3>1. \A t \in Service : svc'[t].ln = svc[t].ln /\ svc'[t].conns = svc[t].conns
        BY <1>0, <3>0
      <3>2. \A g \in InService : ~visit[g].cut /\ g \notin slipped => visit[g].of \in Service
        BY Served DEF InService, Away, Visits
      <3> QED
        BY <2>0, <3>1, <3>2 DEF OwnListed, NoneEscapes, Running
    <2>2. CASE svc[s].ln = NoOne
      <3>1. \A t \in Service \ {s} : svc'[t] = svc[t]
        BY <1>2, <2>2 DEF SwitchOn, Typed
      <3>2. svc'[s].conns = {}
        <4> DEFINE l == CHOOSE l \in Free : TRUE
        <4>1. svc' = [svc EXCEPT ![s].on = TRUE, ![s].ln = l, ![s].error = FALSE, ![s].conns = {}]
          BY <1>2, <2>2 DEF SwitchOn
        <4> HIDE DEF l
        <4>2. svc[s] \in Runtimes
          BY DEF Typed
        <4> QED
          BY <1>0, <4>1, <4>2 DEF Runtimes
      <3>3. \A g \in InService : visit[g].of \in Service
        BY Served DEF InService, Away, Visits
      <3> QED
        BY <2>0, <2>2, <3>1, <3>2, <3>3 DEF OwnListed, NoneEscapes, Running
    <2> QED
      BY <2>1, <2>2
  <1>3. ASSUME NEW s \in Service, SwitchRefused(s) PROVE OwnListed' /\ NoneEscapes'
    <2>1. UNCHANGED <<visit, tracked, slipped, phase>> /\ InService' = InService
      BY <1>3 DEF SwitchRefused, InService
    <2>2. \A t \in Service : svc'[t].ln = svc[t].ln /\ svc'[t].conns = svc[t].conns
      BY <1>0, <1>3 DEF SwitchRefused
    <2>3. \A g \in InService : visit[g].of \in Service
      BY Served DEF InService, Away, Visits
    <2> QED
      BY <2>1, <2>2, <2>3 DEF OwnListed, NoneEscapes, Running
  <1>4. ASSUME NEW s \in Service, SwitchOff(s) PROVE OwnListed' /\ NoneEscapes'
    <2>1. \A t \in Service : svc'[t].conns = svc[t].conns
      BY <1>0, <1>4 DEF SwitchOff
    <2>2. \A t \in Service \ {s} : svc'[t].ln = svc[t].ln
      BY <1>0, <1>4 DEF SwitchOff
    <2>3. svc[s].conns \in SUBSET InService
      BY DEF OwnListed
    <2>4. /\ \A g \in Guests : visit'[g].at = visit[g].at /\ visit'[g].of = visit[g].of
          /\ \A g \in Guests : visit'[g].cut <=> visit[g].cut \/ (svc[s].ln # NoOne /\ g \in svc[s].conns)
      BY <1>4, <2>3, CutOnly DEF SwitchOff
    <2>5. InService' = InService /\ UNCHANGED <<tracked, slipped, phase>>
      BY <1>4, <2>4 DEF SwitchOff, InService
    <2>6. \A g \in InService : g \in Guests /\ visit[g].of \in Service
      BY Served DEF InService, Away, Visits
    <2>7. OwnListed'
      BY <2>1, <2>4, <2>5, <2>6 DEF OwnListed
    <2>8. NoneEscapes'
      BY <2>1, <2>2, <2>4, <2>5, <2>6 DEF NoneEscapes, Running
    <2> QED
      BY <2>7, <2>8
  <1>5. ASSUME NEW l \in LoopIds, NEW g \in Guests, Accept(l, g) PROVE OwnListed' /\ NoneEscapes'
    <2>1. visit[g].at = "away" /\ visit'[g].at = "hand" /\ \A h \in Guests \ {g} : visit'[h] = visit[h]
      BY <1>0, <1>5 DEF Accept, Away
    <2>2. InService' = InService /\ g \notin InService
      BY <2>1 DEF InService
    <2>3. \A h \in InService : visit'[h] = visit[h]
      BY <2>1, <2>2 DEF InService
    <2> QED
      BY <1>5, <2>2, <2>3 DEF Accept, OwnListed, NoneEscapes, Running
  <1>6. ASSUME NEW l \in LoopIds, Track(l) PROVE OwnListed' /\ NoneEscapes'
    <2> DEFINE g == loops[l].hand  s == loops[l].of
    <2>1. loops[l] \in Loops /\ g # NoOne
      BY <1>6 DEF Track, Typed
    <2>2. g \in Guests /\ s \in Service
      BY <2>1 DEF Loops
    <2>3. visit[g] = [at |-> "hand", of |-> s, cut |-> FALSE]
      BY <1>6 DEF Track, Hands
    <2>4. \A h \in Guests \ {g} : visit'[h] = visit[h]
      BY <1>0, <1>6, <2>2 DEF Track, Tracked, TurnedAway
    <2>5. g \notin InService
      BY <2>3 DEF InService
    <2>6. CASE TurnedAway(l)
      <3>1. visit'[g].at = "away"
        BY <1>0, <2>2, <2>6 DEF TurnedAway, Away
      <3>2. InService' = InService
        BY <2>4, <2>5, <3>1 DEF InService
      <3>3. \A h \in InService : visit'[h] = visit[h]
        BY <2>4, <2>5 DEF InService
      <3> QED
        BY <1>6, <2>6, <3>2, <3>3 DEF Track, TurnedAway, OwnListed, NoneEscapes, Running
    <2>7. CASE Tracked(l)
      <3>1. visit'[g].at = "served" /\ visit'[g].of = s /\ visit'[g].cut = FALSE
        BY <1>0, <2>2, <2>3, <2>7 DEF Tracked
      <3>2. InService' = InService \cup {g}
        BY <2>2, <2>4, <3>1 DEF InService
      <3>3. \A h \in InService : visit'[h] = visit[h]
        BY <2>4, <2>5 DEF InService
      <3>4. svc'[s].conns = svc[s].conns \cup {g} /\ svc'[s].ln = svc[s].ln
        BY <1>0, <2>2, <2>7 DEF Tracked
      <3>5. \A t \in Service \ {s} : svc'[t] = svc[t]
        BY <1>0, <2>7 DEF Tracked
      <3>6. \A h \in InService : visit[h].of \in Service
        BY Served DEF InService, Away, Visits
      <3>7. phase # "stopping" /\ UNCHANGED phase /\ tracked' = tracked \cup {g}
            /\ slipped' = IF svc[s].ln = NoOne THEN slipped \cup {g} ELSE slipped
        BY <1>6, <2>7 DEF Track, Tracked, MayTrack
      <3>8. OwnListed'
        BY <2>2, <3>1, <3>2, <3>3, <3>4, <3>5 DEF OwnListed
      <3>9. ASSUME NEW h \in InService', ~visit'[h].cut
            PROVE  h \in slipped' \/ (svc'[visit'[h].of].ln # NoOne /\ h \in svc'[visit'[h].of].conns)
        <4>1. CASE h = g
          BY <3>1, <3>4, <3>7, <4>1
        <4>2. CASE h \in InService
          <5>1. h \in slipped \/ (svc[visit[h].of].ln # NoOne /\ h \in svc[visit[h].of].conns)
            BY <3>3, <3>9, <4>2 DEF NoneEscapes, Running
          <5>2. visit'[h].of = visit[h].of /\ visit[h].of \in Service
            BY <3>3, <3>6, <4>2
          <5> QED
            BY <3>4, <3>5, <3>7, <5>1, <5>2
        <4> QED
          BY <3>2, <4>1, <4>2
      <3> QED
        BY <3>2, <3>7, <3>8, <3>9 DEF NoneEscapes, Running
    <2> QED
      BY <1>6, <2>6, <2>7 DEF Track
  <1>7. ASSUME NEW g \in Guests, Leave(g) PROVE OwnListed' /\ NoneEscapes'
    <2> DEFINE s == visit[g].of
    <2>1. visit'[g].at = "leaving" /\ \A h \in Guests \ {g} : visit'[h] = visit[h]
      BY <1>0, <1>7 DEF Leave
    <2>2. InService' = InService \ {g}
      BY <2>1 DEF InService
    <2>3. visit[g] \in Visits
      BY <1>7, Served DEF Leave, Away
    <2>4. s \in Service
      BY <2>3 DEF Visits
    <2>5. svc'[s].conns = svc[s].conns \ {g} /\ svc'[s].ln = svc[s].ln
      BY <1>0, <1>7, <2>4 DEF Leave
    <2>6. \A t \in Service \ {s} : svc'[t] = svc[t]
      BY <1>0, <1>7 DEF Leave
    <2>7. \A h \in InService' : visit'[h] = visit[h] /\ h \in InService /\ h # g /\ visit[h].of \in Service
      BY <2>1, <2>2, Served DEF InService, Away, Visits
    <2>8. OwnListed'
      BY <2>2, <2>5, <2>6, <2>7 DEF OwnListed
    <2>9. tracked' = tracked \ {g} /\ slipped' = slipped \ {g} /\ UNCHANGED phase
      BY <1>7 DEF Leave
    <2>10. NoneEscapes'
      <3>1. tracked' = InService'
        BY <2>2, <2>9 DEF NoneEscapes
      <3>2. ASSUME NEW h \in InService', ~visit'[h].cut
            PROVE  phase # "stopping"
                   /\ (h \in slipped' \/ (svc'[visit'[h].of].ln # NoOne /\ h \in svc'[visit'[h].of].conns))
        <4>1. visit'[h] = visit[h] /\ h \in InService /\ h # g /\ visit[h].of \in Service
          BY <2>7
        <4>2. phase # "stopping" /\ (h \in slipped \/ (svc[visit[h].of].ln # NoOne /\ h \in svc[visit[h].of].conns))
          BY <3>2, <4>1 DEF NoneEscapes, Running
        <4> QED
          BY <2>5, <2>6, <2>9, <4>1, <4>2
      <3> QED
        BY <2>9, <3>1, <3>2 DEF NoneEscapes, Running
    <2> QED
      BY <2>8, <2>10
  <1>8. ASSUME NEW g \in Guests, Release(g) PROVE OwnListed' /\ NoneEscapes'
    <2>1. visit[g].at = "leaving" /\ visit'[g].at = "away" /\ \A h \in Guests \ {g} : visit'[h] = visit[h]
      BY <1>0, <1>8 DEF Release, Away
    <2>2. InService' = InService /\ g \notin InService
      BY <2>1 DEF InService
    <2>3. \A h \in InService : visit'[h] = visit[h]
      BY <2>1, <2>2 DEF InService
    <2> QED
      BY <1>8, <2>2, <2>3 DEF Release, OwnListed, NoneEscapes, Running
  <1>9. ASSUME StopNow PROVE OwnListed' /\ NoneEscapes'
    <2>0. tracked \in SUBSET InService
      BY DEF NoneEscapes
    <2>1. /\ \A g \in Guests : visit'[g].at = visit[g].at /\ visit'[g].of = visit[g].of
          /\ \A g \in Guests : visit'[g].cut <=> visit[g].cut \/ g \in tracked
      BY <1>9, <2>0, CutOnly DEF StopNow
    <2>2. InService' = InService /\ UNCHANGED tracked
      BY <1>9, <2>1 DEF StopNow, InService
    <2>3. \A s \in Service : svc'[s].conns = svc[s].conns
      BY <1>0, <1>9 DEF StopNow, Typed, Runtimes
    <2>4. \A g \in InService : g \in Guests /\ visit'[g].cut
      BY <2>1 DEF InService, NoneEscapes
    <2> QED
      BY <2>1, <2>2, <2>3, <2>4 DEF OwnListed, NoneEscapes, InService
  <1>10. ASSUME Gone PROVE OwnListed' /\ NoneEscapes'
    <2>1. \A s \in Service : svc'[s].conns = {}
      BY <1>10 DEF Gone, Off
    <2>2. InService' = {} /\ tracked' = {}
      BY <1>10 DEF Gone, InService, Away
    <2> QED
      BY <2>1, <2>2 DEF OwnListed, NoneEscapes
  <1>11. ASSUME UNCHANGED <<phase, svc, visit, tracked, slipped>> PROVE OwnListed' /\ NoneEscapes'
    BY <1>11 DEF OwnListed, NoneEscapes, InService, Running
  <1>12. ASSUME NEW s \in Service, StartUnread(s) \/ EditFile(s) \/ PortTaken(PortOf[s]) \/ PortGiven(PortOf[s])
         PROVE  UNCHANGED <<phase, svc, visit, tracked, slipped>>
    BY <1>12 DEF StartUnread, EditFile, PortTaken, PortGiven, Outside, process_vars
  <1>13. ASSUME NEW l \in LoopIds, LoopEnds(l) PROVE UNCHANGED <<phase, svc, visit, tracked, slipped>>
    BY <1>13 DEF LoopEnds
  <1> QED
    BY <1>1, <1>2, <1>3, <1>4, <1>5, <1>6, <1>7, <1>8, <1>9, <1>10, <1>11, <1>12, <1>13
    DEF ServicesNext, Stop, StopAfterFailure, Stopped, Crash
-----------------------------------------------------------------------------
(* Listeners.                                                              *)

LEMMA ListenersNext ==
    ASSUME Typed, ConnRecords, OwnLoops, ServicesNext
    PROVE  OwnLoops'
  <1>0. DOMAIN svc = Service /\ DOMAIN loops = LoopIds /\ \A s \in Service : svc[s] \in Runtimes
    BY DEF Typed
  <1>1. CASE StartUp
    <2>1. \A s \in Service : /\ svc'[s].on = Enabled(s) /\ svc'[s].ln = IF s \in Opened THEN s ELSE NoOne
                             /\ svc'[s].error = (Refuses(s) /\ Tried(s))
      BY <1>1 DEF StartUp
    <2>2. \A s \in Service : s \in LoopIds /\ s # NoOne /\ Enabled(s) \in BOOLEAN
      BY ServiceIsLoop, ServicesAssumption DEF Typed, Enabled, Counts, Overrides
    <2>3. \A s \in Service : svc'[s].ln # NoOne => s \in Opened /\ svc'[s].ln = s
      BY <2>1
    <2>4. \A s \in Opened : s \in Service /\ loops'[s] = [of |-> s, hand |-> NoOne] /\ loops'[s] # NoOne
      <3>1. ASSUME NEW s \in Opened
            PROVE  s \in Service /\ loops'[s] = [of |-> s, hand |-> NoOne]
        BY <1>1, <2>2 DEF StartUp, Opened
      <3>2. \A s \in Service : [of |-> s, hand |-> NoOne] \in Loops
        BY DEF Loops
      <3> QED
        BY <3>1, <3>2, ServicesAssumption
    <2>5. \A s \in Opened : Enabled(s) /\ ~Refuses(s) /\ PortOf[s] \notin others
      BY DEF Opened, Gets, Refuses
    <2>6. ASSUME NEW s \in Opened, NEW t \in Opened, s # t PROVE PortOf[s] # PortOf[t]
      <3>1. s \in Nat /\ t \in Nat /\ s \in Service /\ t \in Service /\ s >= 1 /\ t >= 1
        <4>1. s \in Service /\ t \in Service
          BY <2>4
        <4>2. Service = 1..Len(PortOf) /\ Len(PortOf) \in Nat
          BY ServiceIsLoop, ServicesAssumption
        <4> QED
          BY <4>1, <4>2
      <3>2. CASE s < t
        <4>1. s \in 1..t - 1
          BY <3>1, <3>2
        <4> QED
          BY <2>5, <4>1 DEF Opened, Gets
      <3>3. CASE t < s
        <4>1. t \in 1..s - 1
          BY <3>1, <3>3
        <4> QED
          BY <2>5, <4>1 DEF Opened, Gets
      <3> QED
        BY <2>6, <3>1, <3>2, <3>3
    <2>7. ASSUME phase' = "up", NEW s \in Service, svc'[s].on, svc'[s].ln = NoOne PROVE svc'[s].error
      <3>1. Fatal = {}
        BY <1>1, <2>7 DEF StartUp
      <3>2. Tried(s)
        BY <3>1 DEF Tried
      <3>3. s \notin Opened
        BY <2>1, <2>2, <2>7
      <3> QED
        BY <2>1, <2>7, <3>2, <3>3 DEF Opened, Refuses
    <2>8. phase' # "stopping" /\ UNCHANGED others
      BY <1>1 DEF StartUp
    <2>9. \A s \in Opened : svc'[s].on /\ ~svc'[s].error
      BY <2>1, <2>4, <2>5
    <2>10. ASSUME NEW s \in Service, svc'[s].ln # NoOne
           PROVE  /\ loops'[svc'[s].ln] # NoOne /\ loops'[svc'[s].ln].of = s
                  /\ svc'[s].on /\ ~svc'[s].error /\ PortOf[s] \notin others'
      <3>1. s \in Opened /\ svc'[s].ln = s
        BY <2>3, <2>10
      <3>2. loops'[s] # NoOne /\ loops'[s].of = s
        <4>1. loops'[s] = [of |-> s, hand |-> NoOne] /\ loops'[s] # NoOne
          BY <2>4, <3>1
        <4> QED
          BY <4>1
      <3> QED
        BY <2>5, <2>8, <2>9, <3>1, <3>2
    <2>11. \A s, t \in Service : s # t /\ svc'[s].ln # NoOne /\ svc'[t].ln # NoOne => PortOf[t] # PortOf[s]
      BY <2>3, <2>6
    <2> QED
      BY <2>7, <2>8, <2>10, <2>11 DEF OwnLoops
  <1>2. ASSUME NEW s \in Service, SwitchOn(s) PROVE OwnLoops'
    <2>0. phase = "up" /\ UNCHANGED <<phase, others>> /\ ~PortConflict(s)
      BY <1>2 DEF SwitchOn, Switchable
    <2>1. CASE svc[s].ln # NoOne
      <3>1. svc' = [svc EXCEPT ![s].on = TRUE] /\ UNCHANGED loops
        BY <1>2, <2>1 DEF SwitchOn
      <3>2. svc[s].on
        BY <2>1 DEF OwnLoops
      <3>3. \A t \in Service : svc'[t].ln = svc[t].ln /\ svc'[t].error = svc[t].error /\ (t # s => svc'[t] = svc[t])
        BY <1>0, <3>1 DEF Runtimes
      <3>4. svc'[s].on
        BY <1>0, <3>1 DEF Runtimes
      <3> QED
        BY <2>0, <2>1, <3>1, <3>2, <3>3, <3>4 DEF OwnLoops
    <2>2. CASE svc[s].ln = NoOne
      <3> DEFINE l == CHOOSE l \in Free : TRUE
      <3>1. svc' = [svc EXCEPT ![s].on = TRUE, ![s].ln = l, ![s].error = FALSE, ![s].conns = {}]
            /\ loops' = [loops EXCEPT ![l] = [of |-> s, hand |-> NoOne]]
        BY <1>2, <2>2 DEF SwitchOn
      <3>2. l \in LoopIds /\ loops[l] = NoOne
        BY <1>2, <2>2 DEF SwitchOn, Free
      <3> HIDE DEF l
      <3>3. svc'[s].ln = l /\ svc'[s].on /\ ~svc'[s].error
        BY <1>0, <3>1 DEF Runtimes
      <3>4. \A t \in Service \ {s} : svc'[t] = svc[t]
        BY <1>0, <3>1
      <3>5. loops'[l] = [of |-> s, hand |-> NoOne] /\ loops'[l] \in Loops
            /\ \A k \in LoopIds \ {l} : loops'[k] = loops[k]
        BY <1>0, <3>1, <3>2 DEF Loops
      <3>6. loops'[l] # NoOne /\ loops'[l].of = s
        BY <3>5, ServicesAssumption
      <3>7. \A t \in Service : svc[t].ln # NoOne => svc[t].ln \in LoopIds \ {l} /\ t # s /\ PortOf[t] # PortOf[s]
        BY <1>0, <2>0, <2>2, <3>2 DEF OwnLoops, PortConflict, Runtimes
      <3>8. PortOf[s] \notin others
        BY <1>2, <2>2 DEF SwitchOn
      <3>9. l # NoOne
        BY <3>2, ServicesAssumption
      <3>10. ASSUME NEW t \in Service \ {s}, svc'[t].ln # NoOne
             PROVE  /\ loops'[svc'[t].ln] # NoOne /\ loops'[svc'[t].ln].of = t
                    /\ svc'[t].on /\ ~svc'[t].error /\ PortOf[t] \notin others
                    /\ \A u \in Service \ {t} : svc'[u].ln # NoOne => PortOf[u] # PortOf[t]
        BY <3>4, <3>5, <3>7, <3>10 DEF OwnLoops
      <3> QED
        BY <2>0, <3>3, <3>4, <3>6, <3>7, <3>8, <3>9, <3>10 DEF OwnLoops
    <2> QED
      BY <2>1, <2>2
  <1>3. ASSUME NEW s \in Service, SwitchRefused(s) PROVE OwnLoops'
    <2>1. \A t \in Service : svc'[t].ln = svc[t].ln /\ svc'[t].on = svc[t].on /\ (t # s => svc'[t] = svc[t])
      BY <1>0, <1>3 DEF SwitchRefused, Runtimes
    <2>2. svc[s].ln = NoOne /\ svc'[s].error /\ UNCHANGED <<phase, others, loops>> /\ phase = "up"
      BY <1>0, <1>3 DEF SwitchRefused, Switchable, Runtimes
    <2> QED
      BY <2>1, <2>2 DEF OwnLoops
  <1>4. ASSUME NEW s \in Service, SwitchOff(s) PROVE OwnLoops'
    <2>1. \A t \in Service \ {s} : svc'[t] = svc[t]
      BY <1>0, <1>4 DEF SwitchOff
    <2>2. svc'[s].ln = NoOne /\ ~svc'[s].on /\ UNCHANGED <<phase, others, loops>> /\ phase = "up"
      BY <1>0, <1>4 DEF SwitchOff, Switchable, Runtimes
    <2> QED
      BY <2>1, <2>2 DEF OwnLoops
  <1>5. ASSUME NEW l \in LoopIds, NEW g \in Guests, Accept(l, g) PROVE OwnLoops'
    <2>1. \A k \in LoopIds : loops[k] # NoOne => loops'[k] # NoOne /\ loops'[k].of = loops[k].of
      <3>1. loops[l] \in Loops /\ g # NoOne
        BY <1>5, ServicesAssumption DEF Accept, Listens, Typed
      <3>2. loops'[l] = [of |-> loops[l].of, hand |-> g] /\ loops'[l] \in Loops
        BY <1>0, <1>5, <3>1 DEF Accept, Loops
      <3> QED
        BY <1>0, <1>5, <3>2, ServicesAssumption DEF Accept
    <2>2. UNCHANGED <<svc, phase, others>>
      BY <1>5 DEF Accept
    <2>3. \A s \in Service : svc[s].ln # NoOne => svc[s].ln \in LoopIds
      BY <1>0 DEF Runtimes
    <2> QED
      BY <2>1, <2>2, <2>3 DEF OwnLoops
  <1>6. ASSUME NEW l \in LoopIds, Track(l) PROVE OwnLoops'
    <2>0. loops[l] \in Loops
      BY <1>6 DEF Track, Typed
    <2>1. UNCHANGED <<phase, others>>
      BY <1>6 DEF Track
    <2>2. CASE Tracked(l)
      <3>1. loops'[l] = [of |-> loops[l].of, hand |-> NoOne] /\ loops'[l] \in Loops
        BY <1>0, <2>0, <2>2 DEF Tracked, Loops
      <3>2. \A k \in LoopIds : loops[k] # NoOne => loops'[k] # NoOne /\ loops'[k].of = loops[k].of
        BY <1>0, <2>2, <3>1, ServicesAssumption DEF Tracked
      <3>3. \A s \in Service : svc'[s].ln = svc[s].ln /\ svc'[s].on = svc[s].on /\ svc'[s].error = svc[s].error
        BY <1>0, <2>2 DEF Tracked, Runtimes
      <3>4. \A s \in Service : svc[s].ln # NoOne => svc[s].ln \in LoopIds
        BY <1>0 DEF Runtimes
      <3> QED
        BY <2>1, <3>2, <3>3, <3>4 DEF OwnLoops
    <2>3. CASE TurnedAway(l)
      <3>1. phase = "stopping" /\ UNCHANGED svc
        BY <2>3 DEF TurnedAway, MayTrack
      <3> QED
        BY <2>1, <3>1 DEF OwnLoops
    <2> QED
      BY <1>6, <2>2, <2>3 DEF Track
  <1>7. ASSUME NEW l \in LoopIds, LoopEnds(l) PROVE OwnLoops'
    <2>1. \A k \in LoopIds \ {l} : loops'[k] = loops[k]
      BY <1>0, <1>7 DEF LoopEnds
    <2>2. \A s \in Service : svc[s].ln # NoOne => svc[s].ln \in LoopIds \ {l}
      BY <1>0, <1>7 DEF LoopEnds, Listens, OwnLoops, Runtimes
    <2> QED
      BY <1>7, <2>1, <2>2 DEF LoopEnds, OwnLoops
  <1>8. ASSUME NEW g \in Guests, Leave(g) PROVE OwnLoops'
    <2>1. \A s \in Service : svc'[s].ln = svc[s].ln /\ svc'[s].on = svc[s].on /\ svc'[s].error = svc[s].error
      BY <1>0, <1>8 DEF Leave, Runtimes
    <2> QED
      BY <1>8, <2>1 DEF Leave, OwnLoops
  <1>9. ASSUME StopNow PROVE OwnLoops'
    <2>1. \A s \in Service : svc'[s].ln = NoOne
      BY <1>0, <1>9 DEF StopNow, Runtimes
    <2> QED
      BY <1>9, <2>1 DEF StopNow, OwnLoops
  <1>10. ASSUME Gone PROVE OwnLoops'
    BY <1>10 DEF Gone, OwnLoops, Off
  <1>11. ASSUME UNCHANGED <<phase, svc, loops>>, \A s \in Service : svc[s].ln # NoOne => PortOf[s] \notin others'
         PROVE  OwnLoops'
    BY <1>11 DEF OwnLoops
  <1>12. ASSUME NEW s \in Service, StartUnread(s) \/ EditFile(s) \/ PortTaken(PortOf[s]) \/ PortGiven(PortOf[s])
         PROVE  UNCHANGED <<phase, svc, loops>> /\ \A t \in Service : svc[t].ln # NoOne => PortOf[t] \notin others'
    <2>1. \A t \in Service : svc[t].ln # NoOne => PortOf[t] \notin others
      BY DEF OwnLoops
    <2>2. CASE StartUnread(s) \/ EditFile(s)
      BY <2>1, <2>2 DEF StartUnread, EditFile, Outside, process_vars
    <2>3. CASE PortTaken(PortOf[s])
      BY <2>1, <2>3 DEF PortTaken, Outside, process_vars
    <2>4. CASE PortGiven(PortOf[s])
      BY <2>1, <2>4 DEF PortGiven, Outside, process_vars
    <2> QED
      BY <1>12, <2>2, <2>3, <2>4
  <1>13. ASSUME NEW g \in Guests, Release(g) PROVE OwnLoops'
    BY <1>11, <1>13 DEF Release, OwnLoops
  <1> QED
    BY <1>1, <1>2, <1>3, <1>4, <1>5, <1>6, <1>7, <1>8, <1>9, <1>10, <1>11, <1>12, <1>13
    DEF ServicesNext, Stop, StopAfterFailure, Stopped, Crash
-----------------------------------------------------------------------------
(* Choices.                                                                *)

LEMMA ChoicesNext ==
    ASSUME Typed, ChoiceKept, ServicesNext
    PROVE  ChoiceKept'
  <1>0. DOMAIN svc = Service /\ DOMAIN override = Service /\ DOMAIN choice = Service
        /\ \A s \in Service : svc[s] \in Runtimes
    BY DEF Typed
  <1>a. \A s \in Service : override[s] # Unset => override[s] \in Overrides /\ override[s].on \in BOOLEAN
    BY DEF Typed, Overrides
  <1>1. ASSUME NEW read \in SUBSET Service, SeenBy(read)
        PROVE  /\ \A s \in Service : choice'[s] = IF override'[s] = Unset THEN Unset ELSE override'[s].on
               /\ \A s \in Service : override'[s] # Unset => override'[s].cfg = asRead'[s]
    <2>1. ASSUME NEW s \in Service
          PROVE  /\ choice'[s] = IF override'[s] = Unset THEN Unset ELSE override'[s].on
                 /\ override'[s] # Unset => override'[s].cfg = asRead'[s]
      <3>1. /\ override'[s] = IF s \in read THEN Kept(s) ELSE override[s]
            /\ choice'[s] = IF s \in read /\ file[s] # asRead[s] THEN Unset ELSE choice[s]
            /\ asRead'[s] = IF s \in read THEN file[s] ELSE asRead[s]
        BY <1>1 DEF SeenBy
      <3>2. /\ choice[s] = IF override[s] = Unset THEN Unset ELSE override[s].on
            /\ override[s] # Unset => override[s].cfg = asRead[s]
        BY DEF ChoiceKept
      <3> QED
        BY <3>1, <3>2 DEF Kept, Counts
    <2> QED
      BY <2>1
  <1>2. CASE StartUp
    <2>1. SeenBy(Service) /\ \A s \in Service : svc'[s].cfg = file[s] /\ svc'[s].on = Enabled(s)
      BY <1>2 DEF StartUp
    <2>2. \A s \in Service : asRead'[s] = file[s] /\ override'[s] = Kept(s)
      BY <2>1 DEF SeenBy
    <2>3. ASSUME NEW s \in Service
          PROVE  svc'[s].on = IF choice'[s] = Unset THEN svc'[s].cfg ELSE choice'[s]
      <3>1. choice'[s] = IF override'[s] = Unset THEN Unset ELSE override'[s].on
        BY <1>1, <2>1
      <3>2. CASE Counts(s)
        <4>1. choice'[s] = override[s].on /\ svc'[s].on = override[s].on
          BY <2>1, <2>2, <3>1, <3>2 DEF Kept, Enabled, Counts
        <4>2. override[s].on # Unset
          BY <1>a, <3>2, ServicesAssumption DEF Counts
        <4> QED
          BY <4>1, <4>2
      <3>3. CASE ~Counts(s)
        BY <2>1, <2>2, <3>1, <3>3 DEF Kept, Enabled
      <3> QED
        BY <3>2, <3>3
    <2> QED
      BY <1>1, <2>1, <2>2, <2>3 DEF ChoiceKept, ChoiceSurvives
  <1>3. ASSUME NEW s \in Service, StartUnread(s) PROVE ChoiceKept'
    <2>1. phase' = "down" /\ SeenBy({t \in Service : t < s})
      BY <1>3 DEF StartUnread, process_vars
    <2> QED
      BY <1>1, <2>1 DEF ChoiceKept, ChoiceSurvives
  <1>4. ASSUME NEW s \in Service, NEW on \in BOOLEAN, phase = "up", UNCHANGED phase, Save(s, on),
               svc'[s].on = on,
               \A t \in Service : svc'[t].cfg = svc[t].cfg /\ (t # s => svc'[t].on = svc[t].on)
        PROVE  ChoiceKept'
    <2>1. CASE UNCHANGED <<override, choice, asRead>> /\ unkept' = unkept \cup {s}
      BY <1>4, <2>1 DEF ChoiceKept, ChoiceSurvives
    <2>2. CASE /\ override' = [override EXCEPT ![s] = [on |-> on, cfg |-> svc[s].cfg]]
               /\ choice' = [choice EXCEPT ![s] = on]
               /\ unkept' = unkept \ {s} /\ UNCHANGED asRead
      <3>1. \A t \in Service \ {s} : override'[t] = override[t] /\ choice'[t] = choice[t]
        BY <1>0, <2>2
      <3>2. override'[s] = [on |-> on, cfg |-> svc[s].cfg] /\ choice'[s] = on
        BY <1>0, <2>2
      <3>3. override'[s] \in Overrides
        BY <1>0, <3>2 DEF Overrides, Runtimes
      <3>4. override'[s] # Unset /\ on # Unset
        BY <3>3, ServicesAssumption
      <3>5. svc[s].cfg = asRead[s]
        BY <1>4 DEF ChoiceKept
      <3> QED
        BY <1>4, <2>2, <3>1, <3>2, <3>4, <3>5 DEF ChoiceKept, ChoiceSurvives
    <2> QED
      BY <1>4, <2>1, <2>2 DEF Save
  <1>5. ASSUME NEW s \in Service, SwitchOn(s) PROVE ChoiceKept'
    <2>1. phase = "up" /\ UNCHANGED phase /\ Save(s, TRUE)
      BY <1>5 DEF SwitchOn, Switchable
    <2>2. svc'[s].on = TRUE /\ \A t \in Service : svc'[t].cfg = svc[t].cfg /\ (t # s => svc'[t] = svc[t])
      <3>1. CASE svc[s].ln # NoOne
        <4>1. svc' = [svc EXCEPT ![s].on = TRUE]
          BY <1>5, <3>1 DEF SwitchOn
        <4> QED
          BY <1>0, <4>1 DEF Runtimes
      <3>2. CASE svc[s].ln = NoOne
        <4> DEFINE l == CHOOSE l \in Free : TRUE
        <4>1. svc' = [svc EXCEPT ![s].on = TRUE, ![s].ln = l, ![s].error = FALSE, ![s].conns = {}]
          BY <1>5, <3>2 DEF SwitchOn
        <4> HIDE DEF l
        <4> QED
          BY <1>0, <4>1 DEF Runtimes
      <3> QED
        BY <3>1, <3>2
    <2> QED
      BY <1>4, <2>1, <2>2
  <1>6. ASSUME NEW s \in Service, SwitchOff(s) PROVE ChoiceKept'
    <2>1. phase = "up" /\ UNCHANGED phase /\ Save(s, FALSE)
      BY <1>6 DEF SwitchOff, Switchable
    <2>2. svc'[s].on = FALSE /\ \A t \in Service : svc'[t].cfg = svc[t].cfg /\ (t # s => svc'[t] = svc[t])
      BY <1>0, <1>6 DEF SwitchOff, Runtimes
    <2> QED
      BY <1>4, <2>1, <2>2
  <1>7. ASSUME UNCHANGED stored_vars,
               phase' = "up" => phase = "up" /\ \A s \in Service : svc'[s].cfg = svc[s].cfg /\ svc'[s].on = svc[s].on
        PROVE  ChoiceKept'
    BY <1>7 DEF stored_vars, ChoiceKept, ChoiceSurvives
  <1>8. ASSUME NEW s \in Service, SwitchRefused(s) PROVE ChoiceKept'
    <2>1. \A t \in Service : svc'[t].cfg = svc[t].cfg /\ svc'[t].on = svc[t].on
      BY <1>0, <1>8 DEF SwitchRefused, Runtimes
    <2> QED
      BY <1>7, <1>8, <2>1 DEF SwitchRefused
  <1>9. ASSUME NEW l \in LoopIds, Track(l) PROVE ChoiceKept'
    <2>1. \A t \in Service : svc'[t].cfg = svc[t].cfg /\ svc'[t].on = svc[t].on
      BY <1>0, <1>9 DEF Track, Tracked, TurnedAway, Runtimes
    <2> QED
      BY <1>7, <1>9, <2>1 DEF Track
  <1>10. ASSUME NEW g \in Guests, Leave(g) PROVE ChoiceKept'
    <2>1. \A t \in Service : svc'[t].cfg = svc[t].cfg /\ svc'[t].on = svc[t].on
      BY <1>0, <1>10 DEF Leave, Runtimes
    <2> QED
      BY <1>7, <1>10, <2>1 DEF Leave
  <1>11. ASSUME UNCHANGED stored_vars, phase' # "up" PROVE ChoiceKept'
    BY <1>7, <1>11
  <1>12. ASSUME UNCHANGED <<stored_vars, phase, svc>> PROVE ChoiceKept'
    BY <1>7, <1>12
  <1>13. ASSUME NEW s \in Service, EditFile(s) \/ PortTaken(PortOf[s]) \/ PortGiven(PortOf[s])
         PROVE  UNCHANGED <<stored_vars, phase, svc>>
    BY <1>13 DEF EditFile, PortTaken, PortGiven, Outside, process_vars
  <1>14. ASSUME \E l \in LoopIds : (\E g \in Guests : Accept(l, g)) \/ LoopEnds(l)
         PROVE  UNCHANGED <<stored_vars, phase, svc>>
    BY <1>14 DEF Accept, LoopEnds
  <1>15. ASSUME \E g \in Guests : Release(g) PROVE UNCHANGED <<stored_vars, phase, svc>>
    BY <1>15 DEF Release
  <1>16. ASSUME StopNow \/ (Gone /\ UNCHANGED stored_vars) PROVE UNCHANGED stored_vars /\ phase' # "up"
    BY <1>16 DEF StopNow, Gone
  <1> QED
    BY <1>2, <1>3, <1>5, <1>6, <1>8, <1>9, <1>10, <1>11, <1>12, <1>13, <1>14, <1>15, <1>16
    DEF ServicesNext, Stop, StopAfterFailure, Stopped, Crash

-----------------------------------------------------------------------------
(* The theorem.                                                            *)

LEMMA InvInit == ServicesInit => Inv
  <1> SUFFICES ASSUME ServicesInit PROVE Inv
    OBVIOUS
  <1>1. file \in [Service -> BOOLEAN]
    BY ServicesAssumption DEF ServicesInit
  <1>2. \A s \in Service : svc[s] = Off(FALSE) /\ Off(FALSE) \in Runtimes
    BY DEF ServicesInit, Off, Runtimes
  <1>3. ServicesTypeOK
    <2>1. svc \in [Service -> Runtimes]
      BY <1>2 DEF ServicesInit
    <2>2. slots \in 0..MaxConns
      BY ServicesAssumption DEF ServicesInit
    <2>3. choice \in [Service -> BOOLEAN \cup {Unset}] /\ override \in [Service -> Overrides \cup {Unset}]
      BY DEF ServicesInit
    <2> QED
      BY <1>1, <2>1, <2>2, <2>3 DEF ServicesInit, ServicesTypeOK
  <1>4. SlotsMatch
    <2>1. {g \in Guests : visit[g] # Away} = {}
      BY DEF ServicesInit
    <2>2. Cardinality({g \in Guests : visit[g] # Away}) = 0
      BY <2>1, FS_EmptySet
    <2> QED
      BY <2>2 DEF ServicesInit, SlotsMatch
  <1>5. ConnRecords
    <2>1. InService = {}
      BY DEF ServicesInit, InService, Away
    <2> QED
      BY <2>1 DEF ServicesInit, ConnRecords, Hands, NoneLeft, OwnListed, NoneEscapes, Off
  <1>6. OwnLoops
    BY <1>2 DEF ServicesInit, OwnLoops, Off
  <1>7. ChoiceKept
    BY DEF ServicesInit, ChoiceKept, ChoiceSurvives
  <1> QED
    BY <1>3, <1>4, <1>5, <1>6, <1>7 DEF Inv

LEMMA InvNext == Inv /\ [ServicesNext]_services_vars => Inv'
  <1> SUFFICES ASSUME Inv, [ServicesNext]_services_vars PROVE Inv'
    OBVIOUS
  <1>1. CASE ServicesNext
    <2>1. Typed /\ SlotsCounted /\ ConnRecords /\ OwnLoops /\ ChoiceKept
      BY DEF Inv, ServicesTypeOK, Typed, SlotsCounted
    <2>2. Typed' /\ SlotsCounted'
      BY <1>1, <2>1, TypedNext, SlotsNext
    <2>3. ConnRecords'
      BY <1>1, <2>1, HandsNext, EmptyNext, EscapesNext DEF ConnRecords
    <2>4. OwnLoops' /\ ChoiceKept'
      BY <1>1, <2>1, ListenersNext, ChoicesNext
    <2> QED
      BY <2>2, <2>3, <2>4 DEF Inv, ServicesTypeOK, Typed, SlotsCounted
  <1>2. CASE UNCHANGED services_vars
    BY <1>2 DEF services_vars, stored_vars, process_vars, limit_vars, Inv, ServicesTypeOK, SlotsMatch, ConnRecords,
                Hands, NoneLeft, OwnListed, NoneEscapes, InService, Running, OwnLoops, ChoiceKept, ChoiceSurvives
  <1> QED
    BY <1>1, <1>2

LEMMA InvTrue == Inv => ServicesTrue
  <1> SUFFICES ASSUME Inv PROVE ServicesTrue
    OBVIOUS
  <1>1. StatusTrue
    <2>1. SUFFICES ASSUME phase = "up", NEW s \in Service
                   PROVE  /\ StatusOf(s) = "Listening" <=> \E l \in LoopIds : Listens(l) /\ loops[l].of = s
                          /\ StatusOf(s) = "Listening" =>
                                 /\ svc[s].on /\ PortOf[s] \notin others
                                 /\ \A t \in Service \ {s} : Running(t) => PortOf[t] # PortOf[s]
                          /\ StatusOf(s) = "Off" => ~svc[s].on
      BY DEF StatusTrue
    <2>2. svc[s].ln \in LoopIds \cup {NoOne} /\ NoOne \notin LoopIds
      BY ServicesAssumption DEF Inv, ServicesTypeOK, Runtimes
    <2>3. StatusOf(s) = "Listening" <=> svc[s].ln # NoOne
      BY DEF StatusOf, Running, Inv, OwnLoops
    <2>4. svc[s].ln # NoOne <=> \E l \in LoopIds : Listens(l) /\ loops[l].of = s
      BY <2>2 DEF Listens, Inv, OwnLoops
    <2>5. StatusOf(s) = "Off" => ~svc[s].on
      BY <2>1, <2>3 DEF StatusOf, Running, Inv, OwnLoops
    <2> QED
      BY <2>3, <2>4, <2>5 DEF Running, Inv, OwnLoops
  <1> QED
    BY <1>1 DEF Inv, ConnRecords, ChoiceKept, ServicesTrue

\* The services are what the Honeypots screen says of them, and whatever is
\* switched, accepted, stopped, refused or restarted in between no slot is lost,
\* no connection escapes Stop and no saved choice is forgotten.
THEOREM ServicesHold == ServicesSpec => []ServicesTrue
  BY InvInit, InvNext, InvTrue, PTL DEF ServicesSpec
===============================================================================
