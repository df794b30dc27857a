---------------------------- MODULE Console_proofs ----------------------------
(***************************************************************************)
(* What is proved of the screens and the settings of Console for any       *)
(* hashes, filters, engines and pages, and any number of loads, clicks,    *)
(* presses, polls and lost requests.                                       *)
(***************************************************************************)
EXTENDS Console, FiniteSetTheorems, TLAPS

\* What applyParams reads is in the form writeHash writes.
ChoicesOK == range \in Ranges /\ metric \in Metrics /\ view \in {"map", "table"}
ViewInv == ChoicesOK /\ HashIsView

\* The hash written from the state reads back as that state.
LEMMA WrittenIsRead ==
    ASSUME ChoicesOK', hash' = WriteHash(current', range', metric', filter', engine', view')
    PROVE  HashIsView'
  BY DEF WriteHash, Hash, HashIsView, RangeAfter, MetricAfter, FilterAfter, ViewAfter, ChoicesOK,
     Ranges, Metrics, Absent

\* The engine, the offset and what is not the view are not read back.
LEMMA ViewKept ==
    ASSUME ViewInv, UNCHANGED <<current, range, metric, filter, view, hash>>
    PROVE  ViewInv'
  BY DEF ViewInv, ChoicesOK, HashIsView, RangeAfter, MetricAfter, FilterAfter, ViewAfter

LEMMA ShowView ==
    ASSUME ViewInv, NEW h, Show(h)
    PROVE  ViewInv'
  <1>1. ChoicesOK'
    BY DEF Show, ViewInv, ChoicesOK, RangeAfter, MetricAfter, ViewAfter, Ranges, Metrics
  <1>2. hash' = WriteHash(current', range', metric', filter', engine', view')
    BY DEF Show, WriteHash
  <1> QED
    BY <1>1, <1>2, WrittenIsRead DEF ViewInv

LEMMA ViewStep ==
    ASSUME ViewInv, [Next]_console_vars
    PROVE  ViewInv'
  <1>1. ASSUME NEW h, Navigate(h)
        PROVE  ViewInv'
    BY <1>1, ShowView DEF Navigate
  <1>2. ASSUME ChoicesOK', hash' = WriteHash(current', range', metric', filter', engine', view')
        PROVE  ViewInv'
    BY <1>2, WrittenIsRead DEF ViewInv
  <1>3. ASSUME NEW r \in Ranges, PickRange(r)
        PROVE  ViewInv'
    BY <1>2, <1>3 DEF PickRange, ViewInv, ChoicesOK
  <1>4. ASSUME NEW m \in Metrics, PickMetric(m)
        PROVE  ViewInv'
    BY <1>2, <1>4 DEF PickMetric, ViewInv, ChoicesOK
  <1>5. ASSUME NEW f, PickFilter(f)
        PROVE  ViewInv'
    BY <1>2, <1>5 DEF PickFilter, ViewInv, ChoicesOK
  <1>6. ASSUME NEW e, PickEngine(e)
        PROVE  ViewInv'
    BY <1>2, <1>6 DEF PickEngine, ViewInv, ChoicesOK
  <1>7. ASSUME NEW v \in {"map", "table"}, PickView(v)
        PROVE  ViewInv'
    BY <1>2, <1>7 DEF PickView, ViewInv, ChoicesOK
  <1>8. CASE (\E to \in 0..LastPage + MaxClicks : Page(to)) \/ PressRefresh \/ StartScan
             \/ OpenDialog \/ CloseDialog \/ TurnAway \/ Resize \/ Lift \/ (\E what \in Cables : LetGo(what))
    BY <1>8, ViewKept DEF Page, PressRefresh, StartScan, OpenDialog, CloseDialog, TurnAway, Resize, Lift, LetGo,
       view_vars
  <1>9. CASE Operator
    BY <1>1, <1>3, <1>4, <1>5, <1>6, <1>7, <1>8, <1>9 DEF Operator
  <1>10. CASE Tick \/ Poll \/ WorldChanges \/ ScanEnds \/ \E s \in Slots : AnswerSome(s) \/ Settle(s)
    BY <1>10, ViewKept DEF Tick, Poll, WorldChanges, ScanEnds, AnswerSome, Answer, Settle, view_vars
  <1>11. CASE UNCHANGED screens_vars
    BY <1>11, ViewKept DEF screens_vars, view_vars
  <1> QED
    BY <1>9, <1>10, <1>11 DEF Next, InScreens, InSettings, ScreensNext, console_vars

LEMMA ViewInit == Init => ViewInv
  <1> SUFFICES ASSUME Init PROVE ViewInv
    OBVIOUS
  <1>1. ChoicesOK
    BY DEF Init, ScreensInit, ChoicesOK, Ranges, Metrics
  <1>2. hash = WriteHash(current, range, metric, filter, engine, view)
    BY DEF Init, ScreensInit
  <1> QED
    BY <1>1, <1>2 DEF ViewInv, WriteHash, Hash, HashIsView, RangeAfter, MetricAfter, FilterAfter,
       ViewAfter, ChoicesOK, Ranges, Metrics, Absent

\* Reopening the hash of the address bar, a bookmark of it or the back button
\* bring back the screen, the range, the metric, the filters and the view the
\* operator chose.
THEOREM BookmarkIsView == Spec => []HashIsView
  <1>1. ViewInv /\ [Next]_console_vars => ViewInv'
    BY ViewStep
  <1>2. ViewInv => HashIsView
    BY DEF ViewInv
  <1> QED
    BY ViewInit, <1>1, <1>2, PTL DEF Spec

-----------------------------------------------------------------------------
(* The pills.                                                              *)

PillsInv == shown = [p \in AllParts |-> shown[p]] /\ PillsMatchBans

LEMMA AttackersParts ==
    /\ {"scores", "bans", "targets"} \subseteq AllParts
    /\ \A s \in ScreenNames : s # "attackers" => "scores" \notin Parts[s] /\ "bans" \notin Parts[s]
    /\ {"scores", "bans"} \subseteq Parts["attackers"]
  BY DEF AllParts, ScreenNames, Parts

\* Loads are of screens there are.
IsLoad(l) == /\ l = [screen |-> l.screen, chain |-> l.chain, asked |-> l.asked, got |-> l.got]
             /\ l.screen \in ScreenNames
LoadInv == current \in ScreenNames /\ \A s \in Slots : load[s] = NoLoad \/ IsLoad(load[s])
LoadFun == load = [s \in Slots |-> load[s]]

LEMMA PillsKept ==
    ASSUME PillsInv, UNCHANGED shown
    PROVE  PillsInv'
  BY DEF PillsInv, PillsMatchBans

LEMMA SettlePills ==
    ASSUME PillsInv, NEW s \in Slots, Settle(s), load[s].screen \in ScreenNames
    PROVE  PillsInv'
  <1> DEFINE l == load[s]
  <1>1. shown' = Rendered(l)
    BY DEF Settle
  <1>2. CASE l.screen = "attackers"
    <2>1. /\ shown'["scores"] = RenderScores(l.got, l.asked["scores"])
          /\ shown'["bans"] = RenderPart(l.got["bans"], l.asked["bans"])
      BY <1>1, <1>2, AttackersParts DEF Rendered
    <2>2. PillsMatchBans'
      BY <2>1 DEF RenderScores, RenderPart, BannedAfter, PillsMatchBans, IsData, Broken
    <2> QED
      BY <1>1, <2>2 DEF PillsInv, Rendered
  <1>3. CASE l.screen # "attackers"
    <2>1. shown'["scores"] = shown["scores"] /\ shown'["bans"] = shown["bans"]
      BY <1>1, <1>3, AttackersParts DEF Rendered
    <2> QED
      BY <1>1, <2>1 DEF PillsInv, PillsMatchBans, Rendered
  <1> QED
    BY <1>2, <1>3

LEMMA NewIsLoad ==
    ASSUME NEW s \in ScreenNames, NEW chain, NEW ask
    PROVE  IsLoad(NewLoad(s, chain, ask))
  BY DEF IsLoad, NewLoad

LEMMA LoadsKept ==
    ASSUME LoadInv, LoadFun, UNCHANGED load, current' \in ScreenNames
    PROVE  LoadInv' /\ LoadFun'
  BY DEF LoadInv, LoadFun

LEMMA LoadAdded ==
    ASSUME LoadInv, LoadFun, current' \in ScreenNames, NEW s \in ScreenNames, NEW ask,
           LoadDirectly(s, ask) \/ Refresh(s, ask)
    PROVE  LoadInv' /\ LoadFun'
  <1>1. CASE UNCHANGED load
    BY <1>1, LoadsKept
  <1>2. ASSUME NEW k, NEW chain, load' = [load EXCEPT ![k] = NewLoad(s, chain, ask)]
        PROVE  LoadInv' /\ LoadFun'
    <2>1. load' = [t \in Slots |-> load'[t]]
      BY <1>2 DEF LoadFun
    <2>2. \A t \in Slots : load'[t] \in {load[t], NewLoad(s, chain, ask)}
      BY <1>2 DEF LoadFun
    <2> QED
      BY <2>1, <2>2, NewIsLoad DEF LoadInv, LoadFun
  <1> QED
    BY <1>1, <1>2 DEF LoadDirectly, Refresh

LEMMA LoadStep ==
    ASSUME LoadInv, LoadFun, [Next]_console_vars
    PROVE  LoadInv' /\ LoadFun'
  <1>1. ASSUME NEW h \in Hashes, Navigate(h)
        PROVE  LoadInv' /\ LoadFun'
    <2>1. current' = h.screen /\ h.screen \in ScreenNames
      BY <1>1, HashesAssumption DEF Navigate, Show
    <2>2. \E ask : Refresh(h.screen, ask)
      BY <1>1 DEF Navigate, Show
    <2> QED
      BY <2>1, <2>2, LoadAdded
  <1>2. ASSUME NEW s \in ScreenNames, \E ask : LoadDirectly(s, ask) \/ Refresh(s, ask), UNCHANGED current
        PROVE  LoadInv' /\ LoadFun'
    BY <1>2, LoadAdded DEF LoadInv
  <1>3. current \in ScreenNames /\ "software" \in ScreenNames
    BY DEF LoadInv, ScreenNames, Parts
  <1>4. CASE (\E r \in Ranges : PickRange(r)) \/ PressRefresh \/ Tick
    BY <1>2, <1>3, <1>4 DEF PickRange, PressRefresh, Tick, view_vars
  <1>5. CASE (\E f \in Filters : PickFilter(f)) \/ (\E to \in 0..LastPage + MaxClicks : Page(to))
             \/ (\E e \in EnginesOn : PickEngine(e)) \/ StartScan \/ Resize \/ Poll
    BY <1>2, <1>3, <1>5 DEF PickFilter, Page, PickEngine, StartScan, Resize, Poll, view_vars
  <1>6. CASE (\E m \in Metrics : PickMetric(m)) \/ (\E v \in {"map", "table"} : PickView(v))
             \/ OpenDialog \/ CloseDialog \/ TurnAway \/ WorldChanges \/ ScanEnds
             \/ Lift \/ (\E what \in Cables : LetGo(what))
    BY <1>3, <1>6, LoadsKept DEF PickMetric, PickView, OpenDialog, CloseDialog, TurnAway, Lift, LetGo, WorldChanges,
       ScanEnds, view_vars
  <1>7. ASSUME NEW s \in Slots, AnswerSome(s)
        PROVE  LoadInv' /\ LoadFun'
    <2>0. PICK p \in AllParts : \E a : load' = [load EXCEPT ![s].got[p] = a]
      BY <1>7 DEF AnswerSome, Answer
    <2>1. PICK a : load' = [load EXCEPT ![s].got[p] = a]
      BY <2>0
    <2>2. UNCHANGED current /\ IsLoad(load[s])
      BY <1>7 DEF AnswerSome, Answer, view_vars, LoadInv
    <2>3. load'[s] = [load[s] EXCEPT !.got[p] = a]
      BY <2>1 DEF LoadFun
    <2>4. IsLoad(load'[s])
      BY <2>2, <2>3 DEF IsLoad
    <2>5. load' = [t \in Slots |-> load'[t]] /\ \A t \in Slots \ {s} : load'[t] = load[t]
      BY <2>1 DEF LoadFun
    <2> QED
      BY <2>2, <2>4, <2>5 DEF LoadInv, LoadFun
  <1>8. ASSUME NEW s \in Slots, Settle(s)
        PROVE  LoadInv' /\ LoadFun'
    <2>1. load' = [load EXCEPT ![s] = NoLoad] /\ UNCHANGED current
      BY <1>8 DEF Settle
    <2> QED
      BY <2>1 DEF LoadInv, LoadFun
  <1>9. CASE UNCHANGED screens_vars
    BY <1>3, <1>9, LoadsKept DEF screens_vars, view_vars
  <1> QED
    BY <1>1, <1>4, <1>5, <1>6, <1>7, <1>8, <1>9 DEF Next, InScreens, InSettings, ScreensNext, Operator,
       console_vars

LEMMA PillsStep ==
    ASSUME LoadInv, PillsInv, [Next]_console_vars
    PROVE  PillsInv'
  <1>1. CASE StartScan
    <2>1. shown' = [shown EXCEPT !["targets"].age = world, !["targets"].busy = TRUE]
      BY <1>1 DEF StartScan
    <2>2. /\ shown' = [p \in AllParts |-> shown'[p]]
          /\ shown'["scores"] = shown["scores"] /\ shown'["bans"] = shown["bans"]
      BY <2>1, AttackersParts DEF PillsInv
    <2> QED
      BY <2>2 DEF PillsInv, PillsMatchBans
  <1>2. ASSUME NEW s \in Slots, Settle(s)
        PROVE  PillsInv'
    BY <1>2, SettlePills DEF Settle, LoadInv, IsLoad
  <1>3. CASE Operator
    <2>1. StartScan \/ UNCHANGED shown
      BY <1>3 DEF Operator, Navigate, PickRange, PickMetric, PickFilter, Page, PickEngine, PickView,
         PressRefresh, OpenDialog, CloseDialog, TurnAway, Resize, Lift, LetGo, Untouched
    <2> QED
      BY <1>1, <2>1, PillsKept
  <1>4. CASE Tick \/ Poll \/ WorldChanges \/ ScanEnds \/ \E s \in Slots : AnswerSome(s)
    BY <1>4, PillsKept DEF Tick, Untouched, Poll, WorldChanges, ScanEnds, AnswerSome, Answer
  <1>5. CASE UNCHANGED screens_vars
    BY <1>5, PillsKept DEF screens_vars
  <1> QED
    BY <1>2, <1>3, <1>4, <1>5 DEF Next, InScreens, InSettings, ScreensNext, console_vars

LEMMA LoadInit == Init => LoadInv /\ LoadFun
  <1> SUFFICES ASSUME Init PROVE LoadInv /\ LoadFun
    OBVIOUS
  <1>1. current \in ScreenNames
    BY ScreensAssumption, HashesAssumption DEF Init, ScreensInit
  <1>2. load = [s \in Slots |-> IF s = 1 THEN NewLoad(current, TRUE, AskedNow) ELSE NoLoad]
    BY DEF Init, ScreensInit
  <1> QED
    BY <1>1, <1>2, NewIsLoad DEF LoadInv, LoadFun

\* The pills beside the scores say what the ban list below them says, whichever
\* loads overlap and whichever of their requests fail.
THEOREM PillsAgree == Spec => []PillsMatchBans
  <1>1. Init => PillsInv
    BY AttackersParts DEF Init, ScreensInit, PillsInv, PillsMatchBans, IsData, Nothing
  <1>2. LoadInv /\ LoadFun /\ PillsInv /\ [Next]_console_vars => (LoadInv /\ LoadFun /\ PillsInv)'
    BY LoadStep, PillsStep
  <1>3. PillsInv => PillsMatchBans
    BY DEF PillsInv
  <1> QED
    BY LoadInit, <1>1, <1>2, <1>3, PTL DEF Spec

-----------------------------------------------------------------------------
(* The loads, the flag of refresh() and the types of the screens.          *)

LEMMA SlotsFinite == IsFiniteSet(Slots) /\ Slots \subseteq Nat
  <1>1. MaxLoads \in Int /\ 1 \in Int
    BY ScreensAssumption
  <1>2. IsFiniteSet(1..MaxLoads)
    BY <1>1, FS_Interval, Zenon
  <1> QED
    BY <1>2, ScreensAssumption DEF Slots

\* Among any slots there is a smallest: the one with the least set below it.
LEMMA SmallestSlot ==
    ASSUME NEW T \in SUBSET Slots, T # {}
    PROVE  \E x \in T : \A y \in T : x <= y
  <1> DEFINE below(x) == {y \in T : y < x}
             F == {below(x) : x \in T}
  <1>1. IsFiniteSet(T) /\ T \subseteq Nat
    BY SlotsFinite, FS_Subset
  <1>2. F \subseteq FiniteSubsetsOf(T) /\ F # {}
    <2>1. ASSUME NEW x \in T PROVE below(x) \in FiniteSubsetsOf(T)
      <3>1. below(x) \in SUBSET T
        OBVIOUS
      <3> HIDE DEF below
      <3> QED
        BY <1>1, <3>1, FS_Subset DEF FiniteSubsetsOf
    <2> HIDE DEF below
    <2> QED
      BY <2>1
  <1>3. \E m \in F : \A n \in F : <<n, m>> \notin StrictSubsetOrdering(T)
    <2> HIDE DEF F
    <2> QED
      BY <1>2, FS_StrictSubsetOrderingWellFounded, WFMin
  <1>4. PICK x \in T : \A y \in T : <<below(y), below(x)>> \notin StrictSubsetOrdering(T)
    BY <1>3
  <1>5. ASSUME NEW y \in T, ~(x <= y)
        PROVE  FALSE
    <2>0. x \in Nat /\ y \in Nat /\ T \subseteq Nat
      BY <1>1
    <2>1. y < x
      BY <2>0, <1>5
    <2>2. \A z \in T : z < y => z < x
      BY <2>0, <2>1
    <2>4. ~(y < y)
      BY <2>0
    <2>3. <<below(y), below(x)>> \in StrictSubsetOrdering(T)
      <3>1. below(y) \subseteq below(x)
        BY <2>2
      <3>2. y \in below(x) /\ y \notin below(y)
        BY <2>1, <2>4
      <3>3. below(x) \in SUBSET T /\ below(y) \in SUBSET T
        OBVIOUS
      <3> HIDE DEF below
      <3> QED
        BY <3>1, <3>2, <3>3 DEF StrictSubsetOrdering
    <2> QED
      BY <1>4, <2>3
  <1> QED
    BY <1>5

LEMMA FirstFreeIsFree ==
    ASSUME Free # {}
    PROVE  FirstFree \in Slots /\ load[FirstFree] = NoLoad
  BY SmallestSlot DEF Free, FirstFree

\* What a load asks and gets, and what is set in the fields of the screens.
TypedLoad(l) == /\ l.chain \in BOOLEAN
                /\ l.asked \in [Parts[l.screen] -> Params]
                /\ l.got \in [Parts[l.screen] -> Answers]
LoadsTyped == \A s \in Slots : load[s] # NoLoad => TypedLoad(load[s])
FieldsOK == /\ filter \in Filters /\ offset \in 0..LastPage + MaxClicks
            /\ engine \in EnginesOn \cup {Absent} \cup {h.engine : h \in Hashes}
            /\ world \in 0..MaxWorld /\ scan \in BOOLEAN /\ lifted \subseteq Cables
ShownOK == /\ shown = [p \in AllParts |-> shown[p]]
           /\ \A p \in AllParts : /\ "st" \in DOMAIN shown[p]
                                  /\ shown[p].st \in {"nothing", "broken", "data"}

\* One load of refresh() at most, and its flag is up while there is one.
OfRefresh(s) == load[s] # NoLoad /\ load[s].chain
OneRefresh == /\ refreshing \in BOOLEAN
              /\ refreshing <=> \E s \in Slots : OfRefresh(s)
              /\ \A s, t \in Slots : OfRefresh(s) /\ OfRefresh(t) => s = t

LEMMA NoLoadIsNone ==
    ASSUME NEW s \in ScreenNames, NEW chain, NEW ask
    PROVE  NewLoad(s, chain, ask) # NoLoad /\ NewLoad(s, chain, ask).chain = chain
  BY DEF NewLoad, NoLoad, ScreenNames, Parts

LEMMA NewIsTyped ==
    ASSUME NEW s \in ScreenNames, NEW chain \in BOOLEAN, NEW ask \in [AllParts -> Params]
    PROVE  TypedLoad(NewLoad(s, chain, ask))
  <1>1. Waiting \in Answers
    BY ScreensAssumption DEF Waiting, Answers
  <1>2. Parts[s] \subseteq AllParts
    BY DEF AllParts
  <1> QED
    BY <1>1, <1>2 DEF TypedLoad, NewLoad

LEMMA RefreshLoads ==
    ASSUME LoadInv, LoadFun, LoadsTyped, OneRefresh,
           NEW s \in ScreenNames, NEW ask \in [AllParts -> Params],
           LoadDirectly(s, ask) \/ Refresh(s, ask)
    PROVE  LoadsTyped' /\ OneRefresh'
  <1>1. CASE UNCHANGED <<refreshing, load>>
    BY <1>1 DEF LoadsTyped, OneRefresh, OfRefresh
  <1>2. CASE ~UNCHANGED <<refreshing, load>>
    <2>0. PICK n : n = FirstFree
      OBVIOUS
    <2>1. PICK chain \in BOOLEAN :
             /\ Free # {} /\ load' = [load EXCEPT ![n] = NewLoad(s, chain, ask)]
             /\ chain => ~refreshing /\ refreshing' = TRUE
             /\ ~chain => UNCHANGED refreshing
      BY <1>2, <2>0 DEF LoadDirectly, Refresh, MayRefresh
    <2>2. n \in Slots /\ load[n] = NoLoad
      BY <2>0, <2>1, FirstFreeIsFree
    <2>3. load'[n] = NewLoad(s, chain, ask) /\ \A t \in Slots \ {n} : load'[t] = load[t]
      BY <2>1, <2>2 DEF LoadFun
    <2>4. LoadsTyped'
      BY <2>3, NewIsTyped DEF LoadsTyped
    <2>5. /\ ~OfRefresh(n) /\ (OfRefresh(n)' <=> chain)
          /\ \A t \in Slots \ {n} : OfRefresh(t)' <=> OfRefresh(t)
      BY <2>2, <2>3, NoLoadIsNone DEF OfRefresh
    <2>6. OneRefresh'
      <3>1. CASE chain
        BY <2>1, <2>2, <2>5, <3>1 DEF OneRefresh
      <3>2. CASE ~chain
        BY <2>1, <2>2, <2>5, <3>2 DEF OneRefresh
      <3> QED
        BY <3>1, <3>2
    <2> QED
      BY <2>4, <2>6
  <1> QED
    BY <1>1, <1>2

\* An answer or a failure comes to one load, or a load is rendered and gone.
LEMMA AnswerLoads ==
    ASSUME LoadInv, LoadFun, LoadsTyped, OneRefresh, FieldsOK, NEW s \in Slots, AnswerSome(s)
    PROVE  LoadsTyped' /\ OneRefresh'
  <1>1. PICK p \in AllParts, a \in Answers :
           /\ load[s] # NoLoad /\ p \in Parts[load[s].screen]
           /\ load' = [load EXCEPT ![s].got[p] = a]
    <2>1. Failed \in Answers /\ \A b : [st |-> "ok", age |-> world, busy |-> b = "targets" /\ scan] \in Answers
      BY ScreensAssumption DEF Failed, Answers, FieldsOK
    <2> QED
      BY <2>1 DEF AnswerSome, Answer
  <1>2. /\ load'[s] = [load[s] EXCEPT !.got[p] = a]
        /\ \A t \in Slots \ {s} : load'[t] = load[t]
    BY <1>1 DEF LoadFun
  <1>3. IsLoad(load[s]) /\ TypedLoad(load[s])
    BY <1>1 DEF LoadInv, LoadsTyped
  <1>4. /\ load'[s].screen = load[s].screen /\ load'[s].chain = load[s].chain
        /\ load'[s].asked = load[s].asked /\ load'[s].got = [load[s].got EXCEPT ![p] = a]
    BY <1>2, <1>3 DEF IsLoad
  <1>5. TypedLoad(load'[s])
    BY <1>3, <1>4 DEF TypedLoad
  <1>6. load'[s] # NoLoad
    BY <1>3, <1>4 DEF IsLoad, NoLoad, ScreenNames, Parts
  <1>7. LoadsTyped'
    BY <1>2, <1>5 DEF LoadsTyped
  <1>8. \A t \in Slots : OfRefresh(t)' <=> OfRefresh(t)
    BY <1>1, <1>2, <1>4, <1>6 DEF OfRefresh
  <1>9. UNCHANGED refreshing
    BY DEF AnswerSome, Answer
  <1> QED
    BY <1>7, <1>8, <1>9 DEF OneRefresh

LEMMA SettleLoads ==
    ASSUME LoadInv, LoadFun, LoadsTyped, OneRefresh, NEW s \in Slots, Settle(s)
    PROVE  LoadsTyped' /\ OneRefresh'
  <1>1. /\ load'[s] = NoLoad /\ \A t \in Slots \ {s} : load'[t] = load[t]
        /\ load[s] # NoLoad /\ refreshing' = FlagAfter(load[s])
    BY DEF Settle, LoadFun
  <1>2. LoadsTyped'
    BY <1>1 DEF LoadsTyped
  <1>3. ~OfRefresh(s)' /\ \A t \in Slots \ {s} : OfRefresh(t)' <=> OfRefresh(t)
    BY <1>1 DEF OfRefresh
  <1>4. load[s].chain \in BOOLEAN
    BY <1>1 DEF LoadsTyped, TypedLoad
  <1>5. CASE load[s].chain
    <2>1. refreshing' = FALSE
      BY <1>1, <1>5 DEF FlagAfter
    <2>2. OfRefresh(s)
      BY <1>1, <1>5 DEF OfRefresh
    <2>3. \A x, y \in Slots : OfRefresh(x)' /\ OfRefresh(y)' => x = y
      BY <1>3, <2>2 DEF OneRefresh
    <2>4. refreshing' <=> \E x \in Slots : OfRefresh(x)'
      BY <1>3, <2>1, <2>2 DEF OneRefresh
    <2> QED
      BY <2>1, <2>3, <2>4, <1>2 DEF OneRefresh
  <1>6. CASE ~load[s].chain
    <2>1. refreshing' = refreshing
      BY <1>1, <1>6 DEF FlagAfter
    <2>2. ~OfRefresh(s)
      BY <1>1, <1>6 DEF OfRefresh
    <2>3. \A x, y \in Slots : OfRefresh(x)' /\ OfRefresh(y)' => x = y
      BY <1>3, <2>2 DEF OneRefresh
    <2>4. refreshing' <=> \E x \in Slots : OfRefresh(x)'
      BY <1>3, <2>1, <2>2 DEF OneRefresh
    <2> QED
      BY <2>1, <2>3, <2>4, <1>2 DEF OneRefresh
  <1> QED
    BY <1>2, <1>4, <1>5, <1>6

LEMMA LoadsTypedKept ==
    ASSUME LoadsTyped, OneRefresh, UNCHANGED <<refreshing, load>>
    PROVE  LoadsTyped' /\ OneRefresh'
  BY DEF LoadsTyped, OneRefresh, OfRefresh

\* What every part is asked with is a range, a filter and a page.
LEMMA AsksTyped ==
    ASSUME ChoicesOK, FieldsOK
    PROVE  /\ AskedNow \in [AllParts -> Params]
           /\ \A h \in Hashes : [p \in AllParts |-> AskedAfter(h, p)] \in [AllParts -> Params]
           /\ \A r \in Ranges : [p \in AllParts |-> [Asked(p) EXCEPT !.range = IF p \in RangedParts THEN r ELSE "-"]]
                                \in [AllParts -> Params]
           /\ \A f \in Filters : [p \in AllParts |-> [Asked(p) EXCEPT !.filter = IF p = "rows" THEN f ELSE NoFilter,
                                                                      !.offset = 0]] \in [AllParts -> Params]
           /\ \A to \in Nat : [p \in AllParts |-> [Asked(p) EXCEPT !.offset = IF p = "rows" THEN to ELSE 0]]
                              \in [AllParts -> Params]
  <1>1. range \in Ranges /\ filter \in Filters /\ NoFilter \in Filters /\ offset \in Nat
    BY ScreensAssumption DEF ChoicesOK, FieldsOK
  <1>2. \A p : Asked(p) \in Params
    BY <1>1 DEF Asked, Params
  <1>3. ASSUME NEW h \in Hashes, NEW p \in AllParts
        PROVE  AskedAfter(h, p) \in Params
    <2>1. RangeAfter(h) \in Ranges
      BY <1>1 DEF RangeAfter, Ranges
    <2>2. FilterAfter(h) \in Filters /\ OffsetAfter(h) \in Nat
      BY <1>1, HashesAssumption DEF FilterAfter, OffsetAfter
    <2> QED
      BY <1>1, <2>1, <2>2 DEF AskedAfter, Params
  <1>4. ASSUME NEW p \in AllParts
        PROVE  /\ \A r \in Ranges : [Asked(p) EXCEPT !.range = IF p \in RangedParts THEN r ELSE "-"] \in Params
               /\ \A f \in Filters : [Asked(p) EXCEPT !.filter = IF p = "rows" THEN f ELSE NoFilter, !.offset = 0]
                                     \in Params
               /\ \A to \in Nat : [Asked(p) EXCEPT !.offset = IF p = "rows" THEN to ELSE 0] \in Params
    BY <1>1, <1>2 DEF Params
  <1> QED
    BY <1>2, <1>3, <1>4 DEF AskedNow

LoadsOK == LoadInv /\ LoadFun /\ LoadsTyped /\ OneRefresh
ScreensInv == LoadsOK /\ ViewInv /\ FieldsOK /\ ShownOK

LEMMA LoadsOKStep ==
    ASSUME LoadsOK, ChoicesOK, FieldsOK, [Next]_console_vars
    PROVE  LoadsOK'
  <1>0. LoadInv' /\ LoadFun'
    BY LoadStep DEF LoadsOK
  <1> SUFFICES LoadsTyped' /\ OneRefresh'
    BY <1>0 DEF LoadsOK
  <1>1. current \in ScreenNames /\ "software" \in ScreenNames
    BY DEF LoadsOK, LoadInv, ScreenNames, Parts
  <1>2. ASSUME NEW s \in ScreenNames, NEW ask \in [AllParts -> Params],
               LoadDirectly(s, ask) \/ Refresh(s, ask)
        PROVE  LoadsTyped' /\ OneRefresh'
    BY <1>2, RefreshLoads DEF LoadsOK
  <1>3. CASE \E h \in Hashes : Navigate(h)
    BY <1>2, <1>3, AsksTyped, HashesAssumption DEF Navigate, Show
  <1>4. CASE \E r \in Ranges : PickRange(r)
    BY <1>1, <1>2, <1>4, AsksTyped DEF PickRange
  <1>5. CASE \E f \in Filters : PickFilter(f)
    BY <1>1, <1>2, <1>5, AsksTyped DEF PickFilter
  <1>6. CASE \E to \in 0..LastPage + MaxClicks : Page(to)
    <2>1. \A to \in 0..LastPage + MaxClicks : to \in Nat
      BY ScreensAssumption
    <2> QED
      BY <1>1, <1>2, <1>6, <2>1, AsksTyped DEF Page
  <1>7. CASE PressRefresh \/ StartScan \/ Resize \/ Tick \/ Poll \/ \E e \in EnginesOn : PickEngine(e)
    BY <1>1, <1>2, <1>7, AsksTyped DEF PressRefresh, StartScan, Resize, Tick, Poll, PickEngine
  <1>8. CASE (\E m \in Metrics : PickMetric(m)) \/ (\E v \in {"map", "table"} : PickView(v))
             \/ OpenDialog \/ CloseDialog \/ TurnAway \/ WorldChanges \/ ScanEnds \/ UNCHANGED screens_vars
             \/ Lift \/ (\E what \in Cables : LetGo(what))
    BY <1>8, LoadsTypedKept DEF PickMetric, PickView, OpenDialog, CloseDialog, TurnAway, Lift, LetGo, WorldChanges,
       ScanEnds, screens_vars, LoadsOK
  <1>9. ASSUME NEW s \in Slots, AnswerSome(s) \/ Settle(s)
        PROVE  LoadsTyped' /\ OneRefresh'
    BY <1>9, AnswerLoads, SettleLoads DEF LoadsOK
  <1> QED
    BY <1>3, <1>4, <1>5, <1>6, <1>7, <1>8, <1>9 DEF Next, InScreens, InSettings, ScreensNext, Operator,
       console_vars

LEMMA FirstPage == 0 \in 0..LastPage + MaxClicks /\ 0 \in 0..MaxWorld /\ 1 \in Slots
  <1>1. LastPage + MaxClicks \in Nat /\ MaxWorld \in Nat /\ MaxLoads \in Nat \ {0}
    BY ScreensAssumption
  <1> QED
    BY <1>1 DEF Slots

LEMMA FieldsStep ==
    ASSUME FieldsOK, [Next]_console_vars
    PROVE  FieldsOK'
  <1>1. ASSUME NEW h \in Hashes, Navigate(h)
        PROVE  FieldsOK'
    <2>1. Show(h) /\ Untouched
      BY <1>1 DEF Navigate
    <2>2. filter' \in {filter, h.filter} /\ offset' \in {offset, 0} /\ engine' \in {engine, h.engine}
      BY <2>1 DEF Show, FilterAfter, OffsetAfter, EngineAfter
    <2>3. UNCHANGED <<world, scan, lifted>>
      BY <2>1 DEF Untouched
    <2>4. h.filter \in Filters
      BY HashesAssumption
    <2>5. filter' \in Filters /\ engine' \in EnginesOn \cup {Absent} \cup {g.engine : g \in Hashes}
      BY <2>2, <2>4 DEF FieldsOK
    <2>6. offset' \in 0..LastPage + MaxClicks
      BY <2>2, FirstPage DEF FieldsOK
    <2> QED
      BY <2>3, <2>5, <2>6 DEF FieldsOK
  <1>2. CASE (\E r \in Ranges : PickRange(r)) \/ (\E m \in Metrics : PickMetric(m))
             \/ (\E v \in {"map", "table"} : PickView(v)) \/ PressRefresh \/ OpenDialog \/ CloseDialog
             \/ TurnAway \/ Resize \/ Tick \/ Poll \/ UNCHANGED screens_vars
    BY <1>2 DEF PickRange, PickMetric, PickView, PressRefresh, OpenDialog, CloseDialog, TurnAway, Resize,
       Tick, Poll, Untouched, screens_vars, view_vars, FieldsOK
  <1>3. CASE \E f \in Filters : PickFilter(f)
    BY <1>3, FirstPage DEF PickFilter, Untouched, FieldsOK
  <1>4. CASE (\E to \in 0..LastPage + MaxClicks : Page(to)) \/ \E e \in EnginesOn : PickEngine(e)
    BY <1>4 DEF Page, PickEngine, Untouched, FieldsOK
  <1>5. CASE StartScan \/ ScanEnds
    BY <1>5 DEF StartScan, ScanEnds, view_vars, FieldsOK
  <1>6. CASE WorldChanges
    BY <1>6, ScreensAssumption DEF WorldChanges, view_vars, FieldsOK
  <1>7. ASSUME NEW s \in Slots, AnswerSome(s)
        PROVE  FieldsOK'
    BY <1>7 DEF AnswerSome, Answer, view_vars, FieldsOK
  <1>8. ASSUME NEW s \in Slots, Settle(s)
        PROVE  FieldsOK'
    <2>1. engine' \in {engine, EngineOnceLoaded}
      BY <1>8 DEF Settle
    <2> QED
      BY <1>8, <2>1, ScreensAssumption DEF Settle, EngineOnceLoaded, FieldsOK
  <1>9. CASE Lift \/ (\E what \in Cables : LetGo(what))
    BY <1>9 DEF Lift, LetGo, Cables, view_vars, FieldsOK
  <1> QED
    BY <1>1, <1>2, <1>3, <1>4, <1>5, <1>6, <1>7, <1>8, <1>9 DEF Next, InScreens, InSettings, ScreensNext,
       Operator, console_vars

LEMMA ShownStep ==
    ASSUME ShownOK, [Next]_console_vars
    PROVE  ShownOK'
  <1>1. CASE UNCHANGED shown
    BY <1>1 DEF ShownOK
  <1>2. CASE StartScan
    <2>1. shown' = [shown EXCEPT !["targets"].age = world, !["targets"].busy = TRUE]
      BY <1>2 DEF StartScan
    <2>2. \A p \in AllParts : DOMAIN shown'[p] = DOMAIN shown[p]
      BY <2>1 DEF ShownOK
    <2>3. \A p \in AllParts : shown'[p].st = shown[p].st
      BY <2>1 DEF ShownOK
    <2> QED
      BY <2>1, <2>2, <2>3 DEF ShownOK
  <1>3. ASSUME NEW s \in Slots, Settle(s)
        PROVE  ShownOK'
    <2>1. shown' = Rendered(load[s])
      BY <1>3 DEF Settle
    <2>2. \A g, q : /\ "st" \in DOMAIN RenderScores(g, q) /\ RenderScores(g, q).st \in {"broken", "data"}
                    /\ "st" \in DOMAIN RenderPart(g, q) /\ RenderPart(g, q).st \in {"broken", "data"}
      BY DEF RenderScores, RenderPart, Broken
    <2> QED
      BY <2>1, <2>2 DEF Rendered, ShownOK
  <1>4. CASE Operator
    <2>1. StartScan \/ UNCHANGED shown
      BY <1>4 DEF Operator, Navigate, PickRange, PickMetric, PickFilter, Page, PickEngine, PickView,
         PressRefresh, OpenDialog, CloseDialog, TurnAway, Resize, Lift, LetGo, Untouched
    <2> QED
      BY <1>1, <1>2, <2>1
  <1>5. CASE Tick \/ Poll \/ WorldChanges \/ ScanEnds \/ (\E s \in Slots : AnswerSome(s)) \/ UNCHANGED screens_vars
    BY <1>1, <1>5 DEF Tick, Untouched, Poll, WorldChanges, ScanEnds, AnswerSome, Answer, screens_vars
  <1> QED
    BY <1>3, <1>4, <1>5 DEF Next, InScreens, InSettings, ScreensNext, console_vars

LEMMA ScreensInvInit == Init => ScreensInv
  <1> SUFFICES ASSUME Init PROVE ScreensInv
    OBVIOUS
  <1>1. LoadInv /\ LoadFun /\ ViewInv
    BY LoadInit, ViewInit
  <1>2. FieldsOK
    BY FirstPage, ScreensAssumption, HashesAssumption DEF Init, ScreensInit, FieldsOK
  <1>3. ShownOK
    BY DEF Init, ScreensInit, ShownOK, Nothing
  <1>4. load = [s \in Slots |-> IF s = 1 THEN NewLoad(current, TRUE, AskedNow) ELSE NoLoad] /\ refreshing = TRUE
    BY DEF Init, ScreensInit
  <1>5. AskedNow \in [AllParts -> Params] /\ current \in ScreenNames /\ 1 \in Slots
    BY <1>1, <1>2, AsksTyped, FirstPage DEF ViewInv, LoadInv
  <1>6. LoadsTyped /\ OneRefresh
    <2>1. load[1] = NewLoad(current, TRUE, AskedNow) /\ \A t \in Slots \ {1} : load[t] = NoLoad
      BY <1>4, <1>5
    <2>2. LoadsTyped
      BY <1>5, <2>1, NewIsTyped DEF LoadsTyped
    <2>3. OfRefresh(1) /\ \A t \in Slots \ {1} : ~OfRefresh(t)
      BY <1>5, <2>1, NoLoadIsNone DEF OfRefresh
    <2> QED
      BY <1>4, <1>5, <2>2, <2>3 DEF OneRefresh
  <1> QED
    BY <1>1, <1>2, <1>3, <1>6 DEF ScreensInv, LoadsOK

LEMMA ScreensTyped == ScreensInv => ScreensTypeOK
  <1> SUFFICES ASSUME ScreensInv PROVE ScreensTypeOK
    OBVIOUS
  <1> DEFINE chains == {s \in InFlight : load[s].chain}
  <1>1. chains \subseteq Slots /\ \A s \in Slots : s \in chains <=> OfRefresh(s)
    BY DEF InFlight, Free, OfRefresh
  <1>2. IsFiniteSet(chains)
    BY <1>1, SlotsFinite, FS_Subset
  <1>3. /\ refreshing = (Cardinality(chains) = 1)
        /\ Cardinality(chains) <= 1
    <2> HIDE DEF chains
    <2>0. OneRefresh
      BY DEF ScreensInv, LoadsOK
    <2>1. CASE refreshing
      <3>1. PICK s \in Slots : chains = {s}
        BY <1>1, <2>0, <2>1 DEF OneRefresh
      <3>2. Cardinality(chains) = 1
        BY <3>1, FS_Singleton
      <3>3. refreshing = TRUE
        BY <2>0, <2>1 DEF OneRefresh
      <3>4. Cardinality(chains) <= 1
        BY <3>2
      <3> QED
        BY <3>2, <3>3, <3>4
    <2>2. CASE ~refreshing
      <3>1. chains = {}
        BY <1>1, <2>0, <2>2 DEF OneRefresh
      <3>2. Cardinality(chains) = 0
        BY <3>1, FS_EmptySet
      <3>3. refreshing = FALSE
        BY <2>0, <2>2 DEF OneRefresh
      <3>4. Cardinality(chains) <= 1 /\ Cardinality(chains) # 1
        BY <3>2
      <3> QED
        BY <3>3, <3>4
    <2> QED
      BY <2>1, <2>2
  <1>4. \A s \in InFlight : \A p \in Parts[load[s].screen] :
           load[s].got[p] \in Answers /\ load[s].asked[p] \in Params
    BY DEF InFlight, Free, ScreensInv, LoadsOK, LoadsTyped, TypedLoad
  <1> QED
    BY <1>3, <1>4 DEF ScreensTypeOK, ScreensInv, LoadsOK, LoadInv, ViewInv, ChoicesOK, FieldsOK, ShownOK

\* The screens hold, whatever is clicked and whichever loads overlap or fail: one
\* load of refresh() runs exactly while its flag is up, so that the screens never
\* stop refreshing; a bookmark opens what was shown; the pills say what the ban
\* list says.
THEOREM ScreensHold == Spec => []ScreensTrue
  <1>1. ScreensInv /\ [Next]_console_vars => ScreensInv'
    BY LoadsOKStep, ViewStep, FieldsStep, ShownStep DEF ScreensInv, ViewInv
  <1>2. ScreensInv => ScreensTypeOK /\ HashIsView
    BY ScreensTyped DEF ScreensInv, ViewInv
  <1>3. Spec => [](ScreensTypeOK /\ HashIsView)
    BY ScreensInvInit, <1>1, <1>2, PTL DEF Spec
  <1> QED
    BY <1>3, PillsAgree, PTL DEF ScreensTrue

-----------------------------------------------------------------------------
(* The settings: requests and what is kept.                                *)

\* A request, and what it may ask and be answered in the block b.
IsCall(c) == c = [what |-> c.what, name |-> c.name, val |-> c.val, base |-> c.base, view |-> c.view,
                  attached |-> c.attached, n |-> c.n]
CallOK(b, c) ==
    /\ IsCall(c)
    /\ c.what \in {"get", "mcp", "engine", "form", "apply", "rollback", "poll"}
    /\ c.what = "get" => c.name = b
    /\ c.what = "mcp" => b = "assistants" /\ (c.name = "token" \/ (c.name \in {"on", "act"} /\ c.val \in BOOLEAN))
    /\ c.what = "engine" => b = "engines" /\ c.name \in Engines /\ c.val \in BOOLEAN
    /\ c.what = "form" => b = "ban" /\ c.val \in Forms
    /\ c.what = "apply" => b = "update" /\ c.val = Newest
    /\ c.what = "rollback" => b = "update"
    /\ c.what = "poll" => b = "update" /\ c.name \in FollowSlots
    /\ c.base # None => c.base \in SrvStates
    /\ c.view # None => c.view \in (IF b = "update" THEN Reports ELSE Snapshots)

Pages == [mcp : {None} \cup Switches, on : BOOLEAN, act : BOOLEAN, token : Nat,
          engines : {None} \cup [Engines -> BOOLEAN], form : Forms,
          touched : SUBSET {"enabled", "threshold"}, ver : Nat]
Hosts == [up : BOOLEAN, running : 0..Newest, phase : {"idle", "installing", "restarting", "failed"},
          boots : Nat, next : SUBSET (0..Newest)]

ConfirmOK ==
    confirm # None => /\ confirm \in Questions /\ (confirm.what = "mcp" => page.mcp # None)
                      /\ block = IF confirm.what = "mcp" THEN "assistants" ELSE "update"
PageOK == /\ page \in Pages
          /\ block # "assistants" => page.mcp = None
          /\ block # "engines" => page.engines = None
PlaceOK == /\ block \in Blocks /\ here \in BOOLEAN /\ leaving \in BOOLEAN
           /\ block # "update" => ~leaving /\ \A f \in FollowSlots : follow[f] = None
CallsOK == /\ \A c \in calls : CallOK(block, c)
           /\ \A c \in calls : (c.what = "mcp" => page.mcp # None) /\ (c.base # None => c.base.token <= srv.made)
SettingsTypes ==
    PlaceOK /\ srv \in SrvStates /\ srv.token <= srv.made /\ PageOK /\ CallsOK /\ ConfirmOK /\ host \in Hosts

LEMMA GetOK ==
    ASSUME NEW b
    PROVE  CallOK(b, Get(b))
  BY DEF CallOK, IsCall, Get, Call

\* A request is a record, so that one of its fields can be set.
LEMMA CallSet ==
    ASSUME NEW c, IsCall(c), NEW v
    PROVE  /\ [c EXCEPT !.base = v] = [what |-> c.what, name |-> c.name, val |-> c.val, base |-> v,
                                       view |-> c.view, attached |-> c.attached, n |-> c.n]
           /\ [c EXCEPT !.view = v] = [what |-> c.what, name |-> c.name, val |-> c.val, base |-> c.base,
                                       view |-> v, attached |-> c.attached, n |-> c.n]
           /\ [c EXCEPT !.attached = v] = [what |-> c.what, name |-> c.name, val |-> c.val, base |-> c.base,
                                           view |-> c.view, attached |-> v, n |-> c.n]
           /\ [c EXCEPT !.n = v] = [what |-> c.what, name |-> c.name, val |-> c.val, base |-> c.base,
                                    view |-> c.view, attached |-> c.attached, n |-> v]
  BY DEF IsCall

LEMMA CallSetOK ==
    ASSUME NEW b, NEW c, CallOK(b, c), NEW v
    PROVE  /\ CallOK(b, [c EXCEPT !.attached = v]) /\ CallOK(b, [c EXCEPT !.n = v])
           /\ v \in SrvStates => CallOK(b, [c EXCEPT !.base = v])
           /\ v \in (IF b = "update" THEN Reports ELSE Snapshots) => CallOK(b, [c EXCEPT !.view = v])
  <1>1. IsCall(c)
    BY DEF CallOK
  <1>2. CallOK(b, [c EXCEPT !.attached = v])
    BY <1>1, CallSet DEF CallOK, IsCall
  <1>3. CallOK(b, [c EXCEPT !.n = v])
    BY <1>1, CallSet DEF CallOK, IsCall
  <1>4. ASSUME v \in SrvStates PROVE CallOK(b, [c EXCEPT !.base = v])
    BY <1>1, <1>4, CallSet DEF CallOK, IsCall
  <1>5. ASSUME v \in (IF b = "update" THEN Reports ELSE Snapshots) PROVE CallOK(b, [c EXCEPT !.view = v])
    BY <1>1, <1>5, CallSet DEF CallOK, IsCall
  <1> QED
    BY <1>2, <1>3, <1>4, <1>5

\* A request is sent as it was made, with a number.
LEMMA NumberedOK ==
    ASSUME NEW b, NEW c, CallOK(b, c)
    PROVE  /\ CallOK(b, Numbered(c))
           /\ \E k : Numbered(c) = [what |-> c.what, name |-> c.name, val |-> c.val, base |-> c.base,
                                    view |-> c.view, attached |-> c.attached, n |-> k]
  <1>1. \E k : Numbered(c) = [c EXCEPT !.n = k]
    BY DEF Numbered
  <1>2. PICK k : Numbered(c) = [c EXCEPT !.n = k]
    BY <1>1
  <1>3. CallOK(b, [c EXCEPT !.n = k])
    BY CallSetOK
  <1>4. CallOK(b, Numbered(c))
    BY <1>2, <1>3
  <1>5. IsCall(c)
    BY DEF CallOK
  <1>6. Numbered(c) = [what |-> c.what, name |-> c.name, val |-> c.val, base |-> c.base,
                       view |-> c.view, attached |-> c.attached, n |-> k]
    BY <1>2, <1>5, CallSet
  <1> QED
    BY <1>4, <1>6

\* The change of a handler keeps the settings' types, and a token is one that was made.
LEMMA ChangedOK ==
    ASSUME SettingsTypes, NEW c \in calls, IsSetting(c), c.what = "mcp" => c.base # None
    PROVE  Changed(c) \in SrvStates /\ Changed(c).token <= Changed(c).made /\ srv.made <= Changed(c).made
  <1>1. CallOK(block, c) /\ srv \in SrvStates /\ srv.token <= srv.made
    BY DEF SettingsTypes, CallsOK
  <1>2. CASE c.what = "mcp"
    <2>1. c.base \in SrvStates
      BY <1>1, <1>2 DEF CallOK
    <2> DEFINE s == IF c.name = "token" THEN c.base ELSE [c.base EXCEPT ![c.name] = c.val]
    <2>2. s \in SrvStates /\ s.token = c.base.token
      <3>1. c.name = "token" \/ (c.name \in {"on", "act"} /\ c.val \in BOOLEAN)
        BY <1>1, <1>2 DEF CallOK
      <3> QED
        BY <2>1, <3>1 DEF SrvStates
    <2>3. Changed(c) = IF c.name = "token" \/ (s.on /\ s.token = 0)
                       THEN [s EXCEPT !.token = srv.made + 1, !.made = srv.made + 1] ELSE [s EXCEPT !.made = srv.made]
      BY <1>2 DEF Changed, MCPChange
    <2>4. srv.made \in Nat /\ s.token <= srv.made
      <3>1. c.base.token <= srv.made
        BY <1>2 DEF SettingsTypes, CallsOK
      <3> QED
        BY <1>1, <2>2, <3>1 DEF SrvStates
    <2> HIDE DEF s
    <2>5. ASSUME NEW x \in Nat, NEW y \in Nat
          PROVE  /\ [s EXCEPT !.token = x, !.made = y] \in SrvStates
                 /\ [s EXCEPT !.token = x, !.made = y].token = x
                 /\ [s EXCEPT !.token = x, !.made = y].made = y
                 /\ [s EXCEPT !.made = y] \in SrvStates
                 /\ [s EXCEPT !.made = y].token = s.token /\ [s EXCEPT !.made = y].made = y
      BY <2>2 DEF SrvStates
    <2>6. srv.made + 1 \in Nat /\ srv.made <= srv.made + 1 /\ srv.made + 1 <= srv.made + 1 /\ srv.made <= srv.made
      BY <2>4
    <2>7. CASE c.name = "token" \/ (s.on /\ s.token = 0)
      <3>1. PICK m \in Nat : m = srv.made + 1
        BY <2>6
      <3>2. Changed(c) = [s EXCEPT !.token = m, !.made = m]
        BY <2>3, <2>7, <3>1
      <3>3. Changed(c) \in SrvStates /\ Changed(c).token = m /\ Changed(c).made = m
        <4>1. /\ [s EXCEPT !.token = m, !.made = m] \in SrvStates
              /\ [s EXCEPT !.token = m, !.made = m].token = m
              /\ [s EXCEPT !.token = m, !.made = m].made = m
          BY <2>5
        <4> QED
          BY <3>2, <4>1, Zenon
      <3> QED
        BY <2>6, <3>1, <3>3
    <2>8. CASE ~(c.name = "token" \/ (s.on /\ s.token = 0))
      <3>1. Changed(c) = [s EXCEPT !.made = srv.made]
        BY <2>3, <2>8
      <3>2. PICK m \in Nat : m = srv.made /\ s.token <= m
        BY <2>4
      <3>3. Changed(c) \in SrvStates /\ Changed(c).token = s.token /\ Changed(c).made = m
        <4>1. /\ [s EXCEPT !.made = m] \in SrvStates
              /\ [s EXCEPT !.made = m].token = s.token
              /\ [s EXCEPT !.made = m].made = m
          BY <2>5
        <4>2. Changed(c) = [s EXCEPT !.made = m]
          BY <3>1, <3>2
        <4> QED
          BY <4>1, <4>2, Zenon
      <3> QED
        BY <2>6, <3>2, <3>3
    <2> QED
      BY <2>7, <2>8
  <1>3. CASE c.what = "engine"
    <2>1. Changed(c) = [srv EXCEPT !.engines[c.name] = c.val] /\ c.name \in Engines /\ c.val \in BOOLEAN
      BY <1>1, <1>3 DEF Changed, CallOK
    <2> QED
      BY <1>1, <2>1 DEF SrvStates
  <1>4. CASE c.what = "form"
    <2>1. /\ Changed(c) = [srv EXCEPT !.form.enabled = c.val.enabled,
                                      !.form.threshold = IF c.val.threshold = 0 THEN @ ELSE c.val.threshold]
          /\ c.val \in Forms
      BY <1>1, <1>4 DEF Changed, CallOK
    <2> DEFINE f == [srv.form EXCEPT !.enabled = c.val.enabled,
                                     !.threshold = IF c.val.threshold = 0 THEN @ ELSE c.val.threshold]
    <2>2. f \in Forms
      BY <1>1, <2>1 DEF SrvStates, Forms
    <2>3. Changed(c) = [srv EXCEPT !.form = f]
      BY <1>1, <2>1 DEF SrvStates, Forms
    <2> HIDE DEF f
    <2> QED
      BY <1>1, <2>2, <2>3 DEF SrvStates
  <1> QED
    BY <1>2, <1>3, <1>4 DEF IsSetting

\* The requests that one more was sent to, or whose one request was changed.
LEMMA SendOK ==
    ASSUME CallsOK, NEW c, CallOK(block, c), c.base = None, c.what = "mcp" => page.mcp # None,
           Send(c), UNCHANGED <<block, srv>>, page'.mcp = page.mcp
    PROVE  CallsOK'
  <1>1. PICK d : /\ calls' = calls \cup {d} /\ CallOK(block, d)
                 /\ d.base = c.base /\ d.what = c.what
    BY NumberedOK DEF Send
  <1> QED
    BY <1>1 DEF CallsOK

LEMMA CallsKept ==
    ASSUME CallsOK, calls' \subseteq calls, UNCHANGED <<block, srv>>, page'.mcp = page.mcp \/ page'.mcp # None
    PROVE  CallsOK'
  BY DEF CallsOK

LEMMA OneCallOK ==
    ASSUME CallsOK, NEW c \in calls, NEW d, calls' = (calls \ {c}) \cup {d}, CallOK(block, d), d.what = c.what,
           d.base # None => d.base.token <= srv'.made, srv.made <= srv'.made,
           srv.made \in Nat, srv'.made \in Nat, UNCHANGED block, page'.mcp = page.mcp
    PROVE  CallsOK'
  <1>1. ASSUME NEW e \in calls', e.base # None PROVE e.base.token <= srv'.made
    <2>1. CASE e = d
      BY <1>1, <2>1
    <2>2. CASE e \in calls
      <3>0. CallOK(block, e) /\ e.base.token <= srv.made
        BY <1>1, <2>2 DEF CallsOK
      <3>1. e.base.token <= srv.made /\ e.base \in SrvStates
        BY <1>1, <3>0 DEF CallOK
      <3>2. e.base.token \in Nat
        BY <3>1 DEF SrvStates
      <3> QED
        BY <3>1, <3>2
    <2> QED
      BY <2>1, <2>2
  <1> QED
    BY <1>1 DEF CallsOK

\* What is asked about may be sent.
LEMMA QuestionOK ==
    ASSUME ConfirmOK, confirm # None
    PROVE  CallOK(block, confirm) /\ confirm.base = None /\ confirm.view = None
  BY DEF ConfirmOK, Questions, AskedAbout, CallOK, IsCall

LEMMA PageSet ==
    ASSUME NEW p \in Pages, NEW v
    PROVE  /\ v \in BOOLEAN => [p EXCEPT !.on = v] \in Pages /\ [p EXCEPT !.act = v] \in Pages
           /\ v \in Nat => [p EXCEPT !.ver = v] \in Pages /\ [p EXCEPT !.token = v] \in Pages
           /\ v \in {None} \cup [Engines -> BOOLEAN] => [p EXCEPT !.engines = v] \in Pages
  BY DEF Pages

LEMMA SwitchTypes ==
    ASSUME NEW s \in SrvStates
    PROVE  Shows(s) \in Switches /\ Shows(s) # None
  <1>1. Shows(s) \in Switches
    BY DEF Shows, SrvStates, Switches
  <1> QED
    BY <1>1, NoneAssumption

LEMMA RenderMCPType ==
    ASSUME NEW p \in Pages, NEW d \in Switches
    PROVE  /\ RenderMCP(p, d) \in Pages
           /\ RenderMCP(p, d) = [mcp |-> d, on |-> d.on, act |-> d.act, token |-> p.token, engines |-> p.engines,
                                 form |-> p.form, touched |-> p.touched, ver |-> p.ver]
  <1>1. p = [mcp |-> p.mcp, on |-> p.on, act |-> p.act, token |-> p.token, engines |-> p.engines,
             form |-> p.form, touched |-> p.touched, ver |-> p.ver]
    BY DEF Pages
  <1>2. RenderMCP(p, d) = [mcp |-> d, on |-> d.on, act |-> d.act, token |-> p.token, engines |-> p.engines,
                           form |-> p.form, touched |-> p.touched, ver |-> p.ver]
    <2> DEFINE q == [p EXCEPT !.mcp = d]
               r == [q EXCEPT !.on = d.on]
    <2>1. RenderMCP(p, d) = [r EXCEPT !.act = d.act]
      BY DEF RenderMCP
    <2>2. q = [mcp |-> d, on |-> p.on, act |-> p.act, token |-> p.token, engines |-> p.engines,
               form |-> p.form, touched |-> p.touched, ver |-> p.ver]
      BY <1>1
    <2> HIDE DEF q
    <2>3. r = [mcp |-> d, on |-> d.on, act |-> p.act, token |-> p.token, engines |-> p.engines,
               form |-> p.form, touched |-> p.touched, ver |-> p.ver]
      BY <2>2
    <2> HIDE DEF r
    <2> QED
      BY <2>1, <2>3
  <1> QED
    BY <1>2 DEF Pages, Switches

\* Two requests that differ in their number and in whether their switch is still drawn.
Like(d, e) == /\ IsCall(d) /\ d.what = e.what /\ d.name = e.name /\ d.val = e.val
              /\ d.base = e.base /\ d.view = e.view

LEMMA LikeOK ==
    ASSUME NEW b, NEW d, NEW e, Like(d, e), CallOK(b, e)
    PROVE  CallOK(b, d)
  BY DEF Like, CallOK

LEMMA DetachedLike ==
    ASSUME NEW c, NEW cs, \A e \in cs : IsCall(e)
    PROVE  /\ \A d \in Detached(c, cs) : \E e \in cs : Like(d, e)
           /\ \A e \in cs : \E d \in Detached(c, cs) : Like(d, e)
  <1>1. ASSUME NEW e \in cs
        PROVE  Like(e, e) /\ Like([e EXCEPT !.attached = FALSE], e)
    <2>1. [e EXCEPT !.attached = FALSE] = [what |-> e.what, name |-> e.name, val |-> e.val, base |-> e.base,
                                           view |-> e.view, attached |-> FALSE, n |-> e.n]
      BY CallSet
    <2> QED
      BY <2>1 DEF Like, IsCall
  <1> QED
    BY <1>1 DEF Detached

LEMMA NumberedLike ==
    ASSUME NEW b, NEW c, CallOK(b, c)
    PROVE  Like(Numbered(c), c)
  BY NumberedOK DEF Like, IsCall

\* What is left of the requests when c is answered or fails in a block of settings.
Remains(c) ==
    /\ \A d \in calls' : Like(d, Get(block)) \/ \E e \in calls \ {c} : Like(d, e)
    /\ \A e \in calls \ {c} : \E d \in calls' : Like(d, e)
Reloaded == \E d \in calls' : Like(d, Get(block))

LEMMA RemainsAfter ==
    ASSUME CallsOK, NEW c \in calls, NEW ok \in BOOLEAN,
           calls' = Detached(c, calls \ {c}) \cup ReloadAfter(c, ok)
    PROVE  /\ Remains(c)
           /\ (c.what = "engine" /\ here) \/ (c.what = "form" /\ ok) => Reloaded
  <1>1. Like(Numbered(Get(block)), Get(block))
    BY GetOK, NumberedLike
  <1>2. ReloadAfter(c, ok) \subseteq {Numbered(Get(block))}
    BY DEF ReloadAfter
  <1>3. (c.what = "engine" /\ here) \/ (c.what = "form" /\ ok) => Numbered(Get(block)) \in ReloadAfter(c, ok)
    BY DEF ReloadAfter
  <1>4. \A e \in calls \ {c} : IsCall(e)
    BY DEF CallsOK, CallOK
  <1> QED
    BY <1>1, <1>2, <1>3, <1>4, DetachedLike DEF Remains, Reloaded

LEMMA RemainsOK ==
    ASSUME CallsOK, NEW c \in calls, Remains(c), UNCHANGED <<block, srv>>, page'.mcp = page.mcp \/ page'.mcp # None
    PROVE  CallsOK'
  <1>1. ASSUME NEW d \in calls', Like(d, Get(block))
        PROVE  CallOK(block, d) /\ d.what # "mcp" /\ d.base = None
    BY <1>1, GetOK, LikeOK DEF Like, Get, Call
  <1>2. ASSUME NEW d \in calls', NEW e \in calls, Like(d, e)
        PROVE  CallOK(block, d) /\ d.what = e.what /\ d.base = e.base
    BY <1>2, LikeOK DEF Like, CallsOK
  <1>3. ASSUME NEW d \in calls'
        PROVE  CallOK(block, d) /\ (d.what = "mcp" => page'.mcp # None) /\ (d.base # None => d.base.token <= srv.made)
    <2>1. CASE Like(d, Get(block))
      BY <1>1, <2>1
    <2>2. ASSUME NEW e \in calls \ {c}, Like(d, e)
          PROVE  CallOK(block, d) /\ (d.what = "mcp" => page'.mcp # None) /\ (d.base # None => d.base.token <= srv.made)
      BY <1>2, <2>2 DEF CallsOK
    <2> QED
      BY <2>1, <2>2 DEF Remains
  <1> QED
    BY <1>3 DEF CallsOK

\* What an answer makes of the block.
LEMMA DeliveredPage ==
    ASSUME SettingsTypes, NEW c \in calls, Deliver(c)
    PROVE  /\ page' \in Pages /\ c.view \in Snapshots
           /\ page'.ver = IF c.what \in {"engine", "form"} THEN page.ver ELSE c.view.s.ver
           /\ page'.token = IF c.what = "mcp" /\ c.view.token # 0 THEN c.view.token ELSE page.token
           /\ IF block = "assistants"
              THEN /\ c.what \in {"get", "mcp"} /\ page'.mcp = Shows(c.view.s) /\ page'.mcp # None
                   /\ page'.on = c.view.s.on /\ page'.act = c.view.s.act
              ELSE page'.mcp = page.mcp
           /\ IF block = "engines"
              THEN /\ c.what \in {"get", "engine"}
                   /\ page'.engines = IF c.what = "get" THEN c.view.s.engines ELSE page.engines
              ELSE page'.engines = page.engines
           /\ block = "ban" => /\ c.what \in {"get", "form"} /\ page'.touched = {}
                               /\ page'.form = IF c.what = "get" THEN c.view.s.form ELSE page.form
  <1>1. CallOK(block, c) /\ page \in Pages /\ block \in {"assistants", "engines", "ban"}
    BY SettingsAssumption DEF SettingsTypes, CallsOK, PageOK, PlaceOK, Deliver
  <1>2. c.view \in Snapshots /\ c.view.s \in SrvStates /\ c.view.token \in Nat
    BY <1>1 DEF CallOK, Deliver, Snapshots
  <1> DEFINE r == RenderedBlock(c)
  <1>3. /\ r \in Pages
        /\ r.token = IF c.what = "mcp" /\ c.view.token # 0 THEN c.view.token ELSE page.token
        /\ r.ver = page.ver
        /\ IF block = "assistants"
           THEN /\ c.what \in {"get", "mcp"} /\ r.mcp = Shows(c.view.s)
                /\ r.on = Shows(c.view.s).on /\ r.act = Shows(c.view.s).act
           ELSE r.mcp = page.mcp
        /\ IF block = "engines"
           THEN /\ c.what \in {"get", "engine"}
                /\ r.engines = IF c.what = "get" THEN c.view.s.engines ELSE page.engines
           ELSE r.engines = page.engines
        /\ block = "ban" => /\ c.what \in {"get", "form"} /\ r.touched = {}
                            /\ r.form = IF c.what = "get" THEN c.view.s.form ELSE page.form
    <2>1. CASE c.what = "mcp"
      <3> DEFINE q == [page EXCEPT !.token = TokenAfter(page, c)]
      <3>1. r = RenderMCP(q, Shows(c.view.s)) /\ block = "assistants"
        BY <1>1, <2>1 DEF RenderedBlock, LoadOf, CallOK
      <3>2. /\ q \in Pages /\ q.token = (IF c.view.token # 0 THEN c.view.token ELSE page.token)
            /\ q.engines = page.engines /\ q.ver = page.ver
        BY <1>1, <1>2 DEF TokenAfter, Pages
      <3> HIDE DEF q, r
      <3> QED
        BY <2>1, <3>1, <3>2, <1>2, RenderMCPType, SwitchTypes
    <2>2. CASE c.what = "get" /\ block = "assistants"
      <3>1. r = RenderMCP(page, Shows(c.view.s))
        BY <1>1, <2>2 DEF RenderedBlock, LoadOf, CallOK
      <3> HIDE DEF r
      <3> QED
        BY <2>2, <3>1, <1>1, <1>2, RenderMCPType, SwitchTypes
    <2>3. CASE c.what = "engine"
      <3>1. r = page
        BY <1>1, <2>3 DEF RenderedBlock, LoadOf
      <3>2. block = "engines"
        BY <1>1, <2>3 DEF CallOK
      <3> HIDE DEF r
      <3> QED
        BY <2>3, <3>1, <3>2, <1>1
    <2>4. CASE c.what = "get" /\ block = "engines"
      <3>1. r = [page EXCEPT !.engines = c.view.s.engines] /\ c.view.s.engines \in [Engines -> BOOLEAN]
        BY <1>1, <1>2, <2>4 DEF RenderedBlock, LoadOf, CallOK, SrvStates
      <3> HIDE DEF r
      <3> QED
        BY <2>4, <3>1, <1>1 DEF Pages
    <2>5. CASE c.what = "form"
      <3>1. r = [page EXCEPT !.touched = {}]
        BY <1>1, <2>5 DEF RenderedBlock, LoadOf
      <3>2. block = "ban"
        BY <1>1, <2>5 DEF CallOK
      <3> HIDE DEF r
      <3> QED
        BY <2>5, <3>1, <3>2, <1>1 DEF Pages
    <2>6. CASE c.what = "get" /\ block = "ban"
      <3> DEFINE q == [page EXCEPT !.form = c.view.s.form]
      <3>1. r = [q EXCEPT !.touched = {}] /\ c.view.s.form \in Forms
        BY <1>1, <1>2, <2>6 DEF RenderedBlock, LoadOf, CallOK, SrvStates
      <3>2. q \in Pages /\ q.form = c.view.s.form /\ q.mcp = page.mcp /\ q.engines = page.engines
            /\ q.token = page.token /\ q.ver = page.ver
        BY <1>1, <3>1 DEF Pages
      <3> HIDE DEF r, q
      <3> QED
        BY <2>6, <3>1, <3>2 DEF Pages
    <2>7. c.what \in {"get", "mcp", "engine", "form"}
      BY <1>1 DEF CallOK
    <2> HIDE DEF r
    <2> QED
      BY <1>1, <2>1, <2>2, <2>3, <2>4, <2>5, <2>6, <2>7
  <1>4. page' = [r EXCEPT !.ver = IF c.what \in {"engine", "form"} THEN @ ELSE c.view.s.ver]
    BY DEF Deliver
  <1>5. c.view.s.ver \in Nat /\ Shows(c.view.s) # None
        /\ Shows(c.view.s).on = c.view.s.on /\ Shows(c.view.s).act = c.view.s.act
    BY <1>2, SwitchTypes DEF SrvStates, Shows
  <1> HIDE DEF r
  <1>6. page' \in Pages /\ page'.ver = IF c.what \in {"engine", "form"} THEN page.ver ELSE c.view.s.ver
    BY <1>3, <1>4, <1>5 DEF Pages
  <1>7. /\ page'.mcp = r.mcp /\ page'.on = r.on /\ page'.act = r.act /\ page'.token = r.token
        /\ page'.engines = r.engines /\ page'.form = r.form /\ page'.touched = r.touched
    BY <1>3, <1>4 DEF Pages
  <1> QED
    BY <1>2, <1>3, <1>5, <1>6, <1>7

\* What a request that failed leaves of the block.
LEMMA NotDonePage ==
    ASSUME SettingsTypes, NEW c \in calls, NotDone(c)
    PROVE  /\ page' \in Pages /\ page'.mcp = page.mcp /\ page'.ver = page.ver /\ page'.token = page.token
           /\ page'.form = page.form /\ page'.touched = page.touched
           /\ block # "engines" => page'.engines = page.engines
           /\ block = "assistants" =>
                IF c.what = "mcp" THEN page'.on = page.mcp.on /\ page'.act = page.mcp.act ELSE page' = page
  <1>1. CallOK(block, c) /\ page \in Pages /\ block \in {"assistants", "engines", "ban"}
        /\ (c.what = "mcp" => page.mcp \in Switches)
    BY SettingsAssumption DEF SettingsTypes, CallsOK, PageOK, PlaceOK, NotDone, Pages
  <1>2. CASE c.what = "mcp"
    <2>1. page' = RenderMCP(page, page.mcp) /\ block = "assistants"
      BY <1>1, <1>2 DEF NotDone, LoadOf, CallOK
    <2> QED
      BY <1>1, <1>2, <2>1, RenderMCPType
  <1>3. CASE c.what = "engine" /\ c.attached /\ page.engines # None
    <2>1. page' = [page EXCEPT !.engines[c.name] = ~c.val]
      BY <1>3 DEF NotDone, LoadOf
    <2>2. block = "engines" /\ c.val \in BOOLEAN /\ page.engines \in [Engines -> BOOLEAN]
      BY <1>1, <1>3 DEF CallOK, Pages
    <2>3. [page.engines EXCEPT ![c.name] = ~c.val] \in [Engines -> BOOLEAN]
      BY <2>2
    <2>4. page' = [page EXCEPT !.engines = [page.engines EXCEPT ![c.name] = ~c.val]]
      BY <2>1
    <2> QED
      BY <1>1, <2>2, <2>3, <2>4 DEF Pages
  <1>4. CASE LoadOf("engines", c)
    <2>1. page' = [page EXCEPT !.engines = None] /\ block = "engines"
      BY <1>1, <1>4 DEF NotDone, LoadOf, CallOK
    <2> QED
      BY <1>1, <2>1 DEF Pages
  <1>5. CASE ~(c.what = "mcp" \/ (c.what = "engine" /\ c.attached /\ page.engines # None) \/ LoadOf("engines", c))
    <2>1. page' = page
      BY <1>5 DEF NotDone
    <2> QED
      BY <1>1, <1>5, <2>1
  <1> QED
    BY <1>2, <1>3, <1>4, <1>5

LEMMA DeliverTypes ==
    ASSUME SettingsTypes, NEW c \in calls, Deliver(c) \/ NotDone(c)
    PROVE  /\ PageOK' /\ CallsOK' /\ Remains(c) /\ UNCHANGED block
           /\ (c.what = "engine" /\ here) \/ (c.what = "form" /\ Deliver(c)) => Reloaded
  <1>0. CallsOK /\ PageOK /\ UNCHANGED <<block, srv>>
    BY DEF SettingsTypes, Deliver, NotDone, rest_vars
  <1>1. CASE Deliver(c)
    <2>1. Remains(c) /\ ((c.what = "engine" /\ here) \/ (c.what = "form" /\ TRUE) => Reloaded)
      BY <1>0, <1>1, RemainsAfter DEF Deliver
    <2>2. page'.mcp = page.mcp \/ page'.mcp # None
      BY <1>1, DeliveredPage, Zenon
    <2>3. PageOK'
      BY <1>0, <1>1, DeliveredPage DEF PageOK
    <2> QED
      BY <1>0, <2>1, <2>2, <2>3, RemainsOK
  <1>2. CASE NotDone(c) /\ ~Deliver(c)
    <2>1. Remains(c) /\ ((c.what = "engine" /\ here) \/ (c.what = "form" /\ FALSE) => Reloaded)
      BY <1>0, <1>2, RemainsAfter DEF NotDone
    <2>2. page'.mcp = page.mcp
      BY <1>2, NotDonePage, Zenon
    <2>3. PageOK'
      BY <1>0, <1>2, NotDonePage DEF PageOK
    <2> QED
      BY <1>0, <1>2, <2>1, <2>2, <2>3, RemainsOK
  <1> QED
    BY <1>1, <1>2


\* What the operator, the answers and the process that is updated leave alone.
LEMMA OperatorLeaves ==
    ASSUME SettingsOperator
    PROVE  /\ UNCHANGED <<block, srv, host, upd, follow, leaving, verdict>>
           /\ here' \in {here, TRUE, FALSE}
  <1>1. CASE LoadSettings
    BY <1>1 DEF LoadSettings, update_vars
  <1>2. CASE Leave
    BY <1>2 DEF Leave, update_vars
  <1>3. CASE Confirmed
    BY <1>3 DEF Confirmed, update_vars, rest_vars
  <1>4. CASE \E field \in {"on", "act"} : SaveMCP(field)
    BY <1>4 DEF SaveMCP, update_vars, rest_vars
  <1>5. CASE NewMCPToken
    BY <1>5 DEF NewMCPToken, update_vars, rest_vars
  <1>6. CASE \E e \in Engines : SwitchEngine(e)
    BY <1>6 DEF SwitchEngine, update_vars, rest_vars
  <1>7. CASE EditForm
    BY <1>7 DEF EditForm, update_vars, rest_vars
  <1>8. CASE SaveSettings
    BY <1>8 DEF SaveSettings, update_vars, rest_vars
  <1>9. CASE ApplyUpdate
    BY <1>9 DEF ApplyUpdate, update_vars, rest_vars
  <1>10. CASE RollbackUpdate
    BY <1>10 DEF RollbackUpdate, update_vars, rest_vars
  <1> QED
    BY <1>1, <1>2, <1>3, <1>4, <1>5, <1>6, <1>7, <1>8, <1>9, <1>10 DEF SettingsOperator

LEMMA HandlersLeave ==
    ASSUME NEW c, Read(c) \/ Save(c) \/ View(c)
    PROVE  UNCHANGED <<block, here, page, confirm, host, upd, follow, leaving, verdict>>
  <1>1. CASE Read(c)
    BY <1>1 DEF Read, update_vars, rest_vars
  <1>2. CASE Save(c)
    BY <1>2 DEF Save, update_vars, rest_vars
  <1>3. CASE View(c)
    BY <1>3 DEF View, update_vars, rest_vars
  <1> QED
    BY <1>1, <1>2, <1>3

LEMMA BlockLeaves ==
    ASSUME NEW c, Deliver(c) \/ NotDone(c)
    PROVE  UNCHANGED <<block, here, srv, confirm, host, upd, follow, leaving, verdict>> /\ block # "update"
  <1>1. CASE Deliver(c)
    BY <1>1 DEF Deliver, update_vars, rest_vars
  <1>2. CASE NotDone(c)
    BY <1>2 DEF NotDone, update_vars, rest_vars
  <1> QED
    BY <1>1, <1>2

\* What happens to the update leaves the settings alone.
UpdateOnly ==
    \/ \E c \in calls : Serve(c) \/ Updated(c) \/ NotUpdated(c) \/ PollAnswered(c) \/ PollFailed(c)
    \/ \E f \in FollowSlots : PollUpdate(f) \/ Late(f) \/ Over(f)
    \/ Install \/ Restart \/ Boot
LEMMA UpdateLeaves ==
    ASSUME UpdateOnly
    PROVE  UNCHANGED <<block, here, srv, page, confirm, fate>>
  <1>1. ASSUME NEW c, Serve(c) \/ Updated(c)
        PROVE  UNCHANGED <<block, here, srv, page, confirm, fate>>
    BY <1>1 DEF Serve, Updated, rest_vars
  <1>2. ASSUME NEW c, NotUpdated(c)
        PROVE  UNCHANGED <<block, here, srv, page, confirm, fate>>
    BY <1>2 DEF NotUpdated, rest_vars
  <1>3. ASSUME NEW c, PollAnswered(c) \/ PollFailed(c)
        PROVE  UNCHANGED <<block, here, srv, page, confirm, fate>>
    BY <1>3 DEF PollAnswered, PollFailed, rest_vars
  <1>4. ASSUME NEW f, PollUpdate(f) \/ Late(f) \/ Over(f)
        PROVE  UNCHANGED <<block, here, srv, page, confirm, fate>>
    BY <1>4 DEF PollUpdate, Late, Over, rest_vars
  <1>5. CASE Install \/ Restart \/ Boot
    BY <1>5 DEF Install, Restart, Boot, rest_vars
  <1> QED
    BY <1>1, <1>2, <1>3, <1>4, <1>5 DEF UpdateOnly

\* The ways a step of the settings goes.
LEMMA SettingsCases ==
    ASSUME SettingsNext
    PROVE  \/ SettingsOperator \/ UpdateOnly \/ Reload
           \/ \E c \in calls : Read(c) \/ Save(c) \/ View(c) \/ Deliver(c) \/ NotDone(c)
  BY DEF SettingsNext, UpdateOnly, Answered, Polled

LEMMA PlaceStep ==
    ASSUME SettingsTypes, SettingsNext
    PROVE  PlaceOK' /\ UNCHANGED block
  <1>0. PlaceOK
    BY DEF SettingsTypes
  <1>1. ASSUME UNCHANGED <<block, leaving, follow>>, here' \in {here, TRUE, FALSE}
        PROVE  PlaceOK' /\ UNCHANGED block
    BY <1>0, <1>1 DEF PlaceOK
  <1>2. CASE SettingsOperator
    BY <1>1, <1>2, OperatorLeaves
  <1>3. ASSUME NEW c \in calls, Read(c) \/ Save(c) \/ View(c) \/ Deliver(c) \/ NotDone(c)
        PROVE  PlaceOK' /\ UNCHANGED block
    BY <1>1, <1>3, HandlersLeave, BlockLeaves
  <1>4. CASE UpdateOnly
    <2>1. UNCHANGED <<block, here>>
      BY <1>4, UpdateLeaves
    <2>2. CASE UNCHANGED <<leaving, follow>>
      BY <1>1, <2>1, <2>2
    <2>3. ASSUME block = "update", leaving' \in {leaving, TRUE}
          PROVE  PlaceOK' /\ UNCHANGED block
      BY <1>0, <2>1, <2>3 DEF PlaceOK
    <2>4. ASSUME NEW c \in calls, PollAnswered(c) \/ PollFailed(c) \/ Updated(c)
          PROVE  block = "update" /\ leaving' \in {leaving, TRUE}
      <3>1. block = "update"
        BY <2>4 DEF SettingsTypes, CallsOK, CallOK, PollAnswered, PollFailed, Updated
      <3> QED
        BY <2>4, <3>1 DEF PollAnswered, PollFailed, Updated
    <2>5. ASSUME NEW f \in FollowSlots, PollUpdate(f) \/ Late(f) \/ Over(f)
          PROVE  block = "update" /\ leaving' = leaving
      BY <1>0, <2>5 DEF PlaceOK, PollUpdate, Late, Over
    <2>6. ASSUME NEW c \in calls, Serve(c) \/ NotUpdated(c)
          PROVE  UNCHANGED <<leaving, follow>>
      BY <2>6 DEF Serve, NotUpdated, update_vars
    <2>7. ASSUME Install \/ Restart \/ Boot
          PROVE  UNCHANGED <<leaving, follow>>
      BY <2>7 DEF Install, Restart, Boot
    <2> QED
      BY <1>4, <2>2, <2>3, <2>4, <2>5, <2>6, <2>7 DEF UpdateOnly
  <1>5. CASE Reload
    BY <1>0, <1>5 DEF PlaceOK, Reload, rest_vars
  <1> QED
    BY <1>2, <1>3, <1>4, <1>5, SettingsCases

LEMMA StartedType ==
    ASSUME host \in Hosts, NEW c, CallOK(block, c), ~Refused(c)
    PROVE  Started(c) \in Hosts /\ Started(c).boots = host.boots /\ Started(c).up = host.up
  <1>1. host.running \in 0..Newest /\ Newest \in 0..Newest /\ Newest \in Nat
    BY SettingsAssumption DEF Hosts
  <1>2. CASE c.what = "apply"
    <2> DEFINE h == [host EXCEPT !.phase = "installing"]
    <2>1. Started(c) = [h EXCEPT !.next = {host.running, Newest}]
      BY <1>2 DEF Started, CallOK
    <2>2. h \in Hosts /\ h.boots = host.boots /\ h.up = host.up /\ {host.running, Newest} \in SUBSET (0..Newest)
      BY <1>1 DEF Hosts
    <2> HIDE DEF h
    <2> QED
      BY <2>1, <2>2 DEF Hosts
  <1>3. CASE c.what = "rollback"
    <2> DEFINE h == [host EXCEPT !.phase = "restarting"]
    <2>1. Started(c) = [h EXCEPT !.next = {host.running - 1}]
      BY <1>3 DEF Started
    <2>2. {host.running - 1} \in SUBSET (0..Newest)
      BY <1>1, <1>3 DEF Refused
    <2>3. h \in Hosts /\ h.boots = host.boots /\ h.up = host.up
      BY <1>1 DEF Hosts
    <2> HIDE DEF h
    <2> QED
      BY <2>1, <2>2, <2>3 DEF Hosts
  <1>4. CASE c.what \notin {"apply", "rollback"}
    BY <1>4 DEF Started
  <1> QED
    BY <1>2, <1>3, <1>4

LEMMA HostStep ==
    ASSUME SettingsTypes, SettingsNext
    PROVE  host' \in Hosts /\ host.boots <= host'.boots
  <1>0. host \in Hosts /\ host.boots \in Nat
    BY DEF SettingsTypes, Hosts
  <1>1. CASE UNCHANGED host
    BY <1>0, <1>1
  <1>2. ASSUME NEW c \in calls, Serve(c)
        PROVE  host' \in Hosts /\ host.boots <= host'.boots
    <2>1. CallOK(block, c) /\ ~Refused(c) /\ host' = Started(c)
      BY <1>2 DEF Serve, SettingsTypes, CallsOK
    <2> QED
      BY <1>0, <2>1, StartedType
  <1>3. CASE Install
    <2>1. PICK ph \in {"restarting", "failed"} : host' = [host EXCEPT !.phase = ph]
      BY <1>3 DEF Install
    <2> QED
      BY <1>0, <2>1 DEF Hosts
  <1>4. CASE Restart
    <2>1. host' = [host EXCEPT !.up = FALSE]
      BY <1>4 DEF Restart
    <2>2. host' \in Hosts /\ host'.boots = host.boots
      BY <1>0, <2>1 DEF Hosts
    <2> QED
      BY <1>0, <2>2
  <1>5. CASE Boot
    <2>1. PICK v \in host.next :
            host' = [up |-> TRUE, running |-> v, phase |-> "idle", boots |-> host.boots + 1, next |-> {}]
      BY <1>5 DEF Boot
    <2> QED
      BY <1>0, <2>1 DEF Hosts
  <1>6. CASE UpdateOnly
    <2>1. ASSUME NEW c \in calls, Updated(c) \/ NotUpdated(c) \/ PollAnswered(c) \/ PollFailed(c)
          PROVE  UNCHANGED host
      BY <2>1 DEF Updated, NotUpdated, PollAnswered, PollFailed, update_vars
    <2>2. ASSUME NEW f \in FollowSlots, PollUpdate(f) \/ Late(f) \/ Over(f)
          PROVE  UNCHANGED host
      BY <2>2 DEF PollUpdate, Late, Over
    <2> QED
      BY <1>1, <1>2, <1>3, <1>4, <1>5, <1>6, <2>1, <2>2 DEF UpdateOnly
  <1>7. CASE Reload
    BY <1>1, <1>7 DEF Reload
  <1> QED
    BY <1>1, <1>6, <1>7, SettingsCases, OperatorLeaves, HandlersLeave, BlockLeaves

ChoiceTypes == PageOK /\ CallsOK /\ ConfirmOK

\* The operator works in one block, with what the page shows there.
LEMMA OperatorTypes ==
    ASSUME SettingsTypes, SettingsOperator
    PROVE  ChoiceTypes'
  <1>0. PageOK /\ CallsOK /\ ConfirmOK /\ UNCHANGED <<block, srv>> /\ page \in Pages
    BY OperatorLeaves DEF SettingsTypes, PageOK
  <1>1. CASE UNCHANGED <<page, confirm>> /\ \E c : Send(c) /\ CallOK(block, c) /\ c.base = None /\ c.what # "mcp"
    BY <1>0, <1>1, SendOK DEF ChoiceTypes, PageOK, ConfirmOK
  <1>2. CASE UNCHANGED <<page, calls>>
             /\ (confirm' # None => /\ confirm' \in Questions /\ (confirm'.what = "mcp" => page.mcp # None)
                                    /\ block = IF confirm'.what = "mcp" THEN "assistants" ELSE "update")
    BY <1>0, <1>2, CallsKept DEF ChoiceTypes, PageOK, ConfirmOK
  <1>3. CASE LoadSettings
    BY <1>1, <1>3, GetOK DEF LoadSettings, Get, Call
  <1>4. CASE Leave
    BY <1>0, <1>2, <1>4 DEF Leave
  <1>5. ASSUME NEW field \in {"on", "act"}, SaveMCP(field)
        PROVE  ChoiceTypes'
    <2> DEFINE c == Call("mcp", field, ~page[field])
    <2>1. page.mcp # None /\ block = "assistants" /\ (~page[field]) \in BOOLEAN
      BY <1>5 DEF SaveMCP, On
    <2>2. CallOK(block, c) /\ c.base = None /\ c.what = "mcp" /\ c \in Questions
      BY <2>1, <1>5 DEF CallOK, IsCall, Call, Questions, AskedAbout
    <2>3. page' = [page EXCEPT ![field] = ~page[field]]
      BY <1>5 DEF SaveMCP
    <2>4. page' \in Pages /\ page'.mcp = page.mcp /\ page'.engines = page.engines
      BY <1>0, <1>5, <2>1, <2>3 DEF Pages
    <2>5. PageOK'
      BY <1>0, <2>4 DEF PageOK
    <2>6. \/ confirm' = c /\ UNCHANGED calls
          \/ Send(c) /\ UNCHANGED confirm
      BY <1>5 DEF SaveMCP
    <2> HIDE DEF c
    <2>7. CallsOK'
      BY <1>0, <2>1, <2>2, <2>4, <2>6, SendOK, CallsKept
    <2>8. ConfirmOK'
      BY <1>0, <2>1, <2>2, <2>4, <2>6 DEF ConfirmOK
    <2> QED
      BY <2>5, <2>7, <2>8 DEF ChoiceTypes
  <1>6. CASE NewMCPToken
    <2>1. /\ UNCHANGED <<page, calls>> /\ confirm' = Call("mcp", "token", None)
          /\ page.mcp # None /\ block = "assistants"
      BY <1>6 DEF NewMCPToken, On
    <2>2. confirm' \in Questions /\ confirm'.what = "mcp"
      BY <2>1 DEF Call, Questions, AskedAbout
    <2> QED
      BY <1>2, <2>1, <2>2
  <1>7. ASSUME NEW e \in Engines, SwitchEngine(e)
        PROVE  ChoiceTypes'
    <2>1. block = "engines" /\ page.engines \in [Engines -> BOOLEAN]
      BY <1>0, <1>7 DEF SwitchEngine, On, Pages
    <2>2. page' = [page EXCEPT !.engines = [page.engines EXCEPT ![e] = ~page.engines[e]]]
      BY <1>7 DEF SwitchEngine
    <2>3. [page.engines EXCEPT ![e] = ~page.engines[e]] \in [Engines -> BOOLEAN]
      BY <2>1
    <2>4. page' \in Pages /\ page'.mcp = page.mcp
      BY <1>0, <2>2, <2>3 DEF Pages
    <2>5. PageOK'
      BY <1>0, <2>1, <2>4 DEF PageOK
    <2> DEFINE c == Call("engine", e, ~page.engines[e])
    <2>6. Send(c) /\ UNCHANGED confirm
      BY <1>7 DEF SwitchEngine
    <2>7. CallOK(block, c) /\ c.base = None /\ c.what # "mcp"
      BY <2>1 DEF CallOK, IsCall, Call
    <2> HIDE DEF c
    <2>8. CallsOK'
      BY <1>0, <2>4, <2>6, <2>7, SendOK
    <2> QED
      BY <1>0, <2>4, <2>5, <2>6, <2>8 DEF ChoiceTypes, ConfirmOK
  <1>8. CASE EditForm
    <2>1. UNCHANGED <<confirm, calls>> /\ block = "ban"
      BY <1>8 DEF EditForm, On
    <2>2. page.form \in Forms /\ page.form.threshold \in 0..MaxThreshold /\ MaxThreshold \in Nat \ {0}
      BY <1>0, SettingsAssumption DEF Pages, Forms
    <2>3. \E f \in Forms, t \in SUBSET {"enabled", "threshold"} : page' = [[page EXCEPT !.form = f] EXCEPT !.touched = t]
      <3>1. CASE page' = [page EXCEPT !.form.enabled = ~@, !.touched = @ \cup {"enabled"}]
        <4> DEFINE f == [page.form EXCEPT !.enabled = ~@]
        <4>1. f \in Forms /\ page.touched \cup {"enabled"} \in SUBSET {"enabled", "threshold"}
          BY <1>0, <2>2 DEF Forms, Pages
        <4>2. page' = [[page EXCEPT !.form = f] EXCEPT !.touched = page.touched \cup {"enabled"}]
          BY <1>0, <3>1 DEF Pages
        <4> HIDE DEF f
        <4> QED
          BY <4>1, <4>2
      <3>2. ASSUME NEW d \in {-1, 1}, page.form.threshold + d <= MaxThreshold,
                   page' = [page EXCEPT !.form.threshold = Stepped(@, d), !.touched = @ \cup {"threshold"}]
            PROVE  \E f \in Forms, t \in SUBSET {"enabled", "threshold"} :
                      page' = [[page EXCEPT !.form = f] EXCEPT !.touched = t]
        <4> DEFINE n == Stepped(page.form.threshold, d)
                   f == [page.form EXCEPT !.threshold = n]
        <4>1. n \in 0..MaxThreshold
          BY <2>2, <3>2 DEF Stepped
        <4>2. f \in Forms /\ page.touched \cup {"threshold"} \in SUBSET {"enabled", "threshold"}
          BY <1>0, <2>2, <4>1 DEF Forms, Pages
        <4>3. page' = [[page EXCEPT !.form = f] EXCEPT !.touched = page.touched \cup {"threshold"}]
          BY <1>0, <3>2 DEF Pages
        <4> HIDE DEF f
        <4> QED
          BY <4>2, <4>3
      <3> QED
        BY <1>8, <3>1, <3>2 DEF EditForm
    <2>4. PICK f \in Forms, t \in SUBSET {"enabled", "threshold"} : page' = [[page EXCEPT !.form = f] EXCEPT !.touched = t]
      BY <2>3
    <2>5. page' \in Pages /\ page'.mcp = page.mcp /\ page'.engines = page.engines
      BY <1>0, <2>4 DEF Pages
    <2> QED
      BY <1>0, <2>1, <2>5, CallsKept DEF ChoiceTypes, PageOK, ConfirmOK
  <1>9. CASE SaveSettings
    <2>1. Send(Call("form", None, page.form)) /\ block = "ban" /\ page.form \in Forms /\ UNCHANGED <<page, confirm>>
      BY <1>0, <1>9 DEF SaveSettings, On, Pages
    <2>2. /\ CallOK(block, Call("form", None, page.form))
          /\ Call("form", None, page.form).base = None /\ Call("form", None, page.form).what # "mcp"
      BY <2>1 DEF CallOK, IsCall, Call
    <2> QED
      BY <1>1, <2>1, <2>2
  <1>10. CASE ApplyUpdate \/ RollbackUpdate
    <2>1. /\ UNCHANGED <<page, calls>> /\ block = "update"
          /\ confirm' \in {Call("apply", None, Newest), Call("rollback", None, None)}
      BY <1>10 DEF ApplyUpdate, RollbackUpdate, On
    <2>2. /\ Call("apply", None, Newest) \in Questions /\ Call("apply", None, Newest).what # "mcp"
          /\ Call("rollback", None, None) \in Questions /\ Call("rollback", None, None).what # "mcp"
      BY DEF Call, Questions, AskedAbout
    <2>3. confirm' \in Questions /\ confirm'.what # "mcp"
      BY <2>1, <2>2
    <2> QED
      BY <1>2, <2>1, <2>3
  <1>11. CASE Confirmed
    <2>1. confirm # None /\ confirm' = None /\ CallOK(block, confirm) /\ confirm.base = None
          /\ (confirm.what = "mcp" => page.mcp # None)
      BY <1>0, <1>11, QuestionOK DEF Confirmed, ConfirmOK
    <2>2. CASE Send(confirm) /\ UNCHANGED page
      BY <1>0, <2>1, <2>2, SendOK DEF ChoiceTypes, PageOK, ConfirmOK
    <2>3. CASE UNCHANGED calls /\ page' \in {page, [page EXCEPT !.act = FALSE]}
      <3>1. page' \in Pages /\ page'.mcp = page.mcp /\ page'.engines = page.engines
        BY <1>0, <2>3 DEF Pages
      <3> QED
        BY <1>0, <2>1, <2>3, <3>1, CallsKept DEF ChoiceTypes, PageOK, ConfirmOK
    <2> QED
      BY <1>11, <2>2, <2>3 DEF Confirmed
  <1> QED
    BY <1>3, <1>4, <1>5, <1>6, <1>7, <1>8, <1>9, <1>10, <1>11 DEF SettingsOperator

\* A handler answers one request, or reads for it.
LEMMA SaveSrv ==
    ASSUME SettingsTypes, NEW c \in calls, Save(c)
    PROVE  /\ srv' \in SrvStates /\ srv'.token <= srv'.made /\ srv.made <= srv'.made
           /\ srv'.ver = srv.ver + 1 /\ srv'.token = Changed(c).token /\ srv'.made = Changed(c).made
           /\ srv'.on = Changed(c).on /\ srv'.act = Changed(c).act
           /\ srv'.engines = Changed(c).engines /\ srv'.form = Changed(c).form
  <1>1. /\ Changed(c) \in SrvStates /\ Changed(c).token <= Changed(c).made /\ srv.made <= Changed(c).made
    BY ChangedOK DEF Save
  <1>2. srv' = [Changed(c) EXCEPT !.ver = srv.ver + 1] /\ srv.ver + 1 \in Nat
    BY DEF Save, SettingsTypes, SrvStates
  <1> QED
    BY <1>1, <1>2 DEF SrvStates

\* How a handler leaves the request: with the settings it read, or with its answer.
LEMMA HandledCall ==
    ASSUME SettingsTypes, NEW c \in calls, Read(c) \/ Save(c) \/ View(c)
    PROVE  \E d : /\ calls' = (calls \ {c}) \cup {d} /\ CallOK(block, d)
                  /\ d.what = c.what /\ d.name = c.name /\ d.val = c.val
                  /\ Read(c) => d.base = srv /\ d.view = c.view /\ c.what = "mcp"
                  /\ ~Read(c) => /\ d.base = c.base /\ d.view # None /\ d.view \in Snapshots /\ d.view.s = srv'
                                 /\ d.view.token = IF srv'.made # srv.made THEN srv'.made ELSE 0
  <1>1. CallOK(block, c) /\ srv \in SrvStates /\ IsCall(c)
    BY DEF SettingsTypes, CallsOK, CallOK
  <1>2. CASE Read(c)
    <2>1. /\ calls' = (calls \ {c}) \cup {[c EXCEPT !.base = srv]} /\ CallOK(block, [c EXCEPT !.base = srv])
          /\ c.what = "mcp"
      BY <1>1, <1>2, CallSetOK DEF Read
    <2>2. PICK d : d = [c EXCEPT !.base = srv]
      OBVIOUS
    <2>3. d.what = c.what /\ d.name = c.name /\ d.val = c.val /\ d.base = srv /\ d.view = c.view
      BY <1>1, <2>2, CallSet
    <2> QED
      BY <1>2, <2>1, <2>2, <2>3
  <1>3. CASE ~Read(c)
    <2> DEFINE v == [s |-> srv', token |-> IF srv'.made # srv.made THEN srv'.made ELSE 0]
    <2>1. block # "update"
      BY <1>1, <1>3 DEF Save, View, IsSetting, CallOK
    <2>2. srv' \in SrvStates
      BY <1>1, <1>3, SaveSrv DEF View
    <2>3. v \in Snapshots /\ v # None
      BY <2>2, NoneAssumption DEF Snapshots, SrvStates
    <2>4. calls' = (calls \ {c}) \cup {[c EXCEPT !.view = v]}
      BY <1>3 DEF Save, View, AnswerWith
    <2>5. CallOK(block, [c EXCEPT !.view = v])
      BY <1>1, <2>1, <2>3, CallSetOK
    <2>6. v.s = srv' /\ v.token = IF srv'.made # srv.made THEN srv'.made ELSE 0
      OBVIOUS
    <2> HIDE DEF v
    <2>7. PICK d : d = [c EXCEPT !.view = v]
      OBVIOUS
    <2>8. d.what = c.what /\ d.name = c.name /\ d.val = c.val /\ d.base = c.base /\ d.view = v
      BY <1>1, <2>7, CallSet
    <2> QED
      BY <1>3, <2>3, <2>4, <2>5, <2>6, <2>7, <2>8
  <1> QED
    BY <1>2, <1>3

LEMMA HandlerTypes ==
    ASSUME SettingsTypes, NEW c \in calls, Read(c) \/ Save(c) \/ View(c)
    PROVE  srv' \in SrvStates /\ srv'.token <= srv'.made /\ ChoiceTypes'
  <1>0. PageOK /\ CallsOK /\ ConfirmOK /\ srv \in SrvStates /\ UNCHANGED <<block, page, confirm>> /\ CallOK(block, c)
        /\ srv.token <= srv.made
    BY HandlersLeave DEF SettingsTypes, CallsOK
  <1>1. srv' \in SrvStates /\ srv'.token <= srv'.made /\ srv.made <= srv'.made
    <2>1. CASE Save(c)
      BY <2>1, SaveSrv
    <2>2. CASE UNCHANGED srv
      BY <1>0, <2>2 DEF SrvStates
    <2> QED
      BY <2>1, <2>2 DEF Read, View
  <1>2. PICK d : /\ calls' = (calls \ {c}) \cup {d} /\ CallOK(block, d) /\ d.what = c.what
                 /\ d.base = c.base \/ d.base = srv
    BY HandledCall
  <1>3. srv.made \in Nat /\ srv'.made \in Nat /\ srv.token \in Nat
    BY <1>0, <1>1 DEF SrvStates
  <1>4. d.base # None => d.base.token <= srv'.made
    <2>1. CASE d.base = srv
      BY <1>0, <1>1, <1>3, <2>1
    <2>2. CASE d.base = c.base /\ c.base # None
      <3>1. c.base.token <= srv.made
        BY <2>2, <1>0 DEF CallsOK
      <3>2. c.base.token \in Nat
        BY <2>2, <1>0 DEF CallOK, SrvStates
      <3> QED
        BY <1>1, <1>3, <2>2, <3>1, <3>2
    <2> QED
      BY <1>2, <2>1, <2>2
  <1>5. CallsOK'
    BY <1>0, <1>1, <1>2, <1>3, <1>4, OneCallOK
  <1> QED
    BY <1>0, <1>1, <1>5 DEF ChoiceTypes, PageOK, ConfirmOK

LEMMA ReportType ==
    ASSUME NEW h \in Hosts
    PROVE  Report(h) \in Reports /\ Report(h) # None
  <1>1. Report(h) \in Reports
    BY DEF Report, Hosts, Reports
  <1> QED
    BY <1>1, NoneAssumption

\* The request of a served update, and the report it is answered with.
LEMMA ServedCall ==
    ASSUME SettingsTypes, NEW c \in calls, Serve(c)
    PROVE  \E d : /\ calls' = (calls \ {c}) \cup {d} /\ CallOK(block, d)
                  /\ d.what = c.what /\ d.name = c.name /\ d.val = c.val /\ d.base = c.base
                  /\ d.view = Report(host') /\ d.view # None
  <1>1. CallOK(block, c) /\ IsCall(c) /\ block = "update" /\ host' \in Hosts
    BY StartedType DEF SettingsTypes, CallsOK, CallOK, Serve
  <1>2. calls' = (calls \ {c}) \cup {[c EXCEPT !.view = Report(host')]}
    BY DEF Serve
  <1>3. Report(host') \in Reports /\ Report(host') # None
    BY <1>1, ReportType
  <1>4. PICK v : v = Report(host')
    OBVIOUS
  <1>5. CallOK(block, [c EXCEPT !.view = v])
    BY <1>1, <1>3, <1>4, CallSetOK
  <1>6. PICK d : d = [c EXCEPT !.view = v]
    OBVIOUS
  <1>7. d.what = c.what /\ d.name = c.name /\ d.val = c.val /\ d.base = c.base /\ d.view = v
    BY <1>1, <1>6, CallSet
  <1> QED
    BY <1>2, <1>3, <1>4, <1>5, <1>6, <1>7

LEMMA UpdateTypes ==
    ASSUME SettingsTypes, UpdateOnly
    PROVE  ChoiceTypes'
  <1>0. PageOK /\ CallsOK /\ ConfirmOK /\ srv \in SrvStates /\ UNCHANGED <<block, page, confirm, srv>>
    BY UpdateLeaves DEF SettingsTypes
  <1>1. CallsOK'
    <2>1. ASSUME NEW c \in calls, Serve(c)
          PROVE  CallsOK'
      <3>1. PICK d : /\ calls' = (calls \ {c}) \cup {d} /\ CallOK(block, d) /\ d.what = c.what /\ d.base = c.base
        BY <2>1, ServedCall
      <3>2. CallOK(block, c) /\ (c.base # None => c.base.token <= srv.made) /\ srv.made \in Nat
        BY <1>0 DEF CallsOK, SrvStates
      <3> QED
        BY <1>0, <3>1, <3>2, OneCallOK
    <2>2. ASSUME NEW c \in calls, Updated(c) \/ NotUpdated(c) \/ PollAnswered(c) \/ PollFailed(c)
          PROVE  CallsOK'
      <3>1. calls' \subseteq calls
        BY <2>2 DEF Updated, NotUpdated, PollAnswered, PollFailed
      <3> QED
        BY <1>0, <3>1, CallsKept
    <2>3. ASSUME NEW f \in FollowSlots, PollUpdate(f)
          PROVE  CallsOK'
      <3>1. block = "update"
        BY <2>3 DEF PollUpdate, SettingsTypes, PlaceOK
      <3> QED
        BY <1>0, <2>3, <3>1, SendOK DEF PollUpdate, CallOK, IsCall, Call
    <2>4. CASE Install \/ Restart \/ Boot \/ \E f \in FollowSlots : Late(f) \/ Over(f)
      <3>1. UNCHANGED calls
        BY <2>4 DEF Install, Restart, Boot, Late, Over
      <3> QED
        BY <1>0, <3>1, CallsKept
    <2> QED
      BY <2>1, <2>2, <2>3, <2>4 DEF UpdateOnly
  <1> QED
    BY <1>0, <1>1 DEF ChoiceTypes, PageOK, ConfirmOK

LEMMA TypesStep ==
    ASSUME SettingsTypes, SettingsNext
    PROVE  SettingsTypes'
  <1>1. PlaceOK' /\ host' \in Hosts /\ UNCHANGED block
    BY PlaceStep, HostStep
  <1> SUFFICES srv' \in SrvStates /\ srv'.token <= srv'.made /\ ChoiceTypes'
    BY <1>1 DEF SettingsTypes, ChoiceTypes
  <1>0. srv \in SrvStates /\ srv.token <= srv.made /\ ConfirmOK
    BY DEF SettingsTypes
  <1>2. CASE SettingsOperator
    BY <1>0, <1>2, OperatorTypes, OperatorLeaves
  <1>3. CASE UpdateOnly
    BY <1>0, <1>3, UpdateTypes, UpdateLeaves
  <1>4. ASSUME NEW c \in calls, Read(c) \/ Save(c) \/ View(c)
        PROVE  srv' \in SrvStates /\ srv'.token <= srv'.made /\ ChoiceTypes'
    BY <1>4, HandlerTypes
  <1>5. ASSUME NEW c \in calls, Deliver(c) \/ NotDone(c)
        PROVE  srv' \in SrvStates /\ srv'.token <= srv'.made /\ ChoiceTypes'
    <2>1. UNCHANGED <<block, srv, confirm>> /\ PageOK' /\ CallsOK'
      BY <1>5, BlockLeaves, DeliverTypes
    <2>2. block = "assistants" => page'.mcp = page.mcp \/ page'.mcp # None
      BY <1>5, DeliveredPage, NotDonePage, Zenon
    <2>3. ConfirmOK'
      BY <1>0, <2>1, <2>2 DEF ConfirmOK
    <2> QED
      BY <1>0, <2>1, <2>3 DEF ChoiceTypes
  <1>6. CASE Reload
    <2>1. /\ page' = Unloaded /\ confirm' = None /\ calls' \in {{}, {Get(block)}}
          /\ UNCHANGED <<block, srv>>
      BY <1>6 DEF Reload, rest_vars
    <2>2. Unloaded \in Pages /\ Unloaded.mcp = None /\ Unloaded.engines = None
      BY SettingsAssumption DEF Unloaded, Pages, Forms
    <2>3. PageOK' /\ ConfirmOK'
      BY <2>1, <2>2 DEF PageOK, ConfirmOK
    <2>4. CallOK(block, Get(block)) /\ Get(block).what # "mcp" /\ Get(block).base = None
      BY GetOK DEF Get, Call
    <2>5. CallsOK'
      BY <2>1, <2>4 DEF CallsOK
    <2> QED
      BY <1>0, <2>1, <2>3, <2>5 DEF ChoiceTypes
  <1> QED
    BY <1>2, <1>3, <1>4, <1>5, <1>6, SettingsCases

LEMMA TypesInit == SettingsInit => SettingsTypes
  <1> SUFFICES ASSUME SettingsInit PROVE SettingsTypes
    OBVIOUS
  <1>1. PlaceOK
    BY DEF SettingsInit, PlaceOK
  <1>2. srv \in SrvStates /\ srv.token <= srv.made
    <2>1. 1 \in 0..MaxThreshold
      BY SettingsAssumption
    <2> QED
      BY <2>1 DEF SettingsInit, SrvStates, Forms
  <1>3. PageOK
    <2>1. page = Unloaded
      BY DEF SettingsInit
    <2>2. Unloaded \in Pages /\ Unloaded.mcp = None /\ Unloaded.engines = None
      BY SettingsAssumption DEF Unloaded, Pages, Forms
    <2> QED
      BY <2>1, <2>2 DEF PageOK
  <1>4. CallsOK
    <2>1. CallOK(block, Get(block)) /\ Get(block).what # "mcp" /\ Get(block).base = None
      BY GetOK DEF Get, Call
    <2> QED
      BY <2>1 DEF SettingsInit, CallsOK
  <1>5. ConfirmOK /\ host \in Hosts
    BY SettingsAssumption DEF SettingsInit, ConfirmOK, Hosts
  <1> QED
    BY <1>1, <1>2, <1>3, <1>4, <1>5 DEF SettingsTypes

-----------------------------------------------------------------------------
(* What the settings screen says.                                          *)

Got(c) == c.view # None
\* What was read of the settings: older than what the server has, or just that.
Seen(s) == s.ver <= srv.ver /\ (s.ver = srv.ver => s = srv)
SeenInv ==
    /\ \A c \in calls : /\ Got(c) => Seen(c.view.s) /\ c.view.token <= srv.made
                        /\ c.base # None => Seen(c.base)
    /\ page.ver <= srv.ver /\ page.token <= srv.made
    /\ page.mcp # None /\ page.ver = srv.ver => page.mcp = Shows(srv)

\* An answer with what the server has is on its way, or a load that will bring it.
Newer == \E c \in calls : Got(c) /\ c.what \in {"get", "mcp"} /\ c.view.s.ver = srv.ver
Fresh == \E c \in calls : c.what = "get" /\ ~Got(c)

SwitchInv ==
    (\A c \in calls : c.what # "mcp") /\ page.mcp # None =>
        /\ page.on = page.mcp.on
        /\ (confirm # None => confirm.name # "act") => page.act = page.mcp.act
AssistantsInv == block = "assistants" => (page.ver = srv.ver \/ Newer) /\ SwitchInv
EnginesInv ==
    block = "engines" /\ here =>
        \/ \E c \in calls : c.what = "engine"
        \/ Fresh \/ Newer
        \/ page.ver = srv.ver /\ (page.engines # None => page.engines = srv.engines)
BanInv ==
    block = "ban" =>
        \/ \E c \in calls : c.what = "form" /\ Got(c)
        \/ Fresh \/ Newer
        \/ page.ver = srv.ver /\ (page.touched = {} => page.form = srv.form)

\* The newest token is on the page or in the answer that brings it, which is newer
\* than the answer with any other token.
TokenOf(c) == IF Got(c) THEN c.view.token ELSE 0
TokensInv ==
    /\ srv.token = 0 => page.token = 0 /\ \A c \in calls : TokenOf(c) = 0
    /\ srv.token # 0 => page.token = srv.token \/ \E c \in calls : TokenOf(c) = srv.token
    /\ \A d \in calls : TokenOf(d) \notin {0, srv.token} =>
           /\ page.token = srv.token => d.view.s.ver < page.ver
           /\ \A c \in calls : TokenOf(c) # 0 /\ TokenOf(c) = srv.token => d.view.s.ver < c.view.s.ver
    /\ \A d \in calls : TokenOf(d) # 0 => d.what = "mcp"

SaidInv == fate = {} => AssistantsInv /\ EnginesInv /\ BanInv /\ TokensInv
ShownInv == IF block = "update" THEN page.token = 0 ELSE SeenInv /\ SaidInv

LEMMA ShownKept ==
    ASSUME ShownInv, UNCHANGED <<block, here, srv, page, confirm, calls, fate>>
    PROVE  ShownInv'
  <1>1. UNCHANGED <<Newer, Fresh, SwitchInv, SeenInv>>
    BY DEF Newer, Fresh, SwitchInv, SeenInv, Got, Seen
  <1>2. UNCHANGED <<AssistantsInv, EnginesInv, BanInv, TokensInv>>
    BY <1>1 DEF AssistantsInv, EnginesInv, BanInv, TokensInv, TokenOf, Got
  <1> QED
    BY <1>1, <1>2 DEF ShownInv, SaidInv

LEMMA OtherBlocks ==
    ASSUME SettingsTypes, UpdateOnly \/ Reload, block # "update"
    PROVE  UNCHANGED <<block, here, srv, page, confirm, calls, fate>> /\ UNCHANGED <<follow, verdict>>
  <1>0. ~leaving /\ \A f \in FollowSlots : follow[f] = None
    BY DEF SettingsTypes, PlaceOK
  <1>1. ~Reload
    BY <1>0 DEF Reload
  <1>2. ASSUME NEW c \in calls, Serve(c) \/ Updated(c) \/ NotUpdated(c) \/ PollAnswered(c) \/ PollFailed(c)
        PROVE  FALSE
    BY <1>2 DEF SettingsTypes, CallsOK, CallOK, Serve, Updated, NotUpdated, PollAnswered, PollFailed, Lost
  <1>3. ASSUME NEW f \in FollowSlots, PollUpdate(f) \/ Late(f) \/ Over(f)
        PROVE  FALSE
    BY <1>0, <1>3 DEF PollUpdate, Late, Over
  <1>4. UNCHANGED <<calls, follow, verdict>>
    BY <1>1, <1>2, <1>3 DEF UpdateOnly, Install, Restart, Boot
  <1> QED
    BY <1>1, <1>4, UpdateLeaves

\* What the operator does to a block of settings.
\* The requests after a step: those before it, and new ones.
Grown == calls \subseteq calls' /\ \A d \in calls' \ calls : ~Got(d) /\ d.base = None
OneSent(what) == \E d : calls' = calls \cup {d} /\ ~Got(d) /\ d.base = None /\ d.what = what
Said ==
    /\ Grown
    /\ page'.ver = page.ver /\ page'.mcp = page.mcp /\ page'.token = page.token
    /\ here' => here \/ Fresh'
    /\ fate' = {} => fate = {}
    /\ fate' = {} /\ block = "assistants" /\ SwitchInv => SwitchInv'
    /\ block = "engines" => page'.engines = page.engines \/ \E c \in calls' : c.what = "engine"
    /\ block = "ban" => page' = page \/ page'.touched # {}

LEMMA SentOne ==
    ASSUME NEW c, CallOK(block, c), c.base = None, c.view = None, Send(c)
    PROVE  OneSent(c.what)
  BY NumberedOK DEF Send, OneSent, Got

LEMMA NothingSent ==
    ASSUME calls' = calls
    PROVE  Grown
  BY DEF Grown

LEMMA SentSome ==
    ASSUME NEW what, OneSent(what)
    PROVE  /\ Grown
           /\ what = "get" => Fresh'
           /\ what = "mcp" => ~\A c \in calls' : c.what # "mcp"
           /\ (\A c \in calls' : c.what # "mcp") => \A c \in calls : c.what # "mcp"
           /\ \E c \in calls' : c.what = what
  <1>1. PICK d : calls' = calls \cup {d} /\ ~Got(d) /\ d.base = None /\ d.what = what
    BY DEF OneSent
  <1>2. Fresh' <=> \E c \in calls' : c.what = "get" /\ ~Got(c)
    BY DEF Fresh, Got
  <1>4. Grown
    BY <1>1 DEF Grown
  <1> QED
    BY <1>1, <1>2, <1>4

LEMMA OperatorSays ==
    ASSUME SettingsTypes, SettingsOperator, block # "update"
    PROVE  Said
  <1>0. page \in Pages /\ (page.mcp # None => page.mcp \in Switches)
    BY DEF SettingsTypes, PageOK, Pages
  <1>1. CASE LoadSettings
    <2>1. OneSent("get") /\ UNCHANGED <<page, fate, confirm, block>>
      <3>1. Get(block).what = "get" /\ Get(block).base = None /\ Get(block).view = None
        BY DEF Get, Call
      <3> QED
        BY <1>1, <3>1, GetOK, SentOne DEF LoadSettings
    <2>2. SwitchInv => SwitchInv'
      BY <2>1, SentSome DEF SwitchInv
    <2> QED
      BY <2>1, <2>2, SentSome DEF Said
  <1>2. CASE Leave
    <2>1. UNCHANGED <<page, confirm, calls, fate>> /\ ~here'
      BY <1>2 DEF Leave
    <2> QED
      BY <2>1, NothingSent DEF Said, SwitchInv
  <1>3. ASSUME NEW field \in {"on", "act"}, SaveMCP(field)
        PROVE  Said
    <2> DEFINE on == ~page[field]
               c == Call("mcp", field, on)
    <2>1. page.mcp # None /\ block = "assistants" /\ here /\ confirm = None /\ page' = [page EXCEPT ![field] = on]
          /\ UNCHANGED <<here, fate, block>>
      BY <1>3 DEF SaveMCP, On, rest_vars
    <2>2. CallOK(block, c) /\ c.base = None /\ c.view = None /\ c.what = "mcp" /\ c.name = field
      BY <1>3, <2>1 DEF CallOK, IsCall, Call
    <2>3. page'.ver = page.ver /\ page'.mcp = page.mcp /\ page'.token = page.token
          /\ (field = "act" => page'.on = page.on)
      BY <1>0, <1>3, <2>1 DEF Pages
    <2>4. \/ field = "act" /\ confirm' = c /\ UNCHANGED calls
          \/ Send(c) /\ UNCHANGED confirm
      BY <1>3 DEF SaveMCP
    <2> HIDE DEF on, c
    <2>5. CASE field = "act" /\ confirm' = c /\ UNCHANGED calls
      <3>1. confirm' # None
        <4>1. c \in Questions
          BY <1>3, <2>5, <2>1 DEF c, on, Call, Questions, AskedAbout
        <4> QED
          BY <2>5, <4>1, NoneAssumption
      <3>2. confirm'.name = "act"
        BY <2>2, <2>5
      <3>3. SwitchInv => SwitchInv'
        BY <2>1, <2>3, <2>5, <3>1, <3>2 DEF SwitchInv
      <3> QED
        BY <2>1, <2>3, <2>5, <3>3, NothingSent DEF Said
    <2>6. CASE Send(c) /\ UNCHANGED confirm
      <3>1. OneSent("mcp")
        BY <2>2, <2>6, SentOne
      <3>2. SwitchInv'
        BY <3>1, SentSome DEF SwitchInv
      <3> QED
        BY <2>1, <2>3, <3>1, <3>2, SentSome DEF Said
    <2> QED
      BY <2>4, <2>5, <2>6
  <1>4. CASE NewMCPToken
    <2>1. UNCHANGED <<page, calls, here, fate>> /\ confirm = None /\ confirm' = Call("mcp", "token", None)
      BY <1>4 DEF NewMCPToken, On, rest_vars
    <2>2. confirm'.name # "act"
      BY <2>1 DEF Call
    <2>3. SwitchInv => SwitchInv'
      BY <2>1, <2>2 DEF SwitchInv
    <2> QED
      BY <2>1, <2>3, NothingSent DEF Said
  <1>5. ASSUME NEW e \in Engines, SwitchEngine(e)
        PROVE  Said
    <2> DEFINE c == Call("engine", e, ~page.engines[e])
    <2>1. block = "engines" /\ page.engines \in [Engines -> BOOLEAN] /\ Send(c) /\ UNCHANGED <<here, fate>>
      BY <1>0, <1>5 DEF SwitchEngine, On, Pages, rest_vars
    <2>2. page' = [page EXCEPT !.engines = [page.engines EXCEPT ![e] = ~page.engines[e]]]
      BY <1>5 DEF SwitchEngine
    <2>3. page'.ver = page.ver /\ page'.mcp = page.mcp /\ page'.token = page.token
      BY <1>0, <2>2 DEF Pages
    <2>4. CallOK(block, c) /\ c.base = None /\ c.view = None /\ c.what = "engine"
      BY <2>1 DEF CallOK, IsCall, Call
    <2> HIDE DEF c
    <2>5. OneSent("engine")
      BY <2>1, <2>4, SentOne
    <2> QED
      BY <2>1, <2>3, <2>5, SentSome DEF Said
  <1>6. CASE EditForm
    <2>1. block = "ban" /\ UNCHANGED <<here, fate, calls>>
      BY <1>6 DEF EditForm, On, rest_vars
    <2>2. page'.ver = page.ver /\ page'.mcp = page.mcp /\ page'.token = page.token /\ page'.touched # {}
      <3>1. CASE page' = [page EXCEPT !.form.enabled = ~@, !.touched = @ \cup {"enabled"}]
        <4> DEFINE q == [page EXCEPT !.form = [page.form EXCEPT !.enabled = ~@]]
        <4>1. page' = [q EXCEPT !.touched = @ \cup {"enabled"}]
          BY <3>1
        <4>2. /\ q.ver = page.ver /\ q.mcp = page.mcp /\ q.token = page.token
              /\ q = [mcp |-> q.mcp, on |-> q.on, act |-> q.act, token |-> q.token, engines |-> q.engines,
                      form |-> q.form, touched |-> q.touched, ver |-> q.ver]
          BY <1>0 DEF Pages
        <4> HIDE DEF q
        <4> QED
          BY <4>1, <4>2
      <3>2. ASSUME NEW d \in {-1, 1},
                   page' = [page EXCEPT !.form.threshold = Stepped(@, d), !.touched = @ \cup {"threshold"}]
            PROVE  page'.ver = page.ver /\ page'.mcp = page.mcp /\ page'.token = page.token /\ page'.touched # {}
        <4> DEFINE q == [page EXCEPT !.form = [page.form EXCEPT !.threshold = Stepped(@, d)]]
        <4>1. page' = [q EXCEPT !.touched = @ \cup {"threshold"}]
          BY <3>2
        <4>2. /\ q.ver = page.ver /\ q.mcp = page.mcp /\ q.token = page.token
              /\ q = [mcp |-> q.mcp, on |-> q.on, act |-> q.act, token |-> q.token, engines |-> q.engines,
                      form |-> q.form, touched |-> q.touched, ver |-> q.ver]
          BY <1>0 DEF Pages
        <4> HIDE DEF q
        <4> QED
          BY <4>1, <4>2
      <3> QED
        BY <1>6, <3>1, <3>2 DEF EditForm
    <2> QED
      BY <2>1, <2>2, NothingSent DEF Said
  <1>7. CASE SaveSettings
    <2>1. block = "ban" /\ UNCHANGED <<here, fate, page>> /\ Send(Call("form", None, page.form)) /\ page.form \in Forms
      BY <1>0, <1>7 DEF SaveSettings, On, rest_vars, Pages
    <2>2. PICK c : c = Call("form", None, page.form)
      OBVIOUS
    <2>3. CallOK(block, c) /\ c.base = None /\ c.view = None /\ c.what = "form"
      BY <2>1, <2>2 DEF CallOK, IsCall, Call
    <2>4. OneSent("form")
      BY <2>1, <2>2, <2>3, SentOne
    <2> QED
      BY <2>1, <2>4, SentSome DEF Said
  <1>8. CASE ApplyUpdate \/ RollbackUpdate
    BY <1>8 DEF ApplyUpdate, RollbackUpdate, On
  <1>9. CASE Confirmed
    <2>0. confirm # None /\ confirm' = None /\ CallOK(block, confirm) /\ confirm.base = None /\ confirm.view = None
          /\ confirm.what = "mcp" /\ UNCHANGED here
      <3>1. ConfirmOK
        BY DEF SettingsTypes
      <3>2. confirm.what = "mcp"
        BY <1>9, <3>1 DEF Confirmed, ConfirmOK
      <3> QED
        BY <1>9, <3>1, <3>2, QuestionOK DEF Confirmed, rest_vars
    <2>1. CASE Send(confirm) /\ UNCHANGED <<page, fate>>
      <3>1. OneSent("mcp")
        BY <2>0, <2>1, SentOne
      <3>2. SwitchInv'
        BY <3>1, SentSome DEF SwitchInv
      <3>3. block = "assistants"
        BY <2>0 DEF CallOK
      <3> QED
        BY <2>0, <2>1, <3>1, <3>2, <3>3, SentSome DEF Said
    <2>2. CASE /\ page' = IF confirm.name = "act" THEN [page EXCEPT !.act = FALSE] ELSE page
               /\ fate' = IF confirm.name = "act" /\ page.mcp.act THEN fate \cup {"declined"} ELSE fate
               /\ UNCHANGED calls
      <3>1. /\ page'.ver = page.ver /\ page'.mcp = page.mcp /\ page'.token = page.token /\ page'.on = page.on
            /\ page'.act = IF confirm.name = "act" THEN FALSE ELSE page.act
        BY <1>0, <2>2 DEF Pages
      <3>2. fate' = {} => fate = {} /\ (confirm.name = "act" => ~page.mcp.act)
        BY <2>2
      <3>3. block = "assistants" /\ page.mcp # None
        BY <2>0 DEF SettingsTypes, ConfirmOK
      <3>4. page.mcp.act \in BOOLEAN
        BY <1>0, <3>3 DEF Switches
      <3>5. fate' = {} /\ SwitchInv => SwitchInv'
        BY <2>0, <2>2, <3>1, <3>2, <3>3, <3>4 DEF SwitchInv
      <3> QED
        BY <2>0, <2>2, <3>1, <3>2, <3>3, <3>5, NothingSent DEF Said
    <2> QED
      BY <1>9, <2>1, <2>2 DEF Confirmed
  <1> QED
    BY <1>1, <1>2, <1>3, <1>4, <1>5, <1>6, <1>7, <1>8, <1>9 DEF SettingsOperator

\* The requests that were under way are so still, with their answers.
LEMMA StillNewer ==
    ASSUME \A e \in calls : \E d \in calls' : d.what = e.what /\ d.view = e.view, UNCHANGED srv
    PROVE  /\ Newer => Newer'
           /\ Fresh => Fresh'
           /\ (\E c \in calls : c.what = "engine") => \E c \in calls' : c.what = "engine"
           /\ (\E c \in calls : c.what = "form" /\ Got(c)) => \E c \in calls' : c.what = "form" /\ Got(c)
  <1>1. Newer => Newer'
    BY DEF Newer, Got
  <1>2. Fresh => Fresh'
    BY DEF Fresh, Got
  <1> QED
    BY <1>1, <1>2 DEF Got

LEMMA OperatorShown ==
    ASSUME SettingsTypes, SettingsOperator, ShownInv
    PROVE  ShownInv'
  <1>0. UNCHANGED <<block, srv>>
    BY OperatorLeaves
  <1>1. CASE block = "update"
    <2>1. page \in Pages /\ page.token = 0
      BY <1>1 DEF SettingsTypes, PageOK, ShownInv
    <2>2. page' = page \/ page' = [page EXCEPT !.act = FALSE]
      BY <1>1 DEF SettingsOperator, LoadSettings, Leave, SaveMCP, NewMCPToken, SwitchEngine, EditForm, SaveSettings,
                  ApplyUpdate, RollbackUpdate, Confirmed, On
    <2>3. page'.token = 0
      BY <2>1, <2>2 DEF Pages
    <2> QED
      BY <1>0, <1>1, <2>3 DEF ShownInv
  <1>2. CASE block # "update"
    <2>1. SeenInv /\ SaidInv /\ Said
      BY <1>2, OperatorSays DEF ShownInv
    <2>2. SeenInv'
      BY <1>0, <2>1 DEF SeenInv, Said, Grown, Got, Seen
    <2>3. ASSUME fate' = {}
          PROVE  AssistantsInv' /\ EnginesInv' /\ BanInv' /\ TokensInv'
      <3>1. AssistantsInv /\ EnginesInv /\ BanInv /\ TokensInv
        BY <2>1, <2>3 DEF SaidInv, Said
      <3>2. /\ Newer => Newer'
            /\ Fresh => Fresh'
            /\ (\E c \in calls : c.what = "engine") => \E c \in calls' : c.what = "engine"
            /\ (\E c \in calls : c.what = "form" /\ Got(c)) => \E c \in calls' : c.what = "form" /\ Got(c)
        <4>1. calls \subseteq calls'
          BY <2>1 DEF Said, Grown
        <4> QED
          BY <1>0, <4>1, StillNewer
      <3>3. AssistantsInv'
        BY <1>0, <2>1, <2>3, <3>1, <3>2 DEF AssistantsInv, Said
      <3>4. EnginesInv'
        BY <1>0, <2>1, <3>1, <3>2 DEF EnginesInv, Said
      <3>5. BanInv'
        BY <1>0, <2>1, <3>1, <3>2 DEF BanInv, Said
      <3>6. TokensInv'
        <4>1. calls \subseteq calls' /\ (\A d \in calls' \ calls : TokenOf(d) = 0) /\ page'.token = page.token
              /\ page'.ver = page.ver
          BY <2>1 DEF Said, Grown, TokenOf
        <4> QED
          BY <1>0, <3>1, <4>1 DEF TokensInv
      <3> QED
        BY <3>3, <3>4, <3>5, <3>6
    <2> QED
      BY <1>0, <1>2, <2>2, <2>3 DEF ShownInv, SaidInv
  <1> QED
    BY <1>1, <1>2

\* A handler that reads for a request changes nothing of what the screen says.
LEMMA ReadShown ==
    ASSUME SettingsTypes, NEW c \in calls, Read(c), SeenInv /\ SaidInv
    PROVE  (SeenInv /\ SaidInv)'
  <1>1. PICK d : /\ calls' = (calls \ {c}) \cup {d} /\ d.what = c.what /\ d.view = c.view /\ d.base = srv /\ c.what = "mcp"
    BY HandledCall
  <1>2. UNCHANGED <<block, here, page, confirm, srv, fate>>
    BY HandlersLeave DEF Read
  <1>3. srv.ver \in Nat
    BY DEF SettingsTypes, SrvStates
  <1>4. SeenInv'
    <2>1. Seen(srv)
      BY <1>3 DEF Seen
    <2> QED
      BY <1>1, <1>2, <2>1 DEF SeenInv, Got, Seen
  <1>5. ASSUME fate = {}
        PROVE  AssistantsInv' /\ EnginesInv' /\ BanInv' /\ TokensInv'
    <2>1. AssistantsInv /\ EnginesInv /\ BanInv /\ TokensInv
      BY <1>5 DEF SaidInv
    <2>2. \A e \in calls : \E x \in calls' : x.what = e.what /\ x.view = e.view
      BY <1>1
    <2>3. SwitchInv'
      BY <1>1 DEF SwitchInv
    <2>4. AssistantsInv' /\ EnginesInv' /\ BanInv'
      BY <1>2, <2>1, <2>2, <2>3, StillNewer DEF AssistantsInv, EnginesInv, BanInv
    <2>5. TokenOf(d) = TokenOf(c)
      BY <1>1 DEF TokenOf, Got
    <2>6. TokensInv'
      BY <1>1, <1>2, <2>1, <2>5 DEF TokensInv
    <2> QED
      BY <2>4, <2>6
  <1> QED
    BY <1>2, <1>4, <1>5 DEF SaidInv

\* A load is answered with what the server has.
LEMMA ViewShown ==
    ASSUME SettingsTypes, NEW c \in calls, View(c), SeenInv /\ SaidInv
    PROVE  (SeenInv /\ SaidInv)'
  <1>0. UNCHANGED <<block, here, page, confirm, srv, fate>> /\ c.what = "get" /\ ~Got(c)
    BY HandlersLeave DEF View, Got
  <1>1. PICK d : /\ calls' = (calls \ {c}) \cup {d} /\ d.what = "get" /\ d.base = c.base
                 /\ Got(d) /\ d.view.s = srv /\ d.view.token = 0
    BY <1>0, HandledCall DEF Got, Read
  <1>3. srv.ver \in Nat /\ srv.made \in Nat
    BY DEF SettingsTypes, SrvStates
  <1>4. SeenInv'
    <2>1. Seen(srv) /\ 0 <= srv.made
      BY <1>3 DEF Seen
    <2> QED
      BY <1>0, <1>1, <2>1 DEF SeenInv, Seen
  <1>5. ASSUME fate = {}
        PROVE  AssistantsInv' /\ EnginesInv' /\ BanInv' /\ TokensInv'
    <2>1. AssistantsInv /\ EnginesInv /\ BanInv /\ TokensInv
      BY <1>5 DEF SaidInv
    <2>2. Newer'
      BY <1>0, <1>1 DEF Newer, Got
    <2>3. SwitchInv => SwitchInv'
      BY <1>0, <1>1 DEF SwitchInv
    <2>4. AssistantsInv' /\ EnginesInv' /\ BanInv'
      BY <1>0, <2>1, <2>2, <2>3 DEF AssistantsInv, EnginesInv, BanInv
    <2>5. TokenOf(d) = 0 /\ TokenOf(c) = 0
      BY <1>0, <1>1 DEF TokenOf
    <2>6. TokensInv'
      BY <1>0, <1>1, <2>1, <2>5 DEF TokensInv
    <2> QED
      BY <2>4, <2>6
  <1> QED
    BY <1>0, <1>4, <1>5 DEF SaidInv

\* A handler that saved what it had read since the last change made one token, or none.
LEMMA SaveToken ==
    ASSUME SettingsTypes, NEW c \in calls, Save(c), SeenInv, fate' = {}
    PROVE  \/ srv'.token = srv.token /\ srv'.made = srv.made
           \/ srv'.token = srv.made + 1 /\ srv'.made = srv.made + 1 /\ c.what = "mcp"
  <1>0. CallOK(block, c) /\ srv \in SrvStates /\ srv'.token = Changed(c).token /\ srv'.made = Changed(c).made
    BY SaveSrv DEF SettingsTypes, CallsOK
  <1>1. CASE c.what = "mcp"
    <2>1. c.base = srv
      BY <1>1 DEF Save, SeenInv, Seen
    <2> DEFINE s == IF c.name = "token" THEN srv ELSE [srv EXCEPT ![c.name] = c.val]
    <2>2. s \in SrvStates /\ s.token = srv.token
      <3>1. c.name = "token" \/ (c.name \in {"on", "act"} /\ c.val \in BOOLEAN)
        BY <1>0, <1>1 DEF CallOK
      <3> QED
        BY <1>0, <3>1 DEF SrvStates
    <2>3. Changed(c) = IF c.name = "token" \/ (s.on /\ s.token = 0)
                       THEN [s EXCEPT !.token = srv.made + 1, !.made = srv.made + 1] ELSE [s EXCEPT !.made = srv.made]
      BY <1>1, <2>1 DEF Changed, MCPChange
    <2> HIDE DEF s
    <2>4. ASSUME NEW x, NEW y
          PROVE  /\ [s EXCEPT !.token = x, !.made = y].token = x
                 /\ [s EXCEPT !.token = x, !.made = y].made = y
                 /\ [s EXCEPT !.made = y].token = s.token /\ [s EXCEPT !.made = y].made = y
      BY <2>2 DEF SrvStates
    <2>5. CASE c.name = "token" \/ (s.on /\ s.token = 0)
      <3>1. PICK m : m = srv.made + 1
        OBVIOUS
      <3>2. Changed(c) = [s EXCEPT !.token = m, !.made = m]
        BY <2>3, <2>5, <3>1
      <3>3. [s EXCEPT !.token = m, !.made = m].token = m /\ [s EXCEPT !.token = m, !.made = m].made = m
        BY <2>4
      <3>4. Changed(c).token = m /\ Changed(c).made = m
        BY <3>2, <3>3, Zenon
      <3> QED
        BY <1>0, <1>1, <3>1, <3>4, Zenon
    <2>6. CASE ~(c.name = "token" \/ (s.on /\ s.token = 0))
      <3>1. Changed(c) = [s EXCEPT !.made = srv.made]
        BY <2>3, <2>6
      <3> QED
        BY <1>0, <2>2, <2>4, <3>1
    <2> QED
      BY <2>5, <2>6
  <1>2. CASE c.what # "mcp"
    <2>1. srv'.made = srv.made /\ srv'.token = srv.token
      <3>1. CASE c.what = "engine"
        <4>1. Changed(c) = [srv EXCEPT !.engines[c.name] = c.val]
          BY <3>1 DEF Changed
        <4> QED
          BY <1>0, <4>1 DEF SrvStates
      <3>2. CASE c.what = "form"
        <4>1. Changed(c) = [srv EXCEPT !.form.enabled = c.val.enabled,
                                  !.form.threshold = IF c.val.threshold = 0 THEN @ ELSE c.val.threshold]
          BY <3>2 DEF Changed
        <4> DEFINE f == [srv.form EXCEPT !.enabled = c.val.enabled,
                                         !.threshold = IF c.val.threshold = 0 THEN @ ELSE c.val.threshold]
        <4>2. Changed(c) = [srv EXCEPT !.form = f]
          BY <1>0, <4>1 DEF SrvStates, Forms
        <4> HIDE DEF f
        <4> QED
          BY <1>0, <4>2 DEF SrvStates
      <3> QED
        BY <1>2, <3>1, <3>2 DEF Save, IsSetting
    <2> QED
      BY <2>1
  <1> QED
    BY <1>1, <1>2

LEMMA SaveShown ==
    ASSUME SettingsTypes, NEW c \in calls, Save(c), SeenInv /\ SaidInv
    PROVE  (SeenInv /\ SaidInv)'
  <1>0. UNCHANGED <<block, here, page, confirm>> /\ ~Got(c) /\ CallOK(block, c) /\ ~Read(c)
    BY HandlersLeave DEF Save, Got, SettingsTypes, CallsOK, Read
  <1>1. PICK d : /\ calls' = (calls \ {c}) \cup {d} /\ d.what = c.what /\ d.base = c.base
                 /\ Got(d) /\ d.view.s = srv' /\ d.view.token = IF srv'.made # srv.made THEN srv'.made ELSE 0
    BY <1>0, HandledCall DEF Got
  <1>2. /\ srv' \in SrvStates /\ srv'.token <= srv'.made /\ srv.made <= srv'.made /\ srv'.ver = srv.ver + 1
        /\ srv.ver \in Nat /\ srv.made \in Nat /\ srv'.made \in Nat /\ srv'.ver \in Nat
        /\ page.ver \in Nat /\ page.token \in Nat
    <2>1. srv' \in SrvStates /\ srv'.token <= srv'.made /\ srv.made <= srv'.made /\ srv'.ver = srv.ver + 1
      BY SaveSrv
    <2> QED
      BY <2>1 DEF SettingsTypes, SrvStates, PageOK, Pages
  <1>3. ASSUME NEW e \in calls
        PROVE  /\ Got(e) /\ block # "update" => e.view.s.ver \in Nat /\ e.view.token \in Nat
               /\ e.base # None => e.base.ver \in Nat
    <2>1. CallOK(block, e)
      BY DEF SettingsTypes, CallsOK
    <2> QED
      BY <2>1 DEF CallOK, Got, Snapshots, SrvStates
  <1>4. block # "update" /\ IsSetting(c)
    BY <1>0 DEF Save, IsSetting, CallOK
  <1>5. SeenInv'
    <2>1. ASSUME NEW t, Seen(t), t.ver \in Nat
          PROVE  Seen(t)' /\ t.ver < srv'.ver
      BY <1>2, <2>1 DEF Seen
    <2>3. ASSUME NEW e \in calls
          PROVE  /\ Got(e) => Seen(e.view.s)' /\ e.view.token <= srv'.made
                 /\ e.base # None => Seen(e.base)'
      <3>1. ASSUME Got(e)
            PROVE  Seen(e.view.s)' /\ e.view.token <= srv'.made
        <4>1. Seen(e.view.s) /\ e.view.token <= srv.made /\ e.view.s.ver \in Nat /\ e.view.token \in Nat
          BY <1>3, <1>4, <3>1 DEF SeenInv
        <4> QED
          BY <1>2, <2>1, <4>1
      <3>2. ASSUME e.base # None
            PROVE  Seen(e.base)'
        BY <1>3, <2>1, <3>2 DEF SeenInv
      <3> QED
        BY <3>1, <3>2
    <2>4. Seen(d.view.s)' /\ d.view.token <= srv'.made
      BY <1>1, <1>2 DEF Seen
    <2>5. d.base # None => Seen(d.base)'
      BY <1>1, <2>3
    <2>6. page'.ver <= srv'.ver /\ page'.token <= srv'.made /\ page'.ver # srv'.ver
      BY <1>0, <1>2 DEF SeenInv
    <2> QED
      BY <1>1, <2>3, <2>4, <2>5, <2>6 DEF SeenInv
  <1>6. ASSUME fate' = {}
        PROVE  AssistantsInv' /\ EnginesInv' /\ BanInv' /\ TokensInv'
    <2>1. AssistantsInv /\ EnginesInv /\ BanInv /\ TokensInv
      BY <1>6 DEF SaidInv, Save
    <2>2. AssistantsInv'
      <3>1. CASE c.what = "mcp"
        <4>1. Newer'
          BY <1>1, <3>1 DEF Newer, Got
        <4>2. SwitchInv'
          BY <1>1, <3>1 DEF SwitchInv
        <4> QED
          BY <4>1, <4>2 DEF AssistantsInv
      <3>2. CASE c.what # "mcp"
        BY <1>0, <1>4, <3>2 DEF AssistantsInv, IsSetting, CallOK
      <3> QED
        BY <3>1, <3>2
    <2>3. EnginesInv'
      <3>1. block = "engines" => c.what = "engine"
        BY <1>0, <1>4 DEF IsSetting, CallOK
      <3> QED
        BY <1>0, <1>1, <3>1 DEF EnginesInv
    <2>4. BanInv'
      <3>1. block = "ban" => c.what = "form"
        BY <1>0, <1>4 DEF IsSetting, CallOK
      <3> QED
        BY <1>0, <1>1, <3>1 DEF BanInv, Got
    <2>5. TokensInv'
      <3>1. TokenOf(c) = 0 /\ TokenOf(d) = d.view.token
        BY <1>0, <1>1 DEF TokenOf
      <3>2. CASE srv'.token = srv.token /\ srv'.made = srv.made
        <4>1. TokenOf(d) = 0
          BY <1>1, <3>1, <3>2
        <4> QED
          BY <1>0, <1>1, <2>1, <3>1, <3>2, <4>1 DEF TokensInv
      <3>3. CASE srv'.token = srv.made + 1 /\ srv'.made = srv.made + 1 /\ c.what = "mcp"
        <4>1. TokenOf(d) = srv'.token /\ srv'.token # 0 /\ d.what = "mcp"
          BY <1>1, <1>2, <3>1, <3>3
        <4>2. page'.token # srv'.token
          BY <1>0, <1>2, <3>3 DEF SeenInv
        <4>3. ASSUME NEW e \in calls
              PROVE  /\ TokenOf(e) # srv'.token
                     /\ TokenOf(e) # 0 => e.view.s.ver < d.view.s.ver /\ e.what = "mcp"
          <5>1. CASE Got(e)
            <6>1. e.view.s.ver <= srv.ver /\ e.view.token <= srv.made
              BY <5>1 DEF SeenInv, Seen
            <6>2. e.view.s.ver \in Nat /\ e.view.token \in Nat
              BY <1>3, <1>4, <5>1
            <6>3. TokenOf(e) = e.view.token
              BY <5>1 DEF TokenOf
            <6>4. e.view.token # srv'.token /\ e.view.s.ver < srv'.ver
              BY <1>2, <3>3, <6>1, <6>2
            <6> QED
              BY <1>1, <2>1, <6>3, <6>4 DEF TokensInv
          <5>2. CASE ~Got(e)
            BY <4>1, <5>2 DEF TokenOf
          <5> QED
            BY <5>1, <5>2
        <4>4. \A e \in calls' : e = d \/ e \in calls
          BY <1>1
        <4>5. \A e \in calls' : TokenOf(e) \notin {0, srv'.token} => e \in calls /\ e.view.s.ver < d.view.s.ver
          BY <4>1, <4>3, <4>4
        <4>6. \A e \in calls' : TokenOf(e) # 0 /\ TokenOf(e) = srv'.token => e = d
          BY <4>3, <4>4
        <4>7. \A e \in calls' : TokenOf(e) # 0 => e.what = "mcp"
          BY <4>1, <4>3, <4>4
        <4>8. d \in calls'
          BY <1>1
        <4> QED
          BY <4>1, <4>2, <4>5, <4>6, <4>7, <4>8 DEF TokensInv
      <3> QED
        BY <1>6, <3>2, <3>3, SaveToken
    <2> QED
      BY <2>2, <2>3, <2>4, <2>5
  <1> QED
    BY <1>5, <1>6 DEF SaidInv

\* The requests that are left when one was answered or failed, as they were or loads.
LEMMA LeftOver ==
    ASSUME NEW c \in calls, Remains(c), UNCHANGED srv
    PROVE  /\ \A d \in calls' : (~Got(d) /\ d.base = None /\ d.what = "get")
                                 \/ \E e \in calls \ {c} : d.what = e.what /\ d.view = e.view /\ d.base = e.base
           /\ \A e \in calls \ {c} : \E d \in calls' : d.what = e.what /\ d.view = e.view
           /\ Reloaded => Fresh'
           /\ (\E e \in calls \ {c} : e.what = "get" /\ ~Got(e)) => Fresh'
           /\ (\E e \in calls \ {c} : Got(e) /\ e.what \in {"get", "mcp"} /\ e.view.s.ver = srv.ver) => Newer'
           /\ (\E e \in calls \ {c} : e.what = "engine") => \E d \in calls' : d.what = "engine"
           /\ (\E e \in calls \ {c} : e.what = "form" /\ Got(e)) => \E d \in calls' : d.what = "form" /\ Got(d)
  <1>1. \A d : Like(d, Get(block)) => ~Got(d) /\ d.base = None /\ d.what = "get"
    BY DEF Like, Get, Call, Got
  <1>2. \A d \in calls' : (~Got(d) /\ d.base = None /\ d.what = "get")
                           \/ \E e \in calls \ {c} : d.what = e.what /\ d.view = e.view /\ d.base = e.base
    BY <1>1 DEF Remains, Like
  <1>3. \A e \in calls \ {c} : \E d \in calls' : d.what = e.what /\ d.view = e.view
    BY DEF Remains, Like
  <1>4. Reloaded => Fresh'
    BY <1>1 DEF Reloaded, Fresh, Got
  <1>5. (\E e \in calls \ {c} : e.what = "get" /\ ~Got(e)) => Fresh'
    BY <1>3 DEF Fresh, Got
  <1>6. (\E e \in calls \ {c} : Got(e) /\ e.what \in {"get", "mcp"} /\ e.view.s.ver = srv.ver) => Newer'
    BY <1>3 DEF Newer, Got
  <1> QED
    BY <1>2, <1>3, <1>4, <1>5, <1>6 DEF Got

LEMMA SeenAfter ==
    ASSUME SettingsTypes, NEW c \in calls, Deliver(c) \/ NotDone(c), SeenInv
    PROVE  SeenInv'
  <1>0. UNCHANGED <<block, srv>> /\ block # "update" /\ Remains(c) /\ PageOK /\ PageOK'
    BY BlockLeaves, DeliverTypes DEF SettingsTypes
  <1>1. \A d \in calls' : (Got(d) => Seen(d.view.s)' /\ d.view.token <= srv'.made) /\ (d.base # None => Seen(d.base)')
    BY <1>0, LeftOver DEF SeenInv, Got, Seen
  <1>2. page'.ver <= srv'.ver /\ page'.token <= srv'.made
        /\ (page'.mcp # None /\ page'.ver = srv'.ver => page'.mcp = Shows(srv'))
    <2>1. CASE Deliver(c)
      <3>1. Got(c) /\ Seen(c.view.s) /\ c.view.token <= srv.made
        BY <2>1 DEF Deliver, SeenInv, Got
      <3>2. page'.ver <= srv.ver /\ page'.token <= srv.made
        BY <2>1, <3>1, DeliveredPage DEF SeenInv, Seen
      <3>3. CASE block = "assistants"
        BY <1>0, <2>1, <3>1, <3>2, <3>3, DeliveredPage DEF Seen
      <3>4. CASE block # "assistants"
        BY <1>0, <3>2, <3>4 DEF PageOK
      <3> QED
        BY <3>3, <3>4
    <2>2. CASE NotDone(c)
      BY <1>0, <2>2, NotDonePage DEF SeenInv
    <2> QED
      BY <2>1, <2>2
  <1> QED
    BY <1>1, <1>2 DEF SeenInv

LEMMA DeliverShown ==
    ASSUME SettingsTypes, NEW c \in calls, Deliver(c), SeenInv, SaidInv, fate' = {}
    PROVE  AssistantsInv' /\ EnginesInv' /\ BanInv' /\ TokensInv'
  <1>0. UNCHANGED <<block, srv, here, confirm>> /\ block # "update" /\ Remains(c) /\ PageOK /\ PageOK'
    BY BlockLeaves, DeliverTypes DEF SettingsTypes
  <1>1. AssistantsInv /\ EnginesInv /\ BanInv /\ TokensInv /\ ~(page'.ver < page.ver) /\ Got(c)
    BY DEF Deliver, SaidInv, Got
  <1>2. /\ page.ver \in Nat /\ srv.ver \in Nat /\ page'.ver \in Nat /\ page.ver <= srv.ver /\ page'.ver <= srv.ver
        /\ c.view.s.ver \in Nat /\ c.view.s.ver <= srv.ver /\ (c.view.s.ver = srv.ver => c.view.s = srv)
    <2>1. page'.ver <= srv'.ver
      BY SeenAfter DEF SeenInv
    <2>2. c.view \in Snapshots
      BY DeliveredPage
    <2> QED
      BY <1>0, <1>1, <2>1, <2>2 DEF SeenInv, Seen, PageOK, Pages, SettingsTypes, SrvStates, Snapshots
  <1>3. AssistantsInv'
    <2>1. CASE block = "assistants"
      <3>1. /\ page'.ver = c.view.s.ver /\ page'.mcp = Shows(c.view.s) /\ c.what \in {"get", "mcp"}
            /\ page'.on = c.view.s.on /\ page'.act = c.view.s.act
        BY <2>1, DeliveredPage
      <3>2. page'.ver = srv.ver \/ Newer'
        <4>1. CASE page.ver = srv.ver
          BY <1>1, <1>2, <4>1
        <4>2. ASSUME NEW e \in calls, Got(e) /\ e.what \in {"get", "mcp"} /\ e.view.s.ver = srv.ver
              PROVE  page'.ver = srv.ver \/ Newer'
          BY <1>0, <3>1, <4>2, LeftOver
        <4> QED
          BY <1>1, <2>1, <4>1, <4>2 DEF AssistantsInv, Newer
      <3>3. SwitchInv'
        BY <3>1 DEF SwitchInv, Shows
      <3> QED
        BY <1>0, <3>2, <3>3 DEF AssistantsInv
    <2> QED
      BY <1>0, <2>1 DEF AssistantsInv
  <1>4. EnginesInv'
    <2>1. CASE block = "engines" /\ here
      <3>1. CASE c.what = "engine"
        <4>1. Fresh'
          BY <1>0, <2>1, <3>1, DeliverTypes, LeftOver
        <4> QED
          BY <4>1 DEF EnginesInv
      <3>2. CASE c.what = "get"
        <4>1. page'.ver = c.view.s.ver /\ page'.engines = c.view.s.engines
          BY <2>1, <3>2, DeliveredPage
        <4>2. CASE page'.ver = srv.ver
          BY <1>0, <1>2, <4>1, <4>2 DEF EnginesInv
        <4>3. CASE page'.ver # srv.ver
          <5>1. page.ver # srv.ver
            BY <1>1, <1>2, <4>3
          <5>2. \/ \E e \in calls \ {c} : e.what = "engine"
                \/ \E e \in calls \ {c} : e.what = "get" /\ ~Got(e)
                \/ \E e \in calls \ {c} : Got(e) /\ e.what \in {"get", "mcp"} /\ e.view.s.ver = srv.ver
            BY <1>1, <2>1, <3>2, <4>1, <4>3, <5>1 DEF EnginesInv, Fresh, Newer
          <5> QED
            BY <1>0, <5>2, LeftOver DEF EnginesInv
        <4> QED
          BY <4>2, <4>3
      <3> QED
        BY <2>1, <3>1, <3>2, DeliveredPage
    <2> QED
      BY <1>0, <2>1 DEF EnginesInv
  <1>5. BanInv'
    <2>1. CASE block = "ban"
      <3>1. CASE c.what = "form"
        <4>1. Fresh'
          BY <1>0, <2>1, <3>1, DeliverTypes, LeftOver
        <4> QED
          BY <4>1 DEF BanInv
      <3>2. CASE c.what = "get"
        <4>1. page'.ver = c.view.s.ver /\ page'.form = c.view.s.form
          BY <2>1, <3>2, DeliveredPage
        <4>2. CASE page'.ver = srv.ver
          BY <1>0, <1>2, <4>1, <4>2 DEF BanInv
        <4>3. CASE page'.ver # srv.ver
          <5>1. page.ver # srv.ver
            BY <1>1, <1>2, <4>3
          <5>2. \/ \E e \in calls \ {c} : e.what = "form" /\ Got(e)
                \/ \E e \in calls \ {c} : e.what = "get" /\ ~Got(e)
                \/ \E e \in calls \ {c} : Got(e) /\ e.what \in {"get", "mcp"} /\ e.view.s.ver = srv.ver
            BY <1>1, <2>1, <3>2, <4>1, <4>3, <5>1 DEF BanInv, Fresh, Newer
          <5> QED
            BY <1>0, <5>2, LeftOver DEF BanInv
        <4> QED
          BY <4>2, <4>3
      <3> QED
        BY <2>1, <3>1, <3>2, DeliveredPage
    <2> QED
      BY <1>0, <2>1 DEF BanInv
  <1>6. TokensInv'
    <2>1. TokenOf(c) = c.view.token /\ (TokenOf(c) # 0 => c.what = "mcp" /\ page'.ver = c.view.s.ver)
          /\ page'.token = IF TokenOf(c) # 0 THEN TokenOf(c) ELSE page.token
      BY <1>1, DeliveredPage DEF TokenOf, TokensInv
    <2>2. /\ \A d \in calls' : TokenOf(d) = 0 \/ \E e \in calls \ {c} : d.what = e.what /\ d.view = e.view /\ TokenOf(d) = TokenOf(e)
          /\ \A e \in calls \ {c} : \E d \in calls' : TokenOf(d) = TokenOf(e)
      BY <1>0, LeftOver DEF TokenOf, Got
    <2>3. srv.token = 0 => page'.token = 0 /\ \A d \in calls' : TokenOf(d) = 0
      BY <1>1, <2>1, <2>2 DEF TokensInv
    <2>4. page.token = srv.token /\ srv.token # 0 => page'.token = srv.token
      <3>1. CASE TokenOf(c) \notin {0, srv.token} /\ page.token = srv.token
        <4>1. c.view.s.ver < page.ver
          BY <1>1, <3>1 DEF TokensInv
        <4> QED
          BY <1>1, <2>1, <3>1, <4>1
      <3> QED
        BY <2>1, <3>1
    <2>5. srv.token # 0 => page'.token = srv.token \/ \E d \in calls' : TokenOf(d) = srv.token
      BY <1>1, <2>1, <2>2, <2>4 DEF TokensInv
    <2>6. ASSUME NEW d \in calls', TokenOf(d) \notin {0, srv.token}
          PROVE  /\ page'.token = srv.token => d.view.s.ver < page'.ver
                 /\ \A x \in calls' : TokenOf(x) # 0 /\ TokenOf(x) = srv.token => d.view.s.ver < x.view.s.ver
      <3>1. PICK e \in calls \ {c} : d.what = e.what /\ d.view = e.view /\ TokenOf(d) = TokenOf(e)
        BY <2>2, <2>6
      <3>2. /\ page.token = srv.token => d.view.s.ver < page.ver
            /\ \A x \in calls : TokenOf(x) # 0 /\ TokenOf(x) = srv.token => d.view.s.ver < x.view.s.ver
        BY <1>1, <2>6, <3>1 DEF TokensInv
      <3>3. d.view.s.ver \in Nat
        <4>1. CallOK(block, e) /\ Got(e)
          BY <2>6, <3>1 DEF SettingsTypes, CallsOK, TokenOf
        <4> QED
          BY <1>0, <3>1, <4>1 DEF CallOK, Got, Snapshots, SrvStates
      <3>4. page'.token = srv.token => d.view.s.ver < page'.ver
        <4>1. CASE TokenOf(c) # 0
          BY <2>1, <3>2, <4>1
        <4>2. CASE TokenOf(c) = 0
          BY <1>1, <1>2, <2>1, <3>2, <3>3, <4>2
        <4> QED
          BY <4>1, <4>2
      <3>5. \A x \in calls' : TokenOf(x) # 0 /\ TokenOf(x) = srv.token => d.view.s.ver < x.view.s.ver
        BY <2>2, <3>2
      <3> QED
        BY <3>4, <3>5
    <2>7. \A d \in calls' : TokenOf(d) # 0 => d.what = "mcp"
      BY <1>1, <2>2 DEF TokensInv
    <2> QED
      BY <1>0, <2>3, <2>5, <2>6, <2>7 DEF TokensInv
  <1> QED
    BY <1>3, <1>4, <1>5, <1>6

LEMMA NotDoneShown ==
    ASSUME SettingsTypes, NEW c \in calls, NotDone(c), SeenInv, SaidInv, fate' = {}
    PROVE  AssistantsInv' /\ EnginesInv' /\ BanInv' /\ TokensInv'
  <1>0. UNCHANGED <<block, srv, here, confirm>> /\ block # "update" /\ Remains(c) /\ CallOK(block, c)
    BY BlockLeaves, DeliverTypes DEF SettingsTypes, CallsOK
  <1>1. AssistantsInv /\ EnginesInv /\ BanInv /\ TokensInv /\ c.what # "get" /\ (Got(c) => c.what = "engine")
    BY DEF NotDone, SaidInv, Got
  <1>2. page'.mcp = page.mcp /\ page'.ver = page.ver /\ page'.token = page.token
        /\ page'.form = page.form /\ page'.touched = page.touched
    BY NotDonePage
  <1>3. AssistantsInv'
    <2>1. CASE block = "assistants"
      <3>1. c.what = "mcp" /\ ~Got(c)
        BY <1>0, <1>1, <2>1 DEF CallOK
      <3>2. page'.ver = srv.ver \/ Newer'
        BY <1>0, <1>1, <1>2, <2>1, <3>1, LeftOver DEF AssistantsInv, Newer
      <3>3. SwitchInv'
        BY <1>2, <2>1, <3>1, NotDonePage DEF SwitchInv
      <3> QED
        BY <1>0, <3>2, <3>3 DEF AssistantsInv
    <2> QED
      BY <1>0, <2>1 DEF AssistantsInv
  <1>4. EnginesInv'
    <2>1. CASE block = "engines" /\ here
      <3>1. c.what = "engine"
        BY <1>0, <1>1, <2>1 DEF CallOK
      <3>2. Fresh'
        BY <1>0, <2>1, <3>1, DeliverTypes, LeftOver
      <3> QED
        BY <3>2 DEF EnginesInv
    <2> QED
      BY <1>0, <2>1 DEF EnginesInv
  <1>5. BanInv'
    <2>1. CASE block = "ban"
      <3>1. c.what = "form" /\ ~Got(c)
        BY <1>0, <1>1, <2>1 DEF CallOK
      <3> QED
        BY <1>0, <1>1, <1>2, <2>1, <3>1, LeftOver DEF BanInv, Fresh, Newer
    <2> QED
      BY <1>0, <2>1 DEF BanInv
  <1>6. TokensInv'
    <2>1. TokenOf(c) = 0
      BY <1>1 DEF TokenOf, TokensInv
    <2>2. /\ \A d \in calls' : TokenOf(d) = 0 \/ \E e \in calls \ {c} : d.what = e.what /\ d.view = e.view /\ TokenOf(d) = TokenOf(e)
          /\ \A e \in calls \ {c} : \E d \in calls' : TokenOf(d) = TokenOf(e)
      BY <1>0, LeftOver DEF TokenOf, Got
    <2>3. srv.token # 0 => page.token = srv.token \/ \E d \in calls' : TokenOf(d) = srv.token
      BY <1>1, <2>1, <2>2 DEF TokensInv
    <2>4. ASSUME NEW d \in calls', TokenOf(d) \notin {0, srv.token}
          PROVE  /\ page.token = srv.token => d.view.s.ver < page.ver
                 /\ \A x \in calls' : TokenOf(x) # 0 /\ TokenOf(x) = srv.token => d.view.s.ver < x.view.s.ver
      <3>1. PICK e \in calls \ {c} : d.what = e.what /\ d.view = e.view /\ TokenOf(d) = TokenOf(e)
        BY <2>2, <2>4
      <3>2. /\ page.token = srv.token => d.view.s.ver < page.ver
            /\ \A x \in calls : TokenOf(x) # 0 /\ TokenOf(x) = srv.token => d.view.s.ver < x.view.s.ver
        BY <1>1, <2>4, <3>1 DEF TokensInv
      <3> QED
        BY <2>2, <3>2
    <2>5. (srv.token = 0 => page.token = 0 /\ \A d \in calls' : TokenOf(d) = 0)
          /\ \A d \in calls' : TokenOf(d) # 0 => d.what = "mcp"
      BY <1>1, <2>2 DEF TokensInv
    <2> QED
      BY <1>0, <1>2, <2>3, <2>4, <2>5 DEF TokensInv
  <1> QED
    BY <1>3, <1>4, <1>5, <1>6

LEMMA SaidStep ==
    ASSUME SettingsTypes, ShownInv, SettingsNext
    PROVE  ShownInv'
  <1>0. UNCHANGED block
    BY PlaceStep
  <1>1. CASE SettingsOperator
    BY <1>1, OperatorShown
  <1>2. CASE block # "update" /\ (UpdateOnly \/ Reload)
    BY <1>2, OtherBlocks, ShownKept
  <1>3. CASE block = "update" /\ (UpdateOnly \/ Reload)
    <2>1. CASE UpdateOnly
      BY <1>0, <1>3, <2>1, UpdateLeaves DEF ShownInv
    <2>2. CASE Reload
      BY <1>0, <1>3, <2>2 DEF ShownInv, Reload, Unloaded
    <2> QED
      BY <1>3, <2>1, <2>2
  <1>4. ASSUME NEW c \in calls, Deliver(c) \/ NotDone(c)
        PROVE  ShownInv'
    <2>1. SeenInv /\ SaidInv /\ block # "update"
      BY <1>4, BlockLeaves DEF ShownInv
    <2> QED
      BY <1>0, <1>4, <2>1, SeenAfter, DeliverShown, NotDoneShown DEF ShownInv, SaidInv
  <1>5. ASSUME NEW c \in calls, Read(c) \/ Save(c) \/ View(c)
        PROVE  ShownInv'
    <2>1. block # "update" /\ CallOK(block, c)
      BY <1>5 DEF SettingsTypes, CallsOK, CallOK, Read, Save, View, IsSetting
    <2> QED
      BY <1>0, <1>5, <2>1, ReadShown, SaveShown, ViewShown DEF ShownInv
  <1> QED
    BY <1>1, <1>2, <1>3, <1>4, <1>5, SettingsCases

LEMMA ShownInit == SettingsInit => ShownInv
  <1> SUFFICES ASSUME SettingsInit PROVE ShownInv
    OBVIOUS
  <1>1. /\ page.mcp = None /\ page.token = 0 /\ page.ver = 0 /\ srv.ver = 0 /\ srv.token = 0 /\ srv.made = 0
        /\ calls = {Get(block)} /\ confirm = None
    BY DEF SettingsInit, Unloaded
  <1>2. ~Got(Get(block)) /\ Get(block).base = None /\ Get(block).what = "get"
    BY DEF Got, Get, Call
  <1>3. SeenInv
    BY <1>1, <1>2 DEF SeenInv
  <1>4. Fresh
    BY <1>1, <1>2 DEF Fresh
  <1>5. AssistantsInv /\ EnginesInv /\ BanInv
    BY <1>1, <1>4 DEF AssistantsInv, EnginesInv, BanInv, SwitchInv
  <1>6. TokensInv
    BY <1>1, <1>2 DEF TokensInv, TokenOf
  <1> QED
    BY <1>1, <1>3, <1>5, <1>6 DEF ShownInv, SaidInv

LEMMA ShownHolds ==
    ASSUME SettingsTypes, ShownInv
    PROVE  SettingsShown
  <1> SUFFICES ASSUME calls = {}, confirm = None, fate = {}
               PROVE  /\ page.mcp # None => page.on = srv.on /\ page.act = srv.act /\ page.mcp.set = (srv.token # 0)
                      /\ page.token # 0 => page.token = srv.token
                      /\ here /\ page.engines # None => page.engines = srv.engines
                      /\ block = "ban" /\ page.touched = {} => page.form = srv.form
    BY DEF SettingsShown
  <1>0. PageOK /\ ~Newer /\ ~Fresh
    BY DEF SettingsTypes, Newer, Fresh
  <1>1. CASE block = "update"
    BY <1>0, <1>1 DEF ShownInv, PageOK
  <1>2. CASE block # "update"
    <2>1. SeenInv /\ AssistantsInv /\ EnginesInv /\ BanInv /\ TokensInv
      BY <1>2 DEF ShownInv, SaidInv
    <2>2. page.mcp # None => page.on = srv.on /\ page.act = srv.act /\ page.mcp.set = (srv.token # 0)
      <3>1. ASSUME page.mcp # None
            PROVE  page.mcp = Shows(srv) /\ page.on = page.mcp.on /\ page.act = page.mcp.act
        BY <1>0, <2>1, <3>1 DEF PageOK, AssistantsInv, SwitchInv, SeenInv
      <3> QED
        BY <3>1 DEF Shows
    <2>3. page.token # 0 => page.token = srv.token
      BY <2>1 DEF TokensInv
    <2>4. here /\ page.engines # None => page.engines = srv.engines
      BY <1>0, <2>1 DEF PageOK, EnginesInv
    <2>5. block = "ban" /\ page.touched = {} => page.form = srv.form
      BY <1>0, <2>1 DEF BanInv
    <2> QED
      BY <2>2, <2>3, <2>4, <2>5
  <1> QED
    BY <1>1, <1>2

-----------------------------------------------------------------------------
(* What followUpdate knows of the process that is updated.                 *)

IsPoll(f, c) == c.what = "poll" /\ c.name = f
IsStart(c) == c.what \in {"apply", "rollback"}

\* The process was started before it was asked to change, and went on since; it
\* was started anew when it answers again, and when it says it is idle.
WaitsOK(w) == /\ w.since <= host.boots /\ (host.boots = w.since => host.phase # "idle")
              /\ w.down /\ ~w.lost /\ host.up => host.boots > w.since
AnswerOK(w, v) == v.phase = "idle" \/ (w.down /\ ~w.lost) => host.boots > w.since

\* A call of followUpdate has one poll under way, or none.
SlotOK(f) ==
    /\ (follow[f] # None /\ follow[f].asked) <=> \E c \in calls : IsPoll(f, c)
    /\ \A c, d \in calls : IsPoll(f, c) /\ IsPoll(f, d) => c = d
    /\ follow[f] # None => /\ WaitsOK(follow[f])
                           /\ \A c \in calls : IsPoll(f, c) /\ Got(c) => AnswerOK(follow[f], c.view)
StartsOK ==
    \A c \in calls : IsStart(c) /\ Got(c) =>
        c.view.boots <= host.boots /\ (c.view.boots = host.boots => host.phase # "idle")
FollowInv ==
    follow \in [FollowSlots -> {None} \cup Followed] /\ (\A f \in FollowSlots : SlotOK(f)) /\ StartsOK

\* A process becomes idle, or answers again, by a start.
HostGoes == /\ host.boots <= host'.boots
            /\ host'.boots = host.boots => (host.phase # "idle" => host'.phase # "idle") /\ (host'.up => host.up)

LEMMA HostMoves ==
    ASSUME SettingsTypes, SettingsNext
    PROVE  HostGoes /\ host.boots \in Nat /\ host'.boots \in Nat
  <1>0. host \in Hosts /\ host' \in Hosts /\ host.boots <= host'.boots
    BY HostStep DEF SettingsTypes
  <1> SUFFICES ASSUME host'.boots = host.boots
               PROVE  (host.phase # "idle" => host'.phase # "idle") /\ (host'.up => host.up)
    BY <1>0 DEF HostGoes, Hosts
  <1>1. CASE UNCHANGED host
    BY <1>1
  <1>2. ASSUME NEW c \in calls, Serve(c)
        PROVE  (host.phase # "idle" => host'.phase # "idle") /\ (host'.up => host.up)
    <2>1. host.up /\ host' = Started(c)
      BY <1>2 DEF Serve
    <2>2. CASE c.what = "apply"
      <3> DEFINE h == [host EXCEPT !.phase = "installing"]
      <3>1. host' = [h EXCEPT !.next = {host.running, c.val}]
        BY <2>1, <2>2 DEF Started
      <3>2. h.phase = "installing" /\ h \in Hosts
        BY <1>0 DEF Hosts
      <3> HIDE DEF h
      <3> QED
        BY <2>1, <3>1, <3>2 DEF Hosts
    <2>3. CASE c.what = "rollback"
      <3> DEFINE h == [host EXCEPT !.phase = "restarting"]
      <3>1. host' = [h EXCEPT !.next = {host.running - 1}]
        BY <2>1, <2>3 DEF Started
      <3>2. h.phase = "restarting" /\ h \in Hosts
        BY <1>0 DEF Hosts
      <3> HIDE DEF h
      <3> QED
        BY <2>1, <3>1, <3>2 DEF Hosts
    <2>4. CASE c.what \notin {"apply", "rollback"}
      BY <2>1, <2>4 DEF Started
    <2> QED
      BY <2>2, <2>3, <2>4
  <1>3. CASE Install
    <2>1. PICK ph \in {"restarting", "failed"} : host' = [host EXCEPT !.phase = ph]
      BY <1>3 DEF Install
    <2> QED
      BY <1>0, <2>1 DEF Hosts
  <1>4. CASE Restart
    BY <1>0, <1>4 DEF Restart, Hosts
  <1>5. CASE Boot
    <2>1. host'.boots = host.boots + 1
      BY <1>5 DEF Boot
    <2> QED
      BY <1>0, <2>1 DEF Hosts
  <1>6. CASE UpdateOnly
    <2>1. ASSUME NEW c \in calls, Updated(c) \/ NotUpdated(c) \/ PollAnswered(c) \/ PollFailed(c)
          PROVE  UNCHANGED host
      BY <2>1 DEF Updated, NotUpdated, PollAnswered, PollFailed, update_vars
    <2>2. ASSUME NEW f \in FollowSlots, PollUpdate(f) \/ Late(f) \/ Over(f)
          PROVE  UNCHANGED host
      BY <2>2 DEF PollUpdate, Late, Over
    <2> QED
      BY <1>1, <1>2, <1>3, <1>4, <1>5, <1>6, <2>1, <2>2 DEF UpdateOnly
  <1>7. CASE Reload
    BY <1>1, <1>7 DEF Reload
  <1> QED
    BY <1>1, <1>6, <1>7, SettingsCases, OperatorLeaves, HandlersLeave, BlockLeaves

\* What was known of the process stays so.
LEMMA StillBehind ==
    ASSUME HostGoes, host.boots \in Nat, host'.boots \in Nat, NEW w \in Followed
    PROVE  /\ WaitsOK(w) => WaitsOK(w)'
           /\ \A v : AnswerOK(w, v) => AnswerOK(w, v)'
  <1>1. w.since \in Nat
    BY DEF Followed
  <1> QED
    BY <1>1 DEF HostGoes, WaitsOK, AnswerOK

LEMMA StartsKept ==
    ASSUME SettingsTypes, HostGoes, StartsOK, host.boots \in Nat, host'.boots \in Nat,
           \A d \in calls' : IsStart(d) /\ Got(d) => d \in calls
    PROVE  StartsOK'
  <1> SUFFICES ASSUME NEW c \in calls', IsStart(c), Got(c)
               PROVE  c.view.boots <= host'.boots /\ (c.view.boots = host'.boots => host'.phase # "idle")
    BY DEF StartsOK
  <1>1. c \in calls /\ CallOK(block, c)
    BY DEF SettingsTypes, CallsOK
  <1>2. c.view.boots \in Nat
    BY <1>1 DEF CallOK, IsStart, Got, Reports
  <1>3. c.view.boots <= host.boots /\ (c.view.boots = host.boots => host.phase # "idle")
    BY <1>1 DEF StartsOK
  <1> QED
    BY <1>2, <1>3 DEF HostGoes

\* A call of followUpdate that a step does not touch.
LEMMA SlotKept ==
    ASSUME HostGoes, host.boots \in Nat, host'.boots \in Nat, NEW f \in FollowSlots, SlotOK(f),
           follow[f] \in {None} \cup Followed, follow'[f] = follow[f],
           \A c : IsPoll(f, c) => (c \in calls' <=> c \in calls)
    PROVE  SlotOK(f)'
  <1>1. CASE follow[f] = None
    BY <1>1 DEF SlotOK
  <1>2. CASE follow[f] # None
    <2>1. PICK w \in Followed : w = follow[f]
      BY <1>2
    <2>2. WaitsOK(w)' /\ \A c \in calls' : IsPoll(f, c) /\ Got(c) => AnswerOK(w, c.view)'
      BY <1>2, <2>1, StillBehind DEF SlotOK
    <2>3. WaitsOK(follow[f])' /\ \A c \in calls' : IsPoll(f, c) /\ Got(c) => AnswerOK(follow[f], c.view)'
      BY <2>1, <2>2 DEF WaitsOK, AnswerOK
    <2> QED
      BY <2>3 DEF SlotOK
  <1> QED
    BY <1>1, <1>2

\* A step that touches one call of followUpdate, or none.
LEMMA OneSlot ==
    ASSUME FollowInv, HostGoes, host.boots \in Nat, host'.boots \in Nat, StartsOK',
           follow' \in [FollowSlots -> {None} \cup Followed], NEW f \in FollowSlots, SlotOK(f)',
           \A g \in FollowSlots \ {f} : /\ follow'[g] = follow[g]
                                        /\ \A c : IsPoll(g, c) => (c \in calls' <=> c \in calls)
    PROVE  FollowInv'
  <1>1. \A g \in FollowSlots \ {f} : SlotOK(g)'
    BY SlotKept DEF FollowInv
  <1> QED
    BY <1>1 DEF FollowInv

LEMMA FollowKept ==
    ASSUME SettingsTypes, FollowInv, HostGoes, host.boots \in Nat, host'.boots \in Nat, follow' = follow,
           \A c : c.what = "poll" => (c \in calls' <=> c \in calls),
           \A d \in calls' : IsStart(d) /\ Got(d) => d \in calls
    PROVE  FollowInv'
  <1>1. StartsOK'
    BY StartsKept DEF FollowInv
  <1>2. \A g \in FollowSlots : SlotOK(g)'
    BY SlotKept DEF FollowInv, IsPoll
  <1> QED
    BY <1>1, <1>2 DEF FollowInv

\* The operator polls nothing.
LEMMA OperatorSends ==
    ASSUME SettingsTypes, SettingsOperator, block = "update"
    PROVE  \/ calls' = calls /\ page' = page
           \/ OneSent("get") /\ UNCHANGED confirm
           \/ confirm # None /\ confirm' = None /\ confirm.what # "mcp"
              /\ (OneSent(confirm.what) \/ calls' = calls)
  <1>1. CASE LoadSettings
    <2>1. Get(block).what = "get" /\ Get(block).base = None /\ Get(block).view = None
      BY DEF Get, Call
    <2> QED
      BY <1>1, <2>1, GetOK, SentOne DEF LoadSettings
  <1>2. CASE Confirmed
    <2>1. CallOK(block, confirm) /\ confirm.base = None /\ confirm.view = None /\ confirm # None /\ confirm' = None
      BY <1>2, QuestionOK DEF SettingsTypes, Confirmed
    <2>2. confirm.what # "mcp"
      BY <2>1 DEF CallOK
    <2> QED
      BY <1>2, <2>1, <2>2, SentOne DEF Confirmed
  <1> QED
    BY <1>1, <1>2 DEF SettingsOperator, Leave, SaveMCP, NewMCPToken, SwitchEngine, EditForm, SaveSettings,
                      ApplyUpdate, RollbackUpdate, On

LEMMA ServedFollow ==
    ASSUME SettingsTypes, FollowInv, NEW c \in calls, Serve(c), HostGoes, host.boots \in Nat, host'.boots \in Nat
    PROVE  FollowInv'
  <1>1. PICK d : /\ calls' = (calls \ {c}) \cup {d} /\ d.what = c.what /\ d.name = c.name
                 /\ d.view = Report(host') /\ d.view # None
    BY ServedCall
  <1>2. host.up /\ UNCHANGED follow /\ c.view = None /\ CallOK(block, c)
    BY DEF Serve, SettingsTypes, CallsOK
  <1>3. d.view.boots = host'.boots /\ d.view.phase = host'.phase
    BY <1>1 DEF Report
  <1>4. StartsOK'
    <2> SUFFICES ASSUME NEW e \in calls', IsStart(e), Got(e)
                 PROVE  e.view.boots <= host'.boots /\ (e.view.boots = host'.boots => host'.phase # "idle")
      BY DEF StartsOK
    <2>1. CASE e = d
      <3>1. host'.phase # "idle"
        <4>1. host \in Hosts /\ host' = Started(c)
          BY DEF SettingsTypes, Serve
        <4>2. CASE c.what = "apply"
          <5> DEFINE h == [host EXCEPT !.phase = "installing"]
          <5>1. host' = [h EXCEPT !.next = {host.running, c.val}]
            BY <4>1, <4>2 DEF Started
          <5>2. h.phase = "installing" /\ h \in Hosts
            BY <4>1 DEF Hosts
          <5> HIDE DEF h
          <5> QED
            BY <5>1, <5>2 DEF Hosts
        <4>3. CASE c.what = "rollback"
          <5> DEFINE h == [host EXCEPT !.phase = "restarting"]
          <5>1. host' = [h EXCEPT !.next = {host.running - 1}]
            BY <4>1, <4>3 DEF Started
          <5>2. h.phase = "restarting" /\ h \in Hosts
            BY <4>1 DEF Hosts
          <5> HIDE DEF h
          <5> QED
            BY <5>1, <5>2 DEF Hosts
        <4> QED
          BY <1>1, <2>1, <4>2, <4>3 DEF IsStart
      <3> QED
        BY <1>3, <2>1, <3>1
    <2>2. CASE e \in calls
      <3>1. e.view.boots <= host.boots /\ (e.view.boots = host.boots => host.phase # "idle")
        BY <2>2 DEF FollowInv, StartsOK
      <3>2. e.view.boots \in Nat
        BY <2>2 DEF SettingsTypes, CallsOK, CallOK, IsStart, Got, Reports
      <3> QED
        BY <3>1, <3>2 DEF HostGoes
    <2> QED
      BY <1>1, <2>1, <2>2
  <1>5. CASE c.what # "poll"
    <2>1. \A e : e.what = "poll" => (e \in calls' <=> e \in calls)
      BY <1>1, <1>5
    <2>2. \A g \in FollowSlots : SlotOK(g)'
      BY <1>2, <2>1, SlotKept DEF FollowInv, IsPoll
    <2> QED
      BY <1>2, <1>4, <2>2 DEF FollowInv
  <1>6. CASE c.what = "poll"
    <2>1. PICK f \in FollowSlots : f = c.name
      BY <1>2, <1>6 DEF CallOK
    <2>2. host' = host
      BY <1>6 DEF Serve, Started
    <2>3. \A g \in FollowSlots \ {f} : follow'[g] = follow[g] /\ \A e : IsPoll(g, e) => (e \in calls' <=> e \in calls)
      BY <1>1, <1>2, <2>1 DEF IsPoll
    <2>4. SlotOK(f)'
      <3>1. SlotOK(f) /\ IsPoll(f, c)
        BY <1>6, <2>1 DEF FollowInv, IsPoll
      <3>2. \A e \in calls' : IsPoll(f, e) => e = d
        BY <1>1, <3>1 DEF SlotOK
      <3>3. follow[f] # None /\ follow[f] \in Followed /\ follow[f].asked /\ WaitsOK(follow[f])
        BY <3>1 DEF SlotOK, FollowInv
      <3>4. IsPoll(f, d) /\ d \in calls'
        BY <1>1, <3>1 DEF IsPoll
      <3>5. follow[f].since \in Nat
        BY <3>3 DEF Followed
      <3>6. AnswerOK(follow[f], d.view)
        BY <1>2, <1>3, <2>2, <3>3, <3>5 DEF WaitsOK, AnswerOK
      <3>7. UNCHANGED <<WaitsOK(follow[f]), AnswerOK(follow[f], d.view)>>
        BY <1>2, <2>2 DEF WaitsOK, AnswerOK
      <3> QED
        BY <1>2, <3>2, <3>3, <3>4, <3>6, <3>7 DEF SlotOK
    <2> QED
      BY <1>2, <1>4, <2>3, <2>4, OneSlot DEF FollowInv
  <1> QED
    BY <1>5, <1>6

LEMMA FollowingType ==
    ASSUME NEW target \in {None, Newest}, NEW since \in Nat
    PROVE  Following(target, since) \in Followed /\ Following(target, since) # None
  <1>1. Following(target, since) \in Followed
    BY DEF Following, Followed
  <1> QED
    BY <1>1, NoneAssumption

\* A change that was answered is followed from the start the answer was given in.
LEMMA UpdatedFollow ==
    ASSUME SettingsTypes, FollowInv, NEW c \in calls, Updated(c), HostGoes, host.boots \in Nat, host'.boots \in Nat,
           IsStart(c) => \E f \in FollowSlots : follow[f] = None
    PROVE  /\ FollowInv'
           /\ IF IsStart(c)
              THEN \E f \in FollowSlots : /\ follow[f] = None
                                          /\ \A g \in FollowSlots \ {f} : follow'[g] = follow[g]
              ELSE follow' = follow
  <1>1. CallOK(block, c) /\ c.what # "poll" /\ block = "update" /\ Got(c) /\ calls' = calls \ {c} /\ UNCHANGED host
    BY DEF SettingsTypes, CallsOK, Updated, Got
  <1>2. CASE c.what = "get"
    <2>1. follow' = follow
      BY <1>2 DEF Updated
    <2> QED
      BY <1>1, <1>2, <2>1, FollowKept DEF IsStart
  <1>3. CASE IsStart(c)
    <2>1. PICK f : f = CHOOSE g \in FollowSlots : follow[g] = None
      OBVIOUS
    <2>2. f \in FollowSlots /\ follow[f] = None
      BY <1>3, <2>1
    <2>3. \E target \in {None, Newest} : follow' = [follow EXCEPT ![f] = Following(target, c.view.boots)]
      BY <1>1, <1>3, <2>1 DEF IsStart, Updated, Begin, CallOK
    <2>4. PICK target \in {None, Newest} : follow' = [follow EXCEPT ![f] = Following(target, c.view.boots)]
      BY <2>3
    <2>5. c.view.boots \in Nat /\ c.view.boots <= host.boots /\ (c.view.boots = host.boots => host.phase # "idle")
      BY <1>1, <1>3 DEF CallOK, Got, Reports, FollowInv, StartsOK
    <2>6. PICK w \in Followed : w = Following(target, c.view.boots) /\ w # None
      BY <2>5, FollowingType
    <2>7. w.since = c.view.boots /\ w.down = FALSE /\ w.asked = FALSE
      BY <2>6 DEF Following
    <2>8. /\ follow' \in [FollowSlots -> {None} \cup Followed] /\ follow'[f] = w
          /\ \A g \in FollowSlots \ {f} : follow'[g] = follow[g]
      BY <2>2, <2>4, <2>6 DEF FollowInv
    <2>9. SlotOK(f)'
      <3>1. \A e \in calls : ~IsPoll(f, e)
        BY <2>2 DEF FollowInv, SlotOK
      <3>2. WaitsOK(w)'
        BY <1>1, <2>5, <2>7 DEF WaitsOK
      <3>3. WaitsOK(follow[f])'
        BY <2>8, <3>2 DEF WaitsOK
      <3> QED
        BY <1>1, <2>7, <2>8, <3>1, <3>3 DEF SlotOK
    <2>10. StartsOK'
      BY <1>1, StartsKept DEF FollowInv
    <2> QED
      BY <1>1, <1>3, <2>2, <2>8, <2>9, <2>10, OneSlot DEF IsPoll
  <1> QED
    BY <1>1, <1>2, <1>3 DEF CallOK, IsStart

\* What the timers and a poll change of a call of followUpdate.
LEMMA FollowSet ==
    ASSUME NEW w \in Followed
    PROVE  /\ [w EXCEPT !.asked = TRUE] \in Followed /\ [w EXCEPT !.asked = FALSE] \in Followed
           /\ [w EXCEPT !.late = TRUE] \in Followed /\ [w EXCEPT !.over = TRUE] \in Followed
           /\ \A x \in {[w EXCEPT !.asked = TRUE], [w EXCEPT !.late = TRUE], [w EXCEPT !.over = TRUE],
                        [w EXCEPT !.asked = FALSE]} :
                  x.since = w.since /\ x.down = w.down /\ x.lost = w.lost
           /\ [w EXCEPT !.asked = TRUE].asked = TRUE /\ [w EXCEPT !.asked = FALSE].asked = FALSE
           /\ [w EXCEPT !.late = TRUE].asked = w.asked /\ [w EXCEPT !.over = TRUE].asked = w.asked
  BY DEF Followed

LEMMA TimedFollow ==
    ASSUME SettingsTypes, FollowInv, NEW f \in FollowSlots, Late(f) \/ Over(f)
    PROVE  FollowInv' /\ follow'[f] # None /\ \A g \in FollowSlots \ {f} : follow'[g] = follow[g]
  <1>1. PICK w \in Followed : w = follow[f]
    BY DEF FollowInv, Late, Over
  <1>2. UNCHANGED <<calls, host>>
    BY DEF Late, Over
  <1>3. \E x \in Followed : /\ follow' = [follow EXCEPT ![f] = x]
                            /\ x.since = w.since /\ x.down = w.down /\ x.lost = w.lost /\ x.asked = w.asked
    <2>1. CASE Late(f)
      <3>1. follow' = [follow EXCEPT ![f] = [w EXCEPT !.late = TRUE]]
        BY <1>1, <2>1 DEF Late, FollowInv
      <3> QED
        BY <3>1, FollowSet
    <2>2. CASE Over(f)
      <3>1. follow' = [follow EXCEPT ![f] = [w EXCEPT !.over = TRUE]]
        BY <1>1, <2>2 DEF Over, FollowInv
      <3> QED
        BY <3>1, FollowSet
    <2> QED
      BY <2>1, <2>2
  <1>4. PICK x \in Followed : /\ follow' = [follow EXCEPT ![f] = x]
                              /\ x.since = w.since /\ x.down = w.down /\ x.lost = w.lost /\ x.asked = w.asked
    BY <1>3
  <1>5. /\ follow' \in [FollowSlots -> {None} \cup Followed] /\ follow'[f] = x /\ x # None /\ w # None
        /\ \A g \in FollowSlots \ {f} : follow'[g] = follow[g]
    BY <1>4, NoneAssumption DEF FollowInv
  <1>6. SlotOK(f) /\ HostGoes /\ host.boots \in Nat /\ host'.boots \in Nat
    BY <1>2 DEF FollowInv, HostGoes, SettingsTypes, Hosts
  <1>7. SlotOK(f)'
    <2>1. WaitsOK(x)' /\ \A c \in calls' : IsPoll(f, c) /\ Got(c) => AnswerOK(x, c.view)'
      BY <1>1, <1>2, <1>4, <1>5, <1>6 DEF SlotOK, WaitsOK, AnswerOK
    <2>2. WaitsOK(follow[f])' /\ \A c \in calls' : IsPoll(f, c) /\ Got(c) => AnswerOK(follow[f], c.view)'
      BY <1>5, <2>1 DEF WaitsOK, AnswerOK
    <2> QED
      BY <1>1, <1>2, <1>4, <1>5, <1>6, <2>2 DEF SlotOK
  <1>8. StartsOK'
    BY <1>2 DEF FollowInv, StartsOK
  <1> QED
    BY <1>2, <1>5, <1>6, <1>7, <1>8, OneSlot

LEMMA PolledFollow ==
    ASSUME SettingsTypes, FollowInv, NEW f \in FollowSlots, PollUpdate(f)
    PROVE  /\ FollowInv' /\ follow'[f] # None /\ (\A g \in FollowSlots \ {f} : follow'[g] = follow[g])
           /\ OneSent("poll")
  <1>1. PICK w \in Followed : w = follow[f] /\ w.asked = FALSE
    BY DEF FollowInv, PollUpdate, Followed
  <1>2. UNCHANGED host /\ follow' = [follow EXCEPT ![f] = [w EXCEPT !.asked = TRUE]]
    BY <1>1 DEF PollUpdate, FollowInv
  <1>3. PICK x \in Followed : /\ follow' = [follow EXCEPT ![f] = x]
                              /\ x.since = w.since /\ x.down = w.down /\ x.lost = w.lost /\ x.asked = TRUE
    BY <1>2, FollowSet
  <1>4. /\ follow' \in [FollowSlots -> {None} \cup Followed] /\ follow'[f] = x /\ x # None /\ w # None
        /\ \A g \in FollowSlots \ {f} : follow'[g] = follow[g]
    BY <1>3, NoneAssumption DEF FollowInv
  <1>5. SlotOK(f) /\ HostGoes /\ host.boots \in Nat /\ host'.boots \in Nat
    BY <1>2 DEF FollowInv, HostGoes, SettingsTypes, Hosts
  <1>6. \E d : calls' = calls \cup {d} /\ ~Got(d) /\ IsPoll(f, d)
    <2>1. PICK c : c = Call("poll", f, None)
      OBVIOUS
    <2>2. block = "update"
      BY DEF PollUpdate, SettingsTypes, PlaceOK
    <2>3. CallOK(block, c) /\ c.view = None /\ IsPoll(f, c)
      BY <2>1, <2>2 DEF CallOK, IsCall, Call, IsPoll
    <2>4. calls' = calls \cup {Numbered(c)}
      BY <2>1 DEF PollUpdate, Send
    <2>5. ~Got(Numbered(c)) /\ IsPoll(f, Numbered(c))
      BY <2>3, NumberedOK DEF Got, IsPoll
    <2> QED
      BY <2>4, <2>5
  <1>7. PICK d : calls' = calls \cup {d} /\ ~Got(d) /\ IsPoll(f, d)
    BY <1>6
  <1>8. SlotOK(f)'
    <2>1. \A e \in calls : ~IsPoll(f, e)
      BY <1>1, <1>5 DEF SlotOK
    <2>2. WaitsOK(x)'
      BY <1>1, <1>2, <1>3, <1>4, <1>5 DEF SlotOK, WaitsOK
    <2>3. WaitsOK(follow[f])'
      BY <1>4, <2>2 DEF WaitsOK
    <2> QED
      BY <1>3, <1>4, <1>7, <2>1, <2>3 DEF SlotOK
  <1>9. StartsOK'
    BY <1>2, <1>7 DEF FollowInv, StartsOK, IsPoll, IsStart
  <1>10. \A g \in FollowSlots \ {f} : \A c : IsPoll(g, c) => (c \in calls' <=> c \in calls)
    BY <1>7 DEF IsPoll
  <1>11. OneSent("poll")
    <2>1. Call("poll", f, None).base = None /\ Call("poll", f, None).view = None /\ Call("poll", f, None).what = "poll"
          /\ CallOK(block, Call("poll", f, None)) /\ Send(Call("poll", f, None))
      BY DEF PollUpdate, SettingsTypes, PlaceOK, Call, CallOK, IsCall
    <2> QED
      BY <2>1, SentOne
  <1> QED
    BY <1>4, <1>5, <1>8, <1>9, <1>10, <1>11, OneSlot

\* A poll that was answered, or was not, is over; its call goes on or ends.
LEMMA PollOver ==
    ASSUME SettingsTypes, FollowInv, NEW c \in calls, c.what = "poll", calls' = calls \ {c}, UNCHANGED host,
           NEW w \in {None} \cup Followed, follow' = [follow EXCEPT ![c.name] = w],
           w # None => WaitsOK(w) /\ ~w.asked
    PROVE  FollowInv' /\ \A g \in FollowSlots : follow'[g] # None => follow[g] # None
  <1>1. PICK f \in FollowSlots : f = c.name
    BY DEF SettingsTypes, CallsOK, CallOK
  <1>2. /\ follow' \in [FollowSlots -> {None} \cup Followed] /\ follow'[f] = w
        /\ \A g \in FollowSlots \ {f} : follow'[g] = follow[g]
    BY <1>1 DEF FollowInv
  <1>3. SlotOK(f) /\ HostGoes /\ host.boots \in Nat /\ host'.boots \in Nat /\ IsPoll(f, c)
    BY <1>1 DEF FollowInv, HostGoes, SettingsTypes, Hosts, IsPoll
  <1>4. \A e \in calls' : ~IsPoll(f, e)
    BY <1>3 DEF SlotOK
  <1>5. SlotOK(f)'
    <2>1. w # None => WaitsOK(w)'
      BY DEF WaitsOK
    <2>2. w # None => WaitsOK(follow[f])'
      BY <1>2, <2>1 DEF WaitsOK
    <2> QED
      BY <1>2, <1>4, <2>2 DEF SlotOK
  <1>6. StartsOK'
    BY DEF FollowInv, StartsOK
  <1>7. follow[f] # None
    BY <1>3 DEF SlotOK
  <1> QED
    BY <1>1, <1>2, <1>3, <1>5, <1>6, <1>7, OneSlot DEF IsPoll

LEMMA AnsweredFollow ==
    ASSUME SettingsTypes, FollowInv, NEW c \in calls, PollAnswered(c), VerdictTrue
    PROVE  FollowInv' /\ VerdictTrue' /\ \A g \in FollowSlots : follow'[g] # None => follow[g] # None
  <1>1. PICK f \in FollowSlots : f = c.name
    BY DEF SettingsTypes, CallsOK, CallOK, PollAnswered
  <1>2. SlotOK(f) /\ IsPoll(f, c) /\ Got(c)
    BY <1>1 DEF FollowInv, IsPoll, Got, PollAnswered
  <1>3. PICK w \in Followed : w = follow[f] /\ WaitsOK(w) /\ AnswerOK(w, c.view)
    <2>1. follow[f] # None
      BY <1>2 DEF SlotOK
    <2> QED
      BY <1>2, <2>1 DEF SlotOK, FollowInv
  <1>4. calls' = calls \ {c} /\ UNCHANGED host /\ c.what = "poll"
    BY DEF PollAnswered
  <1>5. /\ follow' = [follow EXCEPT ![c.name] = None] \/ follow' = [follow EXCEPT ![c.name] = Onward(w)]
        /\ verdict' = verdict \/ (Restarted(w, c.view) /\ verdict' = Says(w, c.view))
    BY <1>1, <1>3 DEF PollAnswered
  <1>6. Onward(w) = None \/ (Onward(w) \in Followed /\ WaitsOK(Onward(w)) /\ ~Onward(w).asked)
    <2>1. PICK x : x = [w EXCEPT !.asked = FALSE]
      OBVIOUS
    <2>2. x \in Followed /\ x.since = w.since /\ x.down = w.down /\ x.lost = w.lost /\ x.asked = FALSE
      BY <2>1, FollowSet
    <2>3. WaitsOK(x)
      BY <1>3, <2>2 DEF WaitsOK
    <2> QED
      BY <2>1, <2>2, <2>3 DEF Onward
  <1>7. FollowInv' /\ \A g \in FollowSlots : follow'[g] # None => follow[g] # None
    <2>1. CASE follow' = [follow EXCEPT ![c.name] = None]
      BY <1>4, <2>1, PollOver
    <2>2. CASE follow' = [follow EXCEPT ![c.name] = Onward(w)]
      BY <1>4, <1>6, <2>2, PollOver
    <2> QED
      BY <1>5, <2>1, <2>2
  <1>8. VerdictTrue'
    <2>1. CASE verdict' = verdict
      BY <2>1 DEF VerdictTrue
    <2>2. CASE Restarted(w, c.view) /\ verdict' = Says(w, c.view)
      <3>1. /\ verdict'.ok = (w.target = None \/ c.view.running = w.target) /\ verdict'.target = w.target
            /\ verdict'.running = c.view.running /\ verdict'.restarts = host.boots - w.since /\ verdict'.lost = w.lost
        BY <2>2 DEF Says
      <3>2. ~w.lost => host.boots > w.since
        BY <1>3, <2>2 DEF AnswerOK, Restarted
      <3>3. host.boots \in Nat /\ w.since \in Nat
        BY DEF SettingsTypes, Hosts, Followed
      <3>4. ~w.lost => host.boots - w.since > 0
        BY <3>2, <3>3
      <3> QED
        BY <3>1, <3>4 DEF VerdictTrue
    <2> QED
      BY <1>5, <2>1, <2>2
  <1> QED
    BY <1>7, <1>8

LEMMA FailedFollow ==
    ASSUME SettingsTypes, FollowInv, NEW c \in calls, PollFailed(c)
    PROVE  FollowInv' /\ \A g \in FollowSlots : follow'[g] # None => follow[g] # None
  <1>1. PICK f \in FollowSlots : f = c.name
    BY DEF SettingsTypes, CallsOK, CallOK, PollFailed
  <1>2. SlotOK(f) /\ IsPoll(f, c)
    BY <1>1 DEF FollowInv, IsPoll, PollFailed
  <1>3. PICK w \in Followed : w = follow[f] /\ WaitsOK(w)
    <2>1. follow[f] # None
      BY <1>2 DEF SlotOK
    <2> QED
      BY <1>2, <2>1 DEF SlotOK, FollowInv
  <1>4. calls' = calls \ {c} /\ UNCHANGED host /\ c.what = "poll"
    BY DEF PollFailed, update_vars
  <1> DEFINE q == [w EXCEPT !.down = TRUE]
             y == [q EXCEPT !.lost = w.lost \/ ~Away(c)]
  <1>5. q \in Followed /\ q.since = w.since /\ q.down = TRUE /\ q.over = w.over
    BY DEF Followed
  <1>6. follow' = [follow EXCEPT ![c.name] = Onward(y)]
    <2>1. follow' = [follow EXCEPT ![f] = Onward(Missed(w, c))]
      BY <1>1, <1>3 DEF PollFailed, FollowInv
    <2>2. Missed(w, c) = y
      BY DEF Followed, Missed
    <2> HIDE DEF y
    <2> QED
      BY <1>1, <2>1, <2>2
  <1> HIDE DEF q
  <1>7. y \in Followed /\ y.since = w.since /\ y.down = TRUE /\ y.lost = (w.lost \/ ~Away(c))
    BY <1>3, <1>5 DEF Followed, Away
  <1>8. PICK z : z = y
    OBVIOUS
  <1> HIDE DEF y
  <1>9. WaitsOK(z)
    BY <1>3, <1>7, <1>8 DEF WaitsOK, Away
  <1>10. Onward(z) = None \/ (Onward(z) \in Followed /\ WaitsOK(Onward(z)) /\ ~Onward(z).asked)
    <2>1. z \in Followed
      BY <1>7, <1>8
    <2>2. PICK x : x = [z EXCEPT !.asked = FALSE]
      OBVIOUS
    <2>3. x \in Followed /\ x.since = z.since /\ x.down = z.down /\ x.lost = z.lost /\ x.asked = FALSE
      BY <2>1, <2>2, FollowSet
    <2>4. WaitsOK(x)
      BY <1>9, <2>3 DEF WaitsOK
    <2> QED
      BY <2>2, <2>3, <2>4 DEF Onward
  <1> QED
    BY <1>4, <1>6, <1>8, <1>10, PollOver

LEMMA ReloadFollow ==
    ASSUME SettingsTypes, FollowInv, Reload
    PROVE  FollowInv' /\ \A g \in FollowSlots : follow'[g] = None
  <1>1. follow' = [f \in FollowSlots |-> None] /\ UNCHANGED host /\ calls' \in {{}, {Get(block)}}
    BY DEF Reload
  <1>2. \A c \in calls' : c.what = "get"
    BY <1>1 DEF Get, Call
  <1>3. \A f \in FollowSlots : SlotOK(f)'
    BY <1>1, <1>2 DEF SlotOK, IsPoll
  <1>4. StartsOK'
    BY <1>1, <1>2 DEF StartsOK, IsStart
  <1> QED
    BY <1>1, <1>3, <1>4 DEF FollowInv

\* A change that is asked about or sent has a free place for its call of followUpdate.
Ongoing == {f \in FollowSlots : follow[f] # None}
Changing == {c \in calls : IsStart(c)}
Asking == IF confirm = None THEN 0 ELSE 1
RoomInv ==
    block = "update" =>
        IsFiniteSet(calls) /\ Cardinality(Ongoing) + Cardinality(Changing) + Asking <= Follows

LEMMA OneMore ==
    ASSUME NEW S, IsFiniteSet(S), NEW x, NEW T, T \subseteq S \cup {x}
    PROVE  IsFiniteSet(T) /\ Cardinality(T) \in Nat /\ Cardinality(S) \in Nat /\ Cardinality(T) <= Cardinality(S) + 1
  <1>1. IsFiniteSet(S \cup {x}) /\ Cardinality(S \cup {x}) = IF x \in S THEN Cardinality(S) ELSE Cardinality(S) + 1
    BY FS_AddElement
  <1>2. IsFiniteSet(T) /\ Cardinality(T) <= Cardinality(S \cup {x})
    BY <1>1, FS_Subset
  <1>3. Cardinality(T) \in Nat /\ Cardinality(S) \in Nat
    BY <1>2, FS_CardinalityType
  <1> QED
    BY <1>1, <1>2, <1>3

LEMMA NoMore ==
    ASSUME NEW S, IsFiniteSet(S), NEW T, T \subseteq S
    PROVE  IsFiniteSet(T) /\ Cardinality(T) \in Nat /\ Cardinality(S) \in Nat /\ Cardinality(T) <= Cardinality(S)
  <1>1. IsFiniteSet(T) /\ Cardinality(T) <= Cardinality(S)
    BY FS_Subset
  <1> QED
    BY <1>1, FS_CardinalityType

LEMMA OneLess ==
    ASSUME NEW S, IsFiniteSet(S), NEW x \in S, NEW T, T \subseteq S \ {x}
    PROVE  IsFiniteSet(T) /\ Cardinality(T) \in Nat /\ Cardinality(S) \in Nat /\ Cardinality(T) <= Cardinality(S) - 1
  <1>1. IsFiniteSet(S \ {x}) /\ Cardinality(S \ {x}) = Cardinality(S) - 1
    BY FS_RemoveElement
  <1>2. IsFiniteSet(T) /\ Cardinality(T) \in Nat /\ Cardinality(T) <= Cardinality(S \ {x})
    BY <1>1, NoMore
  <1>3. Cardinality(S) \in Nat
    BY FS_CardinalityType
  <1> QED
    BY <1>1, <1>2, <1>3

LEMMA Counts ==
    ASSUME IsFiniteSet(calls)
    PROVE  /\ IsFiniteSet(Ongoing) /\ IsFiniteSet(Changing) /\ IsFiniteSet(FollowSlots)
           /\ Cardinality(Ongoing) \in Nat /\ Cardinality(Changing) \in Nat
           /\ Cardinality(FollowSlots) = Follows /\ Follows \in Nat
  <1>1. Follows \in Nat /\ 1 \in Int /\ Follows \in Int
    BY SettingsAssumption
  <1>2. IsFiniteSet(1..Follows) /\ Cardinality(1..Follows) = IF 1 > Follows THEN 0 ELSE Follows - 1 + 1
    BY <1>1, FS_Interval, Zenon
  <1>3. IsFiniteSet(FollowSlots) /\ Cardinality(FollowSlots) = Follows
    BY <1>1, <1>2 DEF FollowSlots
  <1>4. Ongoing \subseteq FollowSlots /\ Changing \subseteq calls
    BY DEF Ongoing, Changing
  <1> QED
    BY <1>1, <1>3, <1>4, NoMore

\* An answer to a change finds a free place.
LEMMA FreePlace ==
    ASSUME RoomInv, block = "update", NEW c \in calls, IsStart(c)
    PROVE  \E f \in FollowSlots : follow[f] = None
  <1>1. IsFiniteSet(calls) /\ c \in Changing /\ Asking \in Nat
    BY DEF RoomInv, Changing, Asking
  <1>2. Cardinality(Ongoing) + Cardinality(Changing) + Asking <= Follows
    BY DEF RoomInv
  <1>3. Cardinality(Changing) # 0
    BY <1>1, Counts, FS_EmptySet
  <1>4. Cardinality(Ongoing) # Cardinality(FollowSlots)
    BY <1>1, <1>2, <1>3, Counts
  <1>5. Ongoing # FollowSlots
    BY <1>4
  <1> QED
    BY <1>5 DEF Ongoing

\* Fewer calls, and no new question.
LEMMA RoomKept ==
    ASSUME RoomInv, block = "update", UNCHANGED block, IsFiniteSet(calls'), confirm' \in {confirm, None},
           Changing' \subseteq Changing, Ongoing' \subseteq Ongoing
    PROVE  RoomInv'
  <1>1. /\ IsFiniteSet(Ongoing) /\ IsFiniteSet(Changing)
        /\ Cardinality(Ongoing) + Cardinality(Changing) + Asking <= Follows /\ Follows \in Nat
    BY Counts DEF RoomInv
  <1>2. Cardinality(Ongoing') <= Cardinality(Ongoing) /\ Cardinality(Ongoing') \in Nat /\ Cardinality(Ongoing) \in Nat
    BY <1>1, NoMore
  <1>3. Cardinality(Changing') <= Cardinality(Changing) /\ Cardinality(Changing') \in Nat /\ Cardinality(Changing) \in Nat
    BY <1>1, NoMore
  <1>4. Asking' \in Nat /\ Asking \in Nat /\ Asking' <= Asking
    BY DEF Asking
  <1>5. Cardinality(Ongoing') + Cardinality(Changing') + Asking' <= Follows
    BY <1>1, <1>2, <1>3, <1>4
  <1> QED
    BY <1>5 DEF RoomInv

\* A question becomes a request.
LEMMA OperatorRoom ==
    ASSUME SettingsTypes, FollowInv, RoomInv, SettingsOperator, block = "update"
    PROVE  RoomInv'
  <1>0. UNCHANGED <<block, follow>> /\ IsFiniteSet(calls)
    BY OperatorLeaves DEF RoomInv
  <1>1. Ongoing' = Ongoing
    BY <1>0 DEF Ongoing
  <1>2. CASE calls' = calls /\ confirm' \in {confirm, None}
    <2>1. Changing' = Changing
      BY <1>2 DEF Changing
    <2> QED
      BY <1>0, <1>1, <1>2, <2>1, RoomKept
  <1>3. CASE OneSent("get") /\ UNCHANGED confirm
    <2>1. PICK d : calls' = calls \cup {d} /\ d.what = "get"
      BY <1>3 DEF OneSent
    <2>2. Changing' = Changing
      BY <2>1 DEF Changing, IsStart
    <2>3. IsFiniteSet(calls')
      BY <1>0, <2>1, OneMore
    <2> QED
      BY <1>0, <1>1, <1>3, <2>2, <2>3, RoomKept
  <1>4. CASE confirm # None /\ confirm' = None /\ OneSent(confirm.what)
    <2>1. PICK d : calls' = calls \cup {d}
      BY <1>4 DEF OneSent
    <2>2. Changing' \subseteq Changing \cup {d}
      BY <2>1 DEF Changing
    <2>3. /\ Cardinality(Changing') <= Cardinality(Changing) + 1
          /\ Cardinality(Changing') \in Nat /\ Cardinality(Changing) \in Nat
      BY <1>0, <2>2, Counts, OneMore
    <2>4. Asking = 1 /\ Asking' = 0
      BY <1>4 DEF Asking
    <2>5. /\ Cardinality(Ongoing) + Cardinality(Changing) + Asking <= Follows /\ Follows \in Nat
          /\ Cardinality(Ongoing) \in Nat
      BY <1>0, Counts DEF RoomInv
    <2>6. Cardinality(Ongoing) + Cardinality(Changing') + Asking' <= Follows
      BY <2>3, <2>4, <2>5
    <2>7. IsFiniteSet(calls')
      BY <1>0, <2>1, OneMore
    <2> QED
      BY <1>1, <2>6, <2>7 DEF RoomInv
  <1>5. CASE ApplyUpdate \/ RollbackUpdate
    <2>1. Room /\ UNCHANGED calls
      BY <1>5 DEF ApplyUpdate, RollbackUpdate
    <2>2. DOMAIN follow = FollowSlots
      BY DEF FollowInv
    <2>3. Room = (Cardinality(Ongoing) + Cardinality(Changing) < Follows)
      BY <2>2 DEF Room, Ongoing, Changing, IsStart
    <2>4. Changing' = Changing /\ Asking' \in {0, 1}
      BY <2>1 DEF Changing, Asking
    <2>5. Cardinality(Ongoing) \in Nat /\ Cardinality(Changing) \in Nat /\ Follows \in Nat
      BY <1>0, Counts
    <2>6. Cardinality(Ongoing) + Cardinality(Changing) < Follows
      BY <2>1, <2>3, Zenon
    <2>7. Cardinality(Ongoing) + Cardinality(Changing) + Asking' <= Follows
      BY <2>4, <2>5, <2>6
    <2> QED
      BY <1>0, <1>1, <2>1, <2>4, <2>7 DEF RoomInv
  <1>6. CASE ~(ApplyUpdate \/ RollbackUpdate)
    <2>1. CASE LoadSettings
      <3>1. UNCHANGED confirm
        BY <2>1 DEF LoadSettings
      <3>2. OneSent("get") \/ calls' = calls \/ (confirm # None /\ confirm' = None)
        BY OperatorSends
      <3>3. confirm = None
        BY <2>1 DEF LoadSettings
      <3> QED
        BY <1>2, <1>3, <3>1, <3>2, <3>3
    <2>2. CASE Leave
      BY <1>2, <2>2 DEF Leave
    <2>3. CASE Confirmed
      <3>1. confirm # None /\ confirm' = None
        BY <2>3 DEF Confirmed
      <3>2. calls' = calls \/ (OneSent("get") /\ UNCHANGED confirm) \/ OneSent(confirm.what)
        BY OperatorSends
      <3> QED
        BY <1>2, <1>4, <3>1, <3>2
    <2> QED
      BY <1>6, <2>1, <2>2, <2>3 DEF SettingsOperator, SaveMCP, NewMCPToken, SwitchEngine, EditForm, SaveSettings, On
  <1> QED
    BY <1>5, <1>6

LEMMA ServedRoom ==
    ASSUME SettingsTypes, RoomInv, NEW c \in calls, Serve(c), block = "update"
    PROVE  RoomInv'
  <1>0. UNCHANGED <<block, follow, confirm>> /\ IsFiniteSet(calls)
    BY DEF Serve, rest_vars, RoomInv
  <1>1. PICK d : calls' = (calls \ {c}) \cup {d} /\ d.what = c.what
    BY ServedCall
  <1>2. Ongoing' = Ongoing /\ Asking' = Asking
    BY <1>0 DEF Ongoing, Asking
  <1>3. IsFiniteSet(calls')
    <2>1. IsFiniteSet(calls \ {c})
      BY <1>0, FS_RemoveElement
    <2> QED
      BY <1>1, <2>1, FS_AddElement
  <1>4. CASE IsStart(c)
    <2>1. c \in Changing /\ Changing' \subseteq (Changing \ {c}) \cup {d}
      BY <1>1, <1>4 DEF Changing
    <2>2. IsFiniteSet(Changing) /\ Cardinality(Changing) \in Nat
      BY <1>0, Counts
    <2>3. PICK S : S = Changing \ {c}
      OBVIOUS
    <2>4. IsFiniteSet(S) /\ Cardinality(S) <= Cardinality(Changing) - 1 /\ Cardinality(S) \in Nat
      BY <2>1, <2>2, <2>3, OneLess
    <2>5. Cardinality(Changing') <= Cardinality(S) + 1 /\ Cardinality(Changing') \in Nat
      BY <2>1, <2>3, <2>4, OneMore
    <2>6. Cardinality(Ongoing) + Cardinality(Changing) + Asking <= Follows
      BY DEF RoomInv
    <2>7. Asking \in Nat /\ Cardinality(Ongoing) \in Nat /\ Follows \in Nat
      BY <1>0, Counts DEF Asking
    <2>8. Cardinality(Ongoing) + Cardinality(Changing') + Asking <= Follows
      BY <2>2, <2>4, <2>5, <2>6, <2>7
    <2> QED
      BY <1>2, <1>3, <2>8 DEF RoomInv
  <1>5. CASE ~IsStart(c)
    <2>1. Changing' \subseteq Changing
      BY <1>1, <1>5 DEF Changing, IsStart
    <2> QED
      BY <1>0, <1>2, <1>3, <2>1, RoomKept
  <1> QED
    BY <1>4, <1>5

LEMMA UpdatedRoom ==
    ASSUME SettingsTypes, FollowInv, RoomInv, NEW c \in calls, Updated(c), HostGoes, host.boots \in Nat, host'.boots \in Nat
    PROVE  RoomInv'
  <1>0. UNCHANGED <<block, confirm>> /\ IsFiniteSet(calls) /\ block = "update" /\ calls' = calls \ {c}
    BY DEF Updated, rest_vars, RoomInv
  <1>1. IsFiniteSet(calls') /\ Asking' = Asking
    BY <1>0, FS_RemoveElement DEF Asking
  <1>2. CASE IsStart(c)
    <2>1. PICK f \in FollowSlots : follow[f] = None /\ \A g \in FollowSlots \ {f} : follow'[g] = follow[g]
      BY <1>0, <1>2, FreePlace, UpdatedFollow
    <2>2. Ongoing' \subseteq Ongoing \cup {f}
      BY <2>1 DEF Ongoing
    <2>3. c \in Changing /\ Changing' \subseteq Changing \ {c}
      BY <1>0, <1>2 DEF Changing
    <2>4. /\ IsFiniteSet(Changing) /\ IsFiniteSet(Ongoing) /\ Follows \in Nat
      BY <1>0, Counts
    <2>5. /\ Cardinality(Changing') <= Cardinality(Changing) - 1
          /\ Cardinality(Changing') \in Nat /\ Cardinality(Changing) \in Nat
      BY <2>3, <2>4, OneLess
    <2>6. /\ Cardinality(Ongoing') <= Cardinality(Ongoing) + 1
          /\ Cardinality(Ongoing') \in Nat /\ Cardinality(Ongoing) \in Nat
      BY <2>2, <2>4, OneMore
    <2>7. Asking \in Nat
      BY DEF Asking
    <2>8. Cardinality(Ongoing) + Cardinality(Changing) + Asking <= Follows
      BY <1>0 DEF RoomInv
    <2>9. Cardinality(Ongoing') + Cardinality(Changing') + Asking <= Follows
      BY <2>4, <2>5, <2>6, <2>7, <2>8
    <2> QED
      BY <1>1, <2>9 DEF RoomInv
  <1>3. CASE ~IsStart(c)
    <2>1. follow' = follow
      BY <1>3, UpdatedFollow
    <2>2. Ongoing' = Ongoing /\ Changing' \subseteq Changing
      BY <1>0, <2>1 DEF Ongoing, Changing
    <2> QED
      BY <1>0, <1>1, <2>2, RoomKept
  <1> QED
    BY <1>2, <1>3

\* A step of the update in the block of the updates.
LEMMA FollowUpdate ==
    ASSUME SettingsTypes, FollowInv, RoomInv, VerdictTrue, SettingsNext, UpdateOnly \/ Reload, block = "update"
    PROVE  FollowInv' /\ RoomInv' /\ VerdictTrue'
  <1>0. HostGoes /\ host.boots \in Nat /\ host'.boots \in Nat /\ PlaceOK' /\ UNCHANGED block
    BY HostMoves, PlaceStep
  <1>1. IsFiniteSet(calls)
    BY DEF RoomInv
  <1>2. verdict' = verdict => VerdictTrue'
    BY DEF VerdictTrue
  <1>3. ASSUME NEW c \in calls, Serve(c)
        PROVE  FollowInv' /\ RoomInv' /\ VerdictTrue'
    BY <1>0, <1>2, <1>3, ServedFollow, ServedRoom DEF Serve
  <1>4. ASSUME NEW c \in calls, Updated(c)
        PROVE  FollowInv' /\ RoomInv' /\ VerdictTrue'
    BY <1>0, <1>2, <1>4, UpdatedFollow, UpdatedRoom, FreePlace DEF Updated
  <1>5. ASSUME NEW c \in calls, NotUpdated(c)
        PROVE  FollowInv' /\ RoomInv' /\ VerdictTrue'
    <2>1. UNCHANGED <<follow, host, confirm, verdict>> /\ calls' = calls \ {c} /\ c.what # "poll"
      BY <1>5 DEF NotUpdated, update_vars
    <2>2. FollowInv'
      BY <1>0, <2>1, FollowKept
    <2>3. Ongoing' = Ongoing /\ Changing' \subseteq Changing /\ IsFiniteSet(calls')
      BY <1>1, <2>1, FS_RemoveElement DEF Ongoing, Changing
    <2> QED
      BY <1>0, <1>2, <2>1, <2>2, <2>3, RoomKept
  <1>6. ASSUME NEW c \in calls, PollAnswered(c) \/ PollFailed(c)
        PROVE  FollowInv' /\ RoomInv' /\ VerdictTrue'
    <2>1. UNCHANGED confirm /\ calls' = calls \ {c} /\ (PollFailed(c) => verdict' = verdict)
      BY <1>6 DEF PollAnswered, PollFailed
    <2>2. /\ FollowInv' /\ VerdictTrue'
          /\ \A g \in FollowSlots : follow'[g] # None => follow[g] # None
      BY <1>2, <1>6, <2>1, AnsweredFollow, FailedFollow
    <2>3. Ongoing' \subseteq Ongoing /\ Changing' \subseteq Changing /\ IsFiniteSet(calls')
      BY <1>1, <2>1, <2>2, FS_RemoveElement DEF Ongoing, Changing
    <2> QED
      BY <1>0, <2>1, <2>2, <2>3, RoomKept
  <1>7. ASSUME NEW f \in FollowSlots, PollUpdate(f) \/ Late(f) \/ Over(f)
        PROVE  FollowInv' /\ RoomInv' /\ VerdictTrue'
    <2>1. UNCHANGED <<confirm, verdict>> /\ follow[f] # None
      BY <1>7 DEF PollUpdate, Late, Over
    <2>2. FollowInv' /\ follow'[f] # None /\ (\A g \in FollowSlots \ {f} : follow'[g] = follow[g])
          /\ (calls' = calls \/ OneSent("poll"))
      BY <1>7, TimedFollow, PolledFollow DEF Late, Over
    <2>3. Ongoing' \subseteq Ongoing
      BY <2>1, <2>2 DEF Ongoing
    <2>4. Changing' \subseteq Changing /\ IsFiniteSet(calls')
      <3>1. CASE calls' = calls
        BY <1>1, <3>1 DEF Changing
      <3>2. CASE OneSent("poll")
        <4>1. PICK d : calls' = calls \cup {d} /\ d.what = "poll"
          BY <3>2 DEF OneSent
        <4> QED
          BY <1>1, <4>1, OneMore DEF Changing, IsStart
      <3> QED
        BY <2>2, <3>1, <3>2
    <2> QED
      BY <1>0, <1>2, <2>1, <2>2, <2>3, <2>4, RoomKept
  <1>8. CASE Install \/ Restart \/ Boot
    <2>1. UNCHANGED <<calls, follow, confirm, verdict>>
      BY <1>8 DEF Install, Restart, Boot
    <2>2. FollowInv'
      BY <1>0, <2>1, FollowKept
    <2>3. Ongoing' = Ongoing /\ Changing' = Changing
      BY <2>1 DEF Ongoing, Changing
    <2> QED
      BY <1>0, <1>1, <1>2, <2>1, <2>2, <2>3, RoomKept
  <1>9. CASE Reload
    <2>1. FollowInv' /\ \A g \in FollowSlots : follow'[g] = None
      BY <1>9, ReloadFollow
    <2>2. UNCHANGED verdict /\ confirm' = None /\ (calls' = {} \/ calls' = {Get(block)})
      BY <1>9 DEF Reload
    <2>3. Ongoing' \subseteq Ongoing
      BY <2>1 DEF Ongoing
    <2>4. Changing' \subseteq Changing
      BY <2>2 DEF Changing, IsStart, Get, Call
    <2>5. IsFiniteSet(calls')
      <3>1. IsFiniteSet({}) /\ IsFiniteSet({Get(block)})
        BY FS_EmptySet, FS_Singleton, Zenon
      <3> QED
        BY <2>2, <3>1, Zenon
    <2> QED
      BY <1>0, <1>2, <2>1, <2>2, <2>3, <2>4, <2>5, RoomKept
  <1> QED
    BY <1>3, <1>4, <1>5, <1>6, <1>7, <1>8, <1>9 DEF UpdateOnly

LEMMA FollowStep ==
    ASSUME SettingsTypes, FollowInv, RoomInv, VerdictTrue, SettingsNext
    PROVE  FollowInv' /\ RoomInv' /\ VerdictTrue'
  <1>0. HostGoes /\ host.boots \in Nat /\ host'.boots \in Nat /\ SettingsTypes' /\ UNCHANGED block
    <2>1. PlaceOK' /\ UNCHANGED block
      BY PlaceStep
    <2> QED
      BY <2>1, HostMoves, TypesStep
  <1>1. ASSUME block # "update", follow' = follow, verdict' = verdict
        PROVE  FollowInv' /\ RoomInv' /\ VerdictTrue'
    <2>1. FollowInv'
      <3>1. follow' \in [FollowSlots -> {None} \cup Followed] /\ block' # "update"
        BY <1>0, <1>1 DEF FollowInv
      <3> QED
        <4>1. \A c \in calls' : ~IsStart(c) /\ c.what # "poll"
          BY <1>0, <3>1 DEF SettingsTypes, CallsOK, CallOK, IsStart
        <4>2. \A f \in FollowSlots : follow'[f] = None
          BY <1>0, <3>1 DEF SettingsTypes, PlaceOK
        <4> QED
          BY <3>1, <4>1, <4>2 DEF FollowInv, SlotOK, StartsOK, IsPoll
    <2>2. RoomInv' /\ VerdictTrue'
      BY <1>0, <1>1 DEF RoomInv, VerdictTrue
    <2> QED
      BY <2>1, <2>2
  <1>2. CASE SettingsOperator
    <2>1. UNCHANGED <<follow, verdict, host>>
      BY <1>2, OperatorLeaves
    <2>2. CASE block # "update"
      BY <1>1, <2>1, <2>2
    <2>3. CASE block = "update"
      <3>1. \A c : (c.what = "poll" => (c \in calls' <=> c \in calls)) /\ (c \in calls' /\ Got(c) => c \in calls)
        <4>1. calls' = calls \/ \E w \in {"get", "apply", "rollback"} : OneSent(w)
          <5>1. confirm # None /\ confirm.what # "mcp" => confirm.what \in {"apply", "rollback"}
            BY DEF SettingsTypes, ConfirmOK, Questions, AskedAbout
          <5> QED
            BY <1>2, <2>3, <5>1, OperatorSends
        <4> QED
          BY <4>1 DEF OneSent
      <3>2. FollowInv'
        BY <1>0, <2>1, <3>1, FollowKept
      <3> QED
        BY <1>2, <2>1, <2>3, <3>2, OperatorRoom DEF VerdictTrue
    <2> QED
      BY <2>2, <2>3
  <1>3. CASE block = "update" /\ (UpdateOnly \/ Reload)
    BY <1>3, FollowUpdate
  <1>4. CASE block # "update" /\ (UpdateOnly \/ Reload)
    BY <1>1, <1>4, OtherBlocks
  <1>5. ASSUME NEW c \in calls, Read(c) \/ Save(c) \/ View(c) \/ Deliver(c) \/ NotDone(c)
        PROVE  FollowInv' /\ RoomInv' /\ VerdictTrue'
    <2>1. block # "update"
      BY <1>5, BlockLeaves DEF SettingsTypes, CallsOK, CallOK, Read, Save, View, IsSetting
    <2> QED
      BY <1>1, <1>5, <2>1, HandlersLeave, BlockLeaves
  <1> QED
    BY <1>2, <1>3, <1>4, <1>5, SettingsCases

LEMMA FollowInit == SettingsInit => FollowInv /\ RoomInv /\ VerdictTrue
  <1> SUFFICES ASSUME SettingsInit PROVE FollowInv /\ RoomInv /\ VerdictTrue
    OBVIOUS
  <1>1. follow = [f \in FollowSlots |-> None] /\ calls = {Get(block)} /\ confirm = None /\ verdict = None
    BY DEF SettingsInit
  <1>2. \A c \in calls : c.what = "get"
    BY <1>1 DEF Get, Call
  <1>3. FollowInv
    BY <1>1, <1>2 DEF FollowInv, SlotOK, StartsOK, IsPoll, IsStart
  <1>4. RoomInv
    <2>1. Ongoing = {} /\ Changing = {} /\ Asking = 0
      BY <1>1, <1>2 DEF Ongoing, Changing, Asking, IsStart
    <2>2. IsFiniteSet(calls)
      BY <1>1, FS_Singleton
    <2>3. Cardinality(Ongoing) = 0 /\ Cardinality(Changing) = 0 /\ Follows \in Nat
      BY <2>1, <2>2, FS_EmptySet, SettingsAssumption
    <2>4. Cardinality(Ongoing) + Cardinality(Changing) + Asking <= Follows
      BY <2>1, <2>3
    <2> QED
      BY <2>2, <2>4 DEF RoomInv
  <1> QED
    BY <1>1, <1>3, <1>4 DEF VerdictTrue

\* The types as the run checks them.
LEMMA SettingsTyped ==
    ASSUME SettingsTypes, FollowInv
    PROVE  SettingsTypeOK
  <1>1. srv.token \in 0..srv.made
    BY DEF SettingsTypes, SrvStates
  <1>2. \A f \in FollowSlots : follow[f] # None =>
            (follow[f].asked <=> \E c \in calls : c.what = "poll" /\ c.name = f)
    BY DEF FollowInv, SlotOK, IsPoll
  <1> QED
    BY <1>1, <1>2 DEF SettingsTypeOK, SettingsTypes, PlaceOK, PageOK, Pages, Hosts

SettingsInv == SettingsTypes /\ ShownInv /\ FollowInv /\ RoomInv /\ VerdictTrue

LEMMA SettingsStill ==
    ASSUME SettingsInv, UNCHANGED settings_vars
    PROVE  SettingsInv'
  <1>1. UNCHANGED <<block, here, srv, page, confirm, calls, host, upd, follow, leaving, verdict, fate>>
    BY DEF settings_vars, rest_vars, update_vars
  <1>2. SettingsTypes'
    BY <1>1 DEF SettingsInv, SettingsTypes, PlaceOK, PageOK, CallsOK, ConfirmOK
  <1>3. ShownInv'
    BY <1>1, ShownKept DEF SettingsInv
  <1>4. FollowInv'
    BY <1>1 DEF SettingsInv, FollowInv, SlotOK, StartsOK, WaitsOK, AnswerOK
  <1>5. RoomInv'
    <2>1. UNCHANGED <<Ongoing, Changing, Asking>>
      BY <1>1 DEF Ongoing, Changing, Asking
    <2> QED
      BY <1>1, <2>1 DEF SettingsInv, RoomInv
  <1>6. VerdictTrue'
    BY <1>1 DEF SettingsInv, VerdictTrue
  <1> QED
    BY <1>2, <1>3, <1>4, <1>5, <1>6 DEF SettingsInv

\* The settings screen says what the server has once everything is answered, and
\* followUpdate says that a version runs, or did not start, only after a start of
\* the process (loadSettings, saveMCP, switchEngine, saveSettings, followUpdate).
THEOREM SettingsHold == Spec => []SettingsTrue
  <1>1. Init => SettingsInv
    BY TypesInit, ShownInit, FollowInit DEF Init, SettingsInv
  <1>2. SettingsInv /\ [Next]_console_vars => SettingsInv'
    <2> SUFFICES ASSUME SettingsInv, [Next]_console_vars PROVE SettingsInv'
      OBVIOUS
    <2>1. CASE SettingsNext
      BY <2>1, TypesStep, SaidStep, FollowStep DEF SettingsInv
    <2>2. CASE UNCHANGED settings_vars
      BY <2>2, SettingsStill
    <2>3. SettingsNext \/ UNCHANGED settings_vars
      BY DEF Next, InScreens, InSettings, console_vars
    <2> QED
      BY <2>1, <2>2, <2>3
  <1>3. SettingsInv => SettingsTrue
    BY SettingsTyped, ShownHolds DEF SettingsInv, SettingsTrue
  <1> QED
    BY <1>1, <1>2, <1>3, PTL DEF Spec

=============================================================================
