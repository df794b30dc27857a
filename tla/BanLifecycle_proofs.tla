------------------------- MODULE BanLifecycle_proofs -------------------------
(* Theorems about BanLifecycle, for every value of its constants.          *)
EXTENDS BanLifecycle, FiniteSetTheorems, TLAPS

USE DEF Upset, DbOk, DbErr, Rows, ProcState, Idle, PCs, Kinds, Upsets, Chains

-----------------------------------------------------------------------------
(* Types                                                                   *)

\* The conjunct of TypeOK about the goroutines.
ProcOK ==
    /\ proc \in [Procs -> ProcState]
    /\ \A p \in Procs :
         /\ proc[p].pc \in IF p = Janitor THEN JanitorPCs
                           ELSE IF p \in Handlers THEN HandlerPCs ELSE OperatorPCs
         /\ proc[p].pc \notin {"idle", "synclist", "sync", "release", "lift", "hooks", "wait"}
              => proc[p].ip \in IPs

\* One goroutine takes a new local state; the others keep theirs.
LEMMA ProcUpdate ==
    ASSUME ProcOK, NEW p \in Procs, NEW r \in ProcState,
           r.pc \in IF p = Janitor THEN JanitorPCs
                    ELSE IF p \in Handlers THEN HandlerPCs ELSE OperatorPCs,
           r.pc \notin {"idle", "synclist", "sync", "release", "lift", "hooks", "wait"}
             => r.ip \in IPs,
           proc' = [proc EXCEPT ![p] = r]
    PROVE  ProcOK'
  <1>1. proc' \in [Procs -> ProcState]
    BY DEF ProcOK
  <1>2. \A q \in Procs : proc'[q] = IF q = p THEN r ELSE proc[q]
    BY DEF ProcOK
  <1> QED
    BY <1>1, <1>2 DEF ProcOK

\* ... or only moves to another label.
LEMMA GotoType ==
    ASSUME ProcOK, NEW p \in Procs, NEW l \in PCs, Goto(p, l),
           l \in IF p = Janitor THEN JanitorPCs
                 ELSE IF p \in Handlers THEN HandlerPCs ELSE OperatorPCs,
           l \notin {"idle", "synclist", "sync", "release", "lift", "hooks", "wait"}
             => proc[p].ip \in IPs
    PROVE  ProcOK'
  <1> DEFINE r == [proc[p] EXCEPT !.pc = l]
  <1>1. proc[p] \in ProcState
    BY DEF ProcOK
  <1>2. r \in ProcState /\ r.pc = l /\ r.ip = proc[p].ip
    BY <1>1
  <1>3. proc' = [proc EXCEPT ![p] = r]
    BY <1>1 DEF Goto, ProcOK
  <1> HIDE DEF r
  <1> QED
    BY <1>2, <1>3, ProcUpdate

\* The conjuncts of TypeOK about everything else.
DataOK ==
    /\ now \in 0..MaxTime
    /\ row \in [IPs -> Rows]
    /\ score \in [IPs -> 0..MaxScore]
    /\ settings \in SettingsSet
    /\ whitelist \in Whitelists
    /\ rules \subseteq IPs
    /\ chain \in Chains
    /\ work \subseteq IPs
    /\ round \in {"boot", "first", "minute"}
    /\ budget \in [Upsets -> Nat]

LEMMA TypeSplit == TypeOK <=> ProcOK /\ DataOK
  BY DEF TypeOK, ProcOK, DataOK

\* A goroutine with a job is at one of the labels where its ip is set.
LEMMA JobIP ==
    ASSUME ProcOK, NEW p \in Procs,
           proc[p].pc \notin {"idle", "synclist", "sync", "release", "lift", "hooks", "wait"}
    PROVE  proc[p].ip \in IPs
  BY DEF ProcOK

\* Taking one upset from the budget leaves a budget.
LEMMA UpsetType ==
    ASSUME DataOK, NEW k \in Upsets, Upset(k)
    PROVE  budget' \in [Upsets -> Nat]
  BY DEF DataOK

LEMMA FwType ==
    ASSUME DataOK, NEW ip \in IPs, NEW ok \in BOOLEAN, FwBan(ip, ok) \/ FwUnban(ip, ok)
    PROVE  rules' \subseteq IPs /\ budget' \in [Upsets -> Nat]
  BY UpsetType DEF DataOK, FwBan, FwUnban

LEMMA IdleType ==
    ASSUME ProcOK, NEW p \in Procs \ {Janitor}, proc' = [proc EXCEPT ![p] = Idle]
    PROVE  ProcOK'
  <1>1. Idle \in ProcState /\ Idle.pc = "idle"
    OBVIOUS
  <1> QED
    BY <1>1, ProcUpdate DEF HandlerPCs, OperatorPCs

\* Whoever returns from BanIP or UnbanIP has a place to go on.
LEMMA ReturnType ==
    ASSUME ProcOK, NEW p \in Procs, NEW b \in BOOLEAN, Return(p, b), proc[p].ip \in IPs
    PROVE  ProcOK'
  <1>1. CASE p = Janitor
    BY <1>1, GotoType DEF Return, JanitorPCs, HandlerPCs
  <1>2. CASE p # Janitor /\ Goto(p, "session") /\ p \in Handlers
    BY <1>2, GotoType DEF HandlerPCs
  <1>3. CASE p # Janitor /\ proc' = [proc EXCEPT ![p] = Idle]
    BY <1>3, IdleType
  <1> QED
    BY <1>1, <1>2, <1>3 DEF Return

LEMMA BanUntilType ==
    ASSUME NEW d \in Nat, DataOK
    PROVE  BanUntil(d) \in Rows
  BY TimeAssumption DEF BanUntil, Forever, TempRow, DataOK

-----------------------------------------------------------------------------
(* BanIP and UnbanIP, whoever calls them                                   *)

LEMMA BanCallType ==
    ASSUME ProcOK, DataOK, NEW p \in Handlers \cup Operators, BanRow(p) \/ BanFw(p)
    PROVE  ProcOK' /\ DataOK'
  <1> USE DEF HandlerPCs, OperatorPCs, vars, dbVars, cfgVars, janVars
  <1>0. p \in Procs /\ p # Janitor /\ proc[p] \in ProcState
    BY ProcsAssumption DEF Procs, ProcOK
  <1>1. proc[p].ip \in IPs
    BY <1>0, JobIP DEF BanRow, BanFw
  <1>2. CASE BanRow(p)
    <2>1. BanUntil(proc[p].dur) \in Rows
      BY <1>0, BanUntilType
    <2>2. DataOK'
      <3>1. row' \in [IPs -> Rows]
        BY <1>1, <1>2, <2>1 DEF BanRow, DataOK
      <3>2. budget' \in [Upsets -> Nat]
        BY <1>2, UpsetType DEF BanRow, DataOK
      <3>3. UNCHANGED <<now, score, cfgVars, rules, chain, janVars>>
        BY <1>2 DEF BanRow
      <3> QED
        BY <3>1, <3>2, <3>3 DEF DataOK
    <2> QED
      BY <1>0, <1>1, <1>2, <2>2, ReturnType, GotoType DEF BanRow
  <1>3. CASE BanFw(p)
    BY <1>0, <1>1, <1>3, FwType, ReturnType DEF BanFw, DataOK
  <1> QED
    BY <1>2, <1>3

LEMMA UnbanCallType ==
    ASSUME ProcOK, DataOK, NEW p \in Operators \cup {Janitor},
           UnbanRow(p) \/ UnbanScore(p) \/ UnbanFw(p)
    PROVE  ProcOK' /\ DataOK'
  <1> USE DEF HandlerPCs, OperatorPCs, JanitorPCs, vars, dbVars, cfgVars, janVars
  <1>0. p \in Procs /\ p \notin Handlers
    BY ProcsAssumption DEF Procs
  <1>1. proc[p].ip \in IPs
    BY <1>0, JobIP DEF UnbanRow, UnbanScore, UnbanFw
  <1>2. CASE UnbanRow(p)
    <2>0. NoRow \in Rows
      BY DEF NoRow
    <2>1. DataOK'
      BY <1>1, <1>2, <2>0, UpsetType DEF UnbanRow, DataOK
    <2>2. Goto(p, "unban_score") => ProcOK'
      BY <1>0, <1>1, GotoType
    <2>3. Return(p, FALSE) => ProcOK'
      BY <1>0, <1>1, ReturnType
    <2> QED
      BY <1>2, <2>1, <2>2, <2>3 DEF UnbanRow
  <1>3. CASE UnbanScore(p)
    <2>1. score' \in [IPs -> 0..MaxScore]
      BY <1>3, TimeAssumption DEF UnbanScore, DataOK
    <2> QED
      BY <1>0, <1>1, <1>3, <2>1, UpsetType, GotoType DEF UnbanScore, DataOK
  <1>4. CASE UnbanFw(p)
    BY <1>0, <1>1, <1>4, FwType, ReturnType DEF UnbanFw, DataOK
  <1> QED
    BY <1>2, <1>3, <1>4

-----------------------------------------------------------------------------
LEMMA HandlerType ==
    ASSUME ProcOK, DataOK, NEW h \in Handlers, HandlerStep(h)
    PROVE  ProcOK' /\ DataOK'
  <1> USE DEF HandlerPCs, vars, dbVars, cfgVars, janVars
  <1>0. h \in Procs /\ h # Janitor /\ proc[h] \in ProcState
    BY ProcsAssumption DEF Procs, ProcOK
  <1>1. ASSUME NEW ip \in IPs, Connect(h, ip) PROVE ProcOK' /\ DataOK'
    <2> DEFINE r == [Idle EXCEPT !.ip = ip, !.pc = IF IsWhitelisted(ip) THEN "session" ELSE "check"]
    <2>1. r \in ProcState /\ r.pc \in {"session", "check"} /\ r.ip = ip
      OBVIOUS
    <2>2. proc' = [proc EXCEPT ![h] = r]
      BY <1>1 DEF Connect
    <2> HIDE DEF r
    <2>3. ProcOK'
      BY <1>0, <2>1, <2>2, ProcUpdate
    <2> QED
      BY <1>1, <2>3 DEF Connect, DataOK
  <1>2. CASE Check(h)
    <2>1. DataOK'
      BY <1>2, UpsetType DEF Check, DataOK
    <2>2. proc[h].ip \in IPs
      BY <1>0, <1>2, JobIP DEF Check
    <2>3. ASSUME NEW k \in {"drop", "honeypot"},
                 proc' = [proc EXCEPT ![h].pc = "score", ![h].kind = k]
          PROVE  ProcOK'
      <3> DEFINE r == [proc[h] EXCEPT !.pc = "score", !.kind = k]
      <3>1. r \in ProcState /\ r.pc = "score" /\ r.ip = proc[h].ip
        BY <1>0
      <3>2. proc' = [proc EXCEPT ![h] = r]
        BY <1>0, <2>3 DEF ProcOK
      <3> HIDE DEF r
      <3> QED
        BY <1>0, <2>2, <3>1, <3>2, ProcUpdate
    <2>4. Goto(h, "reassert") \/ Goto(h, "session") => ProcOK'
      BY <1>0, <2>2, GotoType
    <2> QED
      BY <1>0, <1>2, <2>1, <2>3, <2>4, IdleType DEF Check
  <1>3. CASE Reassert(h)
    <2>1. proc[h].ip \in IPs
      BY <1>0, <1>3, JobIP DEF Reassert
    <2> QED
      BY <1>0, <1>3, <2>1, FwType, IdleType DEF Reassert, DataOK
  <1>4. CASE Record(h)
    <2>1. proc[h].ip \in IPs
      BY <1>0, <1>4, JobIP DEF Record
    <2>2. CASE DbErr /\ Return(h, FALSE) /\ UNCHANGED score
      BY <1>0, <1>4, <2>1, <2>2, ReturnType, UpsetType DEF Record, DataOK
    <2>3. ASSUME NEW new \in 0..MaxScore, DbOk,
                 score' = [score EXCEPT ![proc[h].ip] = new],
                 proc' = [proc EXCEPT ![h].pc = "decide", ![h].score = new]
          PROVE  ProcOK' /\ DataOK'
      <3> DEFINE r == [proc[h] EXCEPT !.pc = "decide", !.score = new]
      <3>0. new \in Nat
        BY TimeAssumption
      <3>1. r \in ProcState /\ r.pc = "decide" /\ r.ip = proc[h].ip
        BY <1>0, <3>0
      <3>2. proc' = [proc EXCEPT ![h] = r]
        BY <1>0, <2>3 DEF ProcOK
      <3> HIDE DEF r
      <3>3. ProcOK'
        BY <1>0, <2>1, <3>1, <3>2, ProcUpdate
      <3> QED
        BY <1>4, <2>1, <2>3, <3>3 DEF Record, DataOK
    <2>4. score[proc[h].ip] \in 0..MaxScore /\ Points[proc[h].kind] \in Nat
      BY <1>0, <2>1, TimeAssumption DEF DataOK
    <2>5. LET sum == score[proc[h].ip] + Points[proc[h].kind]
          IN  (IF sum > MaxScore THEN MaxScore ELSE sum) \in 0..MaxScore
      BY <2>4, TimeAssumption
    <2> QED
      BY <1>4, <2>2, <2>3, <2>5 DEF Record
  <1>5. CASE Decide(h)
    <2>1. proc[h].ip \in IPs
      BY <1>0, <1>5, JobIP DEF Decide
    <2>2. CASE Return(h, FALSE)
      BY <1>0, <1>5, <2>1, <2>2, ReturnType DEF Decide, DataOK
    <2>3. CASE proc' = [proc EXCEPT ![h].pc = "isbanned", ![h].dur = settings.dur]
      <3> DEFINE r == [proc[h] EXCEPT !.pc = "isbanned", !.dur = settings.dur]
      <3>0. settings.dur \in Nat
        BY TimeAssumption DEF DataOK
      <3>1. r \in ProcState /\ r.pc = "isbanned" /\ r.ip = proc[h].ip
        BY <1>0, <3>0
      <3>2. proc' = [proc EXCEPT ![h] = r]
        BY <1>0, <2>3 DEF ProcOK
      <3> HIDE DEF r
      <3>3. ProcOK'
        BY <1>0, <2>1, <3>1, <3>2, ProcUpdate
      <3> QED
        BY <1>5, <3>3 DEF Decide, DataOK
    <2> QED
      BY <1>5, <2>2, <2>3 DEF Decide
  <1>6. CASE IsBanned(h)
    <2>1. proc[h].ip \in IPs
      BY <1>0, <1>6, JobIP DEF IsBanned
    <2>2. DataOK'
      BY <1>6, UpsetType DEF IsBanned, DataOK
    <2> QED
      BY <1>0, <1>6, <2>1, <2>2, ReturnType, GotoType DEF IsBanned
  <1>7. CASE Credential(h)
    <2>1. proc[h].ip \in IPs
      BY <1>0, <1>7, JobIP DEF Credential
    <2> DEFINE r == [proc[h] EXCEPT !.pc = "score", !.kind = "credential"]
    <2>2. r \in ProcState /\ r.pc = "score" /\ r.ip = proc[h].ip
      BY <1>0
    <2>3. proc' = [proc EXCEPT ![h] = r]
      BY <1>0, <1>7 DEF Credential, ProcOK
    <2> HIDE DEF r
    <2>4. ProcOK'
      BY <1>0, <2>1, <2>2, <2>3, ProcUpdate
    <2> QED
      BY <1>7, <2>4 DEF Credential, DataOK
  <1>8. CASE EndSession(h)
    BY <1>0, <1>8, IdleType DEF EndSession, DataOK
  <1>9. CASE BanRow(h) \/ BanFw(h)
    BY <1>9, BanCallType
  <1> QED
    BY <1>1, <1>2, <1>3, <1>4, <1>5, <1>6, <1>7, <1>8, <1>9 DEF HandlerStep

-----------------------------------------------------------------------------
LEMMA OperatorType ==
    ASSUME ProcOK, DataOK, NEW o \in Operators, OperatorStep(o)
    PROVE  ProcOK' /\ DataOK'
  <1> USE DEF OperatorPCs, vars, dbVars, cfgVars, janVars
  <1>0. o \in Procs /\ o # Janitor /\ o \notin Handlers
    BY ProcsAssumption DEF Procs
  <1>1. ASSUME NEW ip \in IPs, NEW d \in Durations, OperatorBan(o, ip, d)
        PROVE  ProcOK' /\ DataOK'
    <2> DEFINE r == [Idle EXCEPT !.pc = "ban_row", !.ip = ip, !.dur = d]
    <2>1. r \in ProcState /\ r.pc = "ban_row" /\ r.ip = ip
      BY TimeAssumption
    <2>2. proc' = [proc EXCEPT ![o] = r]
      BY <1>1 DEF OperatorBan
    <2> HIDE DEF r
    <2>3. ProcOK'
      BY <1>0, <2>1, <2>2, ProcUpdate
    <2> QED
      BY <1>1, <2>3 DEF OperatorBan, DataOK
  <1>2. ASSUME NEW ip \in IPs, OperatorUnban(o, ip)
        PROVE  ProcOK' /\ DataOK'
    <2> DEFINE r == [Idle EXCEPT !.pc = "unban_row", !.ip = ip]
    <2>1. r \in ProcState /\ r.pc = "unban_row" /\ r.ip = ip
      OBVIOUS
    <2>2. proc' = [proc EXCEPT ![o] = r]
      BY <1>2 DEF OperatorUnban
    <2> HIDE DEF r
    <2>3. ProcOK'
      BY <1>0, <2>1, <2>2, ProcUpdate
    <2> QED
      BY <1>2, <2>3 DEF OperatorUnban, DataOK
  <1>3. ASSUME NEW s \in SettingsSet, SetAutoBan(o, s)
        PROVE  ProcOK' /\ DataOK'
    BY <1>3 DEF SetAutoBan, ProcOK, DataOK
  <1>4. CASE BanRow(o) \/ BanFw(o)
    BY <1>4, BanCallType
  <1>5. CASE UnbanRow(o) \/ UnbanScore(o) \/ UnbanFw(o)
    BY <1>5, UnbanCallType
  <1> QED
    BY <1>1, <1>2, <1>3, <1>4, <1>5 DEF OperatorStep

-----------------------------------------------------------------------------
LEMMA JanitorType ==
    ASSUME ProcOK, DataOK, JanitorStep
    PROVE  ProcOK' /\ DataOK'
  <1> USE DEF JanitorPCs, HandlerPCs, vars, dbVars, cfgVars, janVars
  <1>0. Janitor \in Procs /\ Janitor \notin Handlers /\ proc[Janitor] \in ProcState
    BY ProcsAssumption DEF Procs, ProcOK
  \* A move to a label where no address is needed.
  <1>a. ASSUME NEW l \in {"synclist", "sync", "release", "lift", "hooks", "wait"}, Goto(Janitor, l)
        PROVE  ProcOK'
    BY <1>0, <1>a, GotoType
  \* A move to a label that works on an address of the list.
  <1>b. ASSUME NEW ip \in IPs, NEW l \in {"unban_row", "delete"},
               proc' = [proc EXCEPT ![Janitor].pc = l, ![Janitor].ip = ip]
        PROVE  ProcOK'
    <2> DEFINE r == [proc[Janitor] EXCEPT !.pc = l, !.ip = ip]
    <2>1. r \in ProcState /\ r.pc = l /\ r.ip = ip
      BY <1>0
    <2>2. proc' = [proc EXCEPT ![Janitor] = r]
      BY <1>0, <1>b DEF ProcOK
    <2> HIDE DEF r
    <2> QED
      BY <1>0, <2>1, <2>2, ProcUpdate
  <1>1. CASE SyncList
    BY <1>1, <1>a, UpsetType DEF SyncList, DataOK
  <1>2. CASE SyncDone
    <2>1. ProcOK'
      BY <1>2, <1>a DEF SyncDone
    <2> QED
      BY <1>2, <2>1 DEF SyncDone, DataOK
  <1>3. CASE ReleaseList
    BY <1>3, <1>a, UpsetType DEF ReleaseList, DataOK
  <1>4. CASE LiftDone
    <2>1. ProcOK'
      BY <1>4, <1>a DEF LiftDone
    <2> QED
      BY <1>4, <2>1 DEF LiftDone, DataOK
  <1>5. CASE MinuteTicker
    BY <1>5, <1>a DEF MinuteTicker, DataOK
  <1>6. CASE DeleteExpired
    <2>1. proc[Janitor].ip \in IPs
      BY <1>0, <1>6, JobIP DEF DeleteExpired
    <2>2. ProcOK'
      BY <1>0, <1>6, <1>a, <2>1, GotoType DEF DeleteExpired
    <2>3. row' \in [IPs -> Rows]
      BY <1>6, <2>1 DEF DeleteExpired, DataOK, NoRow
    <2> QED
      BY <1>6, <2>2, <2>3, UpsetType DEF DeleteExpired, DataOK
  <1>7. CASE ResetScore
    <2>1. ProcOK'
      BY <1>7, <1>a DEF ResetScore
    <2>2. score' \in [IPs -> 0..MaxScore]
      BY <1>7, TimeAssumption DEF ResetScore, DataOK
    <2> QED
      BY <1>7, <2>1, <2>2, UpsetType DEF ResetScore, DataOK
  <1>8. CASE EnsureHooks
    <2>1. ProcOK'
      BY <1>8, <1>a DEF EnsureHooks
    <2>2. chain' \in Chains
      BY <1>8 DEF EnsureHooks, DataOK
    <2> QED
      BY <1>8, <2>1, <2>2, UpsetType DEF EnsureHooks, DataOK
  <1>9. ASSUME NEW ip \in IPs, SyncUnban(ip) PROVE ProcOK' /\ DataOK'
    BY <1>9, <1>b DEF SyncUnban, DataOK
  <1>10. ASSUME NEW ip \in IPs, SyncBan(ip) PROVE ProcOK' /\ DataOK'
    BY <1>10, FwType DEF SyncBan, AfterSyncError, ProcOK, DataOK
  <1>11. ASSUME NEW ip \in IPs, LiftRule(ip) PROVE ProcOK' /\ DataOK'
    <2>1. ProcOK'
      BY <1>11, <1>b DEF LiftRule, ProcOK
    <2> QED
      BY <1>11, <2>1, FwType DEF LiftRule, AfterLiftError, DataOK
  <1>12. CASE UnbanRow(Janitor) \/ UnbanScore(Janitor) \/ UnbanFw(Janitor)
    BY <1>12, UnbanCallType
  <1> QED
    BY <1>1, <1>2, <1>3, <1>4, <1>5, <1>6, <1>7, <1>8, <1>9, <1>10, <1>11, <1>12 DEF JanitorStep

-----------------------------------------------------------------------------
LEMMA FreshType == Fresh \in [Procs -> ProcState] /\ (proc' = Fresh => ProcOK')
  BY DEF Fresh, ProcOK, JanitorPCs, HandlerPCs, OperatorPCs

LEMMA WorldType ==
    ASSUME ProcOK, DataOK, World
    PROVE  ProcOK' /\ DataOK'
  <1> USE DEF vars, dbVars, cfgVars, janVars
  <1>1. CASE Tick
    BY <1>1, TimeAssumption DEF Tick, ProcOK, DataOK
  <1>2. ASSUME NEW f \in Families, Flush(f) PROVE ProcOK' /\ DataOK'
    <2>1. chain' \in Chains
      BY <1>2, WorldAssumption DEF Flush, DataOK
    <2> QED
      BY <1>2, <2>1, UpsetType DEF Flush, ProcOK, DataOK
  <1>3. ASSUME NEW w \in Whitelists, NEW reboot \in BOOLEAN, Restart(w, reboot)
        PROVE  ProcOK' /\ DataOK'
    BY <1>3, FreshType, UpsetType DEF Restart, DataOK, HookedChains
  <1> QED
    BY <1>1, <1>2, <1>3 DEF World

-----------------------------------------------------------------------------
LEMMA InitType == Init => ProcOK /\ DataOK
  <1> SUFFICES ASSUME Init PROVE ProcOK /\ DataOK
    OBVIOUS
  <1>1. ProcOK
    BY DEF Init, Fresh, ProcOK, JanitorPCs, HandlerPCs, OperatorPCs
  <1>2. score \in [IPs -> 0..MaxScore]
    BY TimeAssumption DEF Init
  <1>3. row \in [IPs -> Rows]
    BY WorldAssumption DEF Init
  <1> QED
    BY <1>1, <1>2, <1>3, TimeAssumption DEF Init, DataOK, HookedChains

LEMMA NextType ==
    ASSUME ProcOK, DataOK, [Next]_vars
    PROVE  ProcOK' /\ DataOK'
  <1>1. CASE UNCHANGED vars
    BY <1>1 DEF vars, dbVars, cfgVars, janVars, ProcOK, DataOK
  <1> QED
    BY <1>1, HandlerType, OperatorType, JanitorType, WorldType DEF Next

\* TypeOK holds in every reachable state: each goroutine stays in its own part
\* of the code, works for a real address where it needs one, and every table
\* keeps its shape, through failures and restarts.
THEOREM TypeCorrect == Spec => []TypeOK
  <1>1. Init => ProcOK /\ DataOK
    BY InitType
  <1>2. (ProcOK /\ DataOK) /\ [Next]_vars => (ProcOK /\ DataOK)'
    BY NextType
  <1>3. ProcOK /\ DataOK => TypeOK
    BY TypeSplit
  <1> QED
    BY <1>1, <1>2, <1>3, PTL DEF Spec

-----------------------------------------------------------------------------
(* The whitelist                                                           *)

\* The maintenance goroutine unbans only what this life's whitelist covers.
JanitorUnbansWhitelisted ==
    proc[Janitor].pc \in {"unban_row", "unban_score", "unban_fw"} => proc[Janitor].ip \in whitelist

\* What TargetsNotWhitelisted needs to be inductive.
WhitelistInv == ProcOK /\ DataOK /\ TargetsNotWhitelisted /\ JanitorUnbansWhitelisted

\* A goroutine moves on and, if it now targets its address, that address is
\* not whitelisted.
LEMMA MoveKeepsTargets ==
    ASSUME WhitelistInv, NEW p \in Procs, NEW r \in ProcState,
           proc' = [proc EXCEPT ![p] = r], whitelist' = whitelist,
           r.pc \in Targeting => r.ip \notin whitelist,
           p = Janitor /\ r.pc \in {"unban_row", "unban_score", "unban_fw"} => r.ip \in whitelist
    PROVE  TargetsNotWhitelisted' /\ JanitorUnbansWhitelisted'
  <1>1. \A q \in Procs : proc'[q] = IF q = p THEN r ELSE proc[q]
    BY DEF WhitelistInv, ProcOK
  <1>2. Janitor \in Procs
    BY DEF Procs
  <1> QED
    BY <1>1, <1>2 DEF WhitelistInv, TargetsNotWhitelisted, JanitorUnbansWhitelisted

\* ... in particular when it keeps its address and was already targeting it,
\* or goes where nothing is targeted.
LEMMA GotoKeepsTargets ==
    ASSUME WhitelistInv, NEW p \in Procs, NEW l \in PCs, Goto(p, l), whitelist' = whitelist,
           l \in Targeting => proc[p].pc \in Targeting,
           p = Janitor /\ l \in {"unban_row", "unban_score", "unban_fw"}
             => proc[p].pc \in {"unban_row", "unban_score", "unban_fw"}
    PROVE  TargetsNotWhitelisted' /\ JanitorUnbansWhitelisted'
  <1> DEFINE r == [proc[p] EXCEPT !.pc = l]
  <1>1. proc[p] \in ProcState
    BY DEF WhitelistInv, ProcOK
  <1>2. r \in ProcState /\ r.pc = l /\ r.ip = proc[p].ip
    BY <1>1
  <1>3. proc' = [proc EXCEPT ![p] = r]
    BY <1>1 DEF Goto, WhitelistInv, ProcOK
  <1> HIDE DEF r
  <1>4. r.pc \in Targeting => r.ip \notin whitelist
    BY <1>2 DEF WhitelistInv, TargetsNotWhitelisted
  <1>5. p = Janitor /\ r.pc \in {"unban_row", "unban_score", "unban_fw"} => r.ip \in whitelist
    BY <1>2 DEF WhitelistInv, JanitorUnbansWhitelisted
  <1> QED
    BY <1>2, <1>3, <1>4, <1>5, MoveKeepsTargets

LEMMA IdleKeepsTargets ==
    ASSUME WhitelistInv, NEW p \in Procs, proc' = [proc EXCEPT ![p] = Idle], whitelist' = whitelist
    PROVE  TargetsNotWhitelisted' /\ JanitorUnbansWhitelisted'
  <1>1. Idle \in ProcState /\ Idle.pc = "idle"
    OBVIOUS
  <1> QED
    BY <1>1, MoveKeepsTargets DEF Targeting

LEMMA ReturnKeepsTargets ==
    ASSUME WhitelistInv, NEW p \in Procs, NEW b \in BOOLEAN, Return(p, b), whitelist' = whitelist
    PROVE  TargetsNotWhitelisted' /\ JanitorUnbansWhitelisted'
  <1>1. CASE Goto(p, "sync")
    BY <1>1, GotoKeepsTargets DEF Targeting
  <1>2. CASE Goto(p, "session")
    BY <1>2, GotoKeepsTargets DEF Targeting
  <1>3. CASE proc' = [proc EXCEPT ![p] = Idle]
    BY <1>3, IdleKeepsTargets
  <1> QED
    BY <1>1, <1>2, <1>3 DEF Return

LEMMA CallKeepsTargets ==
    ASSUME WhitelistInv, NEW p \in Procs,
           BanRow(p) \/ BanFw(p) \/ UnbanRow(p) \/ UnbanScore(p) \/ UnbanFw(p)
    PROVE  TargetsNotWhitelisted' /\ JanitorUnbansWhitelisted'
  <1> USE DEF cfgVars
  <1>1. CASE BanRow(p)
    <2>1. Goto(p, "ban_fw") => TargetsNotWhitelisted' /\ JanitorUnbansWhitelisted'
      BY <1>1, GotoKeepsTargets DEF BanRow, Targeting
    <2> QED
      BY <1>1, <2>1, ReturnKeepsTargets DEF BanRow
  <1>2. CASE BanFw(p)
    BY <1>2, ReturnKeepsTargets DEF BanFw
  <1>3. CASE UnbanRow(p)
    <2>1. Goto(p, "unban_score") => TargetsNotWhitelisted' /\ JanitorUnbansWhitelisted'
      BY <1>3, GotoKeepsTargets DEF UnbanRow, Targeting
    <2> QED
      BY <1>3, <2>1, ReturnKeepsTargets DEF UnbanRow
  <1>4. CASE UnbanScore(p)
    BY <1>4, GotoKeepsTargets DEF UnbanScore, Targeting
  <1>5. CASE UnbanFw(p)
    BY <1>5, ReturnKeepsTargets DEF UnbanFw
  <1> QED
    BY <1>1, <1>2, <1>3, <1>4, <1>5

LEMMA HandlerKeepsTargets ==
    ASSUME WhitelistInv, NEW h \in Handlers, HandlerStep(h)
    PROVE  TargetsNotWhitelisted' /\ JanitorUnbansWhitelisted'
  <1> USE DEF cfgVars, IsWhitelisted
  <1>0. h \in Procs /\ h # Janitor /\ proc[h] \in ProcState
    BY ProcsAssumption DEF Procs, ProcOK, WhitelistInv
  <1>1. ASSUME NEW ip \in IPs, Connect(h, ip)
        PROVE  TargetsNotWhitelisted' /\ JanitorUnbansWhitelisted'
    <2> DEFINE r == [Idle EXCEPT !.ip = ip, !.pc = IF IsWhitelisted(ip) THEN "session" ELSE "check"]
    <2>1. r \in ProcState /\ r.ip = ip /\ r.pc = IF ip \in whitelist THEN "session" ELSE "check"
      OBVIOUS
    <2>2. proc' = [proc EXCEPT ![h] = r] /\ whitelist' = whitelist
      BY <1>1 DEF Connect
    <2> HIDE DEF r
    <2> QED
      BY <1>0, <2>1, <2>2, MoveKeepsTargets DEF Targeting
  <1>2. CASE Check(h)
    <2>1. proc[h].pc \in Targeting /\ proc[h].ip \notin whitelist /\ whitelist' = whitelist
      BY <1>0, <1>2 DEF Check, Targeting, WhitelistInv, TargetsNotWhitelisted
    <2>2. ASSUME NEW k \in {"drop", "honeypot"},
                 proc' = [proc EXCEPT ![h].pc = "score", ![h].kind = k]
          PROVE  TargetsNotWhitelisted' /\ JanitorUnbansWhitelisted'
      <3> DEFINE r == [proc[h] EXCEPT !.pc = "score", !.kind = k]
      <3>1. r \in ProcState /\ r.pc = "score" /\ r.ip = proc[h].ip
        BY <1>0
      <3>2. proc' = [proc EXCEPT ![h] = r]
        BY <1>0, <2>2 DEF ProcOK, WhitelistInv
      <3> HIDE DEF r
      <3> QED
        BY <1>0, <2>1, <3>1, <3>2, MoveKeepsTargets
    <2>3. Goto(h, "reassert") \/ Goto(h, "session")
            => TargetsNotWhitelisted' /\ JanitorUnbansWhitelisted'
      BY <1>0, <2>1, GotoKeepsTargets
    <2> QED
      BY <1>0, <1>2, <2>1, <2>2, <2>3, IdleKeepsTargets DEF Check
  <1>3. CASE Reassert(h) \/ EndSession(h)
    BY <1>0, <1>3, IdleKeepsTargets DEF Reassert, EndSession
  <1>4. CASE Record(h)
    <2>1. proc[h].ip \notin whitelist /\ whitelist' = whitelist
      BY <1>0, <1>4 DEF Record, Targeting, WhitelistInv, TargetsNotWhitelisted
    <2>2. ASSUME NEW new \in Nat, proc' = [proc EXCEPT ![h].pc = "decide", ![h].score = new]
          PROVE  TargetsNotWhitelisted' /\ JanitorUnbansWhitelisted'
      <3> DEFINE r == [proc[h] EXCEPT !.pc = "decide", !.score = new]
      <3>1. r \in ProcState /\ r.pc = "decide" /\ r.ip = proc[h].ip
        BY <1>0
      <3>2. proc' = [proc EXCEPT ![h] = r]
        BY <1>0, <2>2 DEF ProcOK, WhitelistInv
      <3> HIDE DEF r
      <3> QED
        BY <1>0, <2>1, <3>1, <3>2, MoveKeepsTargets
    <2>3. proc[h].ip \in IPs
      BY <1>0, <1>4, JobIP DEF Record, WhitelistInv
    <2>4. score[proc[h].ip] \in 0..MaxScore /\ Points[proc[h].kind] \in Nat
      BY <1>0, <2>3, TimeAssumption DEF DataOK, WhitelistInv
    <2>5. LET sum == score[proc[h].ip] + Points[proc[h].kind]
          IN  (IF sum > MaxScore THEN MaxScore ELSE sum) \in Nat
      BY <2>4, TimeAssumption
    <2>6. Return(h, FALSE) => TargetsNotWhitelisted' /\ JanitorUnbansWhitelisted'
      BY <1>0, <2>1, ReturnKeepsTargets
    <2> QED
      BY <1>4, <2>2, <2>5, <2>6 DEF Record
  <1>5. CASE Decide(h)
    <2>1. proc[h].ip \notin whitelist /\ whitelist' = whitelist
      BY <1>0, <1>5 DEF Decide, Targeting, WhitelistInv, TargetsNotWhitelisted
    <2>2. CASE proc' = [proc EXCEPT ![h].pc = "isbanned", ![h].dur = settings.dur]
      <3> DEFINE r == [proc[h] EXCEPT !.pc = "isbanned", !.dur = settings.dur]
      <3>0. settings.dur \in Nat
        BY TimeAssumption DEF DataOK, WhitelistInv
      <3>1. r \in ProcState /\ r.pc = "isbanned" /\ r.ip = proc[h].ip
        BY <1>0, <3>0
      <3>2. proc' = [proc EXCEPT ![h] = r]
        BY <1>0, <2>2 DEF ProcOK, WhitelistInv
      <3> HIDE DEF r
      <3> QED
        BY <1>0, <2>1, <3>1, <3>2, MoveKeepsTargets
    <2> QED
      BY <1>0, <1>5, <2>1, <2>2, ReturnKeepsTargets DEF Decide
  <1>6. CASE IsBanned(h)
    <2>1. Goto(h, "ban_row") => TargetsNotWhitelisted' /\ JanitorUnbansWhitelisted'
      BY <1>0, <1>6, GotoKeepsTargets DEF IsBanned, Targeting
    <2> QED
      BY <1>0, <1>6, <2>1, ReturnKeepsTargets DEF IsBanned
  <1>7. CASE Credential(h)
    <2> DEFINE r == [proc[h] EXCEPT !.pc = "score", !.kind = "credential"]
    <2>1. r \in ProcState /\ r.pc = "score" /\ r.ip = proc[h].ip
      BY <1>0
    <2>2. proc' = [proc EXCEPT ![h] = r] /\ proc[h].ip \notin whitelist /\ whitelist' = whitelist
      BY <1>0, <1>7 DEF Credential, ProcOK, WhitelistInv
    <2> HIDE DEF r
    <2> QED
      BY <1>0, <2>1, <2>2, MoveKeepsTargets
  <1>8. CASE BanRow(h) \/ BanFw(h)
    BY <1>0, <1>8, CallKeepsTargets
  <1> QED
    BY <1>1, <1>2, <1>3, <1>4, <1>5, <1>6, <1>7, <1>8 DEF HandlerStep

LEMMA OperatorKeepsTargets ==
    ASSUME WhitelistInv, NEW o \in Operators, OperatorStep(o)
    PROVE  TargetsNotWhitelisted' /\ JanitorUnbansWhitelisted'
  <1> USE DEF cfgVars, IsWhitelisted
  <1>0. o \in Procs /\ o # Janitor
    BY ProcsAssumption DEF Procs
  <1>1. ASSUME NEW ip \in IPs, NEW d \in Durations, OperatorBan(o, ip, d)
        PROVE  TargetsNotWhitelisted' /\ JanitorUnbansWhitelisted'
    <2> DEFINE r == [Idle EXCEPT !.pc = "ban_row", !.ip = ip, !.dur = d]
    <2>1. r \in ProcState /\ r.ip = ip
      BY TimeAssumption
    <2>2. proc' = [proc EXCEPT ![o] = r] /\ ip \notin whitelist /\ whitelist' = whitelist
      BY <1>1 DEF OperatorBan
    <2> HIDE DEF r
    <2> QED
      BY <1>0, <2>1, <2>2, MoveKeepsTargets
  <1>2. ASSUME NEW ip \in IPs, OperatorUnban(o, ip)
        PROVE  TargetsNotWhitelisted' /\ JanitorUnbansWhitelisted'
    <2> DEFINE r == [Idle EXCEPT !.pc = "unban_row", !.ip = ip]
    <2>1. r \in ProcState /\ r.pc = "unban_row"
      OBVIOUS
    <2>2. proc' = [proc EXCEPT ![o] = r] /\ whitelist' = whitelist
      BY <1>2 DEF OperatorUnban
    <2> HIDE DEF r
    <2> QED
      BY <1>0, <2>1, <2>2, MoveKeepsTargets DEF Targeting
  <1>3. ASSUME NEW s \in SettingsSet, SetAutoBan(o, s)
        PROVE  TargetsNotWhitelisted' /\ JanitorUnbansWhitelisted'
    BY <1>3 DEF SetAutoBan, WhitelistInv, TargetsNotWhitelisted, JanitorUnbansWhitelisted
  <1>4. CASE BanRow(o) \/ BanFw(o) \/ UnbanRow(o) \/ UnbanScore(o) \/ UnbanFw(o)
    BY <1>0, <1>4, CallKeepsTargets
  <1> QED
    BY <1>1, <1>2, <1>3, <1>4 DEF OperatorStep

LEMMA JanitorKeepsTargets ==
    ASSUME WhitelistInv, JanitorStep
    PROVE  TargetsNotWhitelisted' /\ JanitorUnbansWhitelisted'
  <1> USE DEF cfgVars, IsWhitelisted
  <1>0. Janitor \in Procs /\ proc[Janitor] \in ProcState
    BY DEF Procs, ProcOK, WhitelistInv
  \* A move to a label where nothing is targeted or unbanned.
  <1>a. ASSUME NEW l \in {"synclist", "sync", "release", "lift", "hooks", "wait", "reset"},
               Goto(Janitor, l), whitelist' = whitelist
        PROVE  TargetsNotWhitelisted' /\ JanitorUnbansWhitelisted'
    BY <1>0, <1>a, GotoKeepsTargets DEF Targeting
  \* A move to an address of the list.
  <1>b. ASSUME NEW ip \in IPs, NEW l \in {"unban_row", "delete"},
               proc' = [proc EXCEPT ![Janitor].pc = l, ![Janitor].ip = ip],
               whitelist' = whitelist, l = "unban_row" => ip \in whitelist
        PROVE  TargetsNotWhitelisted' /\ JanitorUnbansWhitelisted'
    <2> DEFINE r == [proc[Janitor] EXCEPT !.pc = l, !.ip = ip]
    <2>1. r \in ProcState /\ r.pc = l /\ r.ip = ip
      BY <1>0
    <2>2. proc' = [proc EXCEPT ![Janitor] = r]
      BY <1>0, <1>b DEF ProcOK, WhitelistInv
    <2> HIDE DEF r
    <2> QED
      BY <1>0, <1>b, <2>1, <2>2, MoveKeepsTargets DEF Targeting
  <1>1. CASE SyncList \/ ReleaseList \/ MinuteTicker \/ DeleteExpired \/ ResetScore
    BY <1>1, <1>a DEF SyncList, ReleaseList, MinuteTicker, DeleteExpired, ResetScore
  <1>2. CASE SyncDone \/ LiftDone
    BY <1>2, <1>a DEF SyncDone, LiftDone
  <1>3. CASE EnsureHooks
    BY <1>3, <1>a DEF EnsureHooks
  <1>4. ASSUME NEW ip \in IPs, SyncUnban(ip)
        PROVE  TargetsNotWhitelisted' /\ JanitorUnbansWhitelisted'
    BY <1>4, <1>b DEF SyncUnban
  <1>5. ASSUME NEW ip \in IPs, SyncBan(ip)
        PROVE  TargetsNotWhitelisted' /\ JanitorUnbansWhitelisted'
    BY <1>5 DEF SyncBan, WhitelistInv, TargetsNotWhitelisted, JanitorUnbansWhitelisted
  <1>6. ASSUME NEW ip \in IPs, LiftRule(ip)
        PROVE  TargetsNotWhitelisted' /\ JanitorUnbansWhitelisted'
    <2>1. CASE UNCHANGED proc
      BY <1>6, <2>1 DEF LiftRule, WhitelistInv, TargetsNotWhitelisted, JanitorUnbansWhitelisted
    <2> QED
      BY <1>6, <1>b, <2>1 DEF LiftRule
  <1>7. CASE UnbanRow(Janitor) \/ UnbanScore(Janitor) \/ UnbanFw(Janitor)
    BY <1>0, <1>7, CallKeepsTargets
  <1> QED
    BY <1>1, <1>2, <1>3, <1>4, <1>5, <1>6, <1>7 DEF JanitorStep

LEMMA WorldKeepsTargets ==
    ASSUME WhitelistInv, World
    PROVE  TargetsNotWhitelisted' /\ JanitorUnbansWhitelisted'
  <1> USE DEF cfgVars, WhitelistInv, TargetsNotWhitelisted, JanitorUnbansWhitelisted
  <1>1. CASE Tick
    BY <1>1 DEF Tick
  <1>2. ASSUME NEW f \in Families, Flush(f)
        PROVE  TargetsNotWhitelisted' /\ JanitorUnbansWhitelisted'
    BY <1>2 DEF Flush
  <1>3. ASSUME NEW w \in Whitelists, NEW reboot \in BOOLEAN, Restart(w, reboot)
        PROVE  TargetsNotWhitelisted' /\ JanitorUnbansWhitelisted'
    BY <1>3 DEF Restart, Fresh, Targeting, Procs
  <1> QED
    BY <1>1, <1>2, <1>3 DEF World

LEMMA WhitelistInvInit == Init => WhitelistInv
  BY InitType DEF Init, Fresh, Targeting, Procs, WhitelistInv, TargetsNotWhitelisted,
                  JanitorUnbansWhitelisted

LEMMA WhitelistInvNext == WhitelistInv /\ [Next]_vars => WhitelistInv'
  <1> SUFFICES ASSUME WhitelistInv, [Next]_vars PROVE WhitelistInv'
    OBVIOUS
  <1>1. ProcOK' /\ DataOK'
    BY NextType DEF WhitelistInv
  <1>2. CASE UNCHANGED vars
    BY <1>1, <1>2 DEF vars, cfgVars, WhitelistInv, TargetsNotWhitelisted, JanitorUnbansWhitelisted
  <1>3. CASE Next
    BY <1>1, <1>3, HandlerKeepsTargets, OperatorKeepsTargets, JanitorKeepsTargets,
       WorldKeepsTargets DEF Next, WhitelistInv
  <1> QED
    BY <1>2, <1>3

LEMMA WhitelistInvariant == Spec => []WhitelistInv
  BY WhitelistInvInit, WhitelistInvNext, PTL DEF Spec

\* Whoever is on the way to score, ban or block an address works for one that
\* this process does not whitelist, wherever the check was made: at Connect, at
\* the dashboard or in the sync loop.
THEOREM WhitelistSafe == Spec => []TargetsNotWhitelisted
  <1>1. WhitelistInv => TargetsNotWhitelisted
    BY DEF WhitelistInv
  <1> QED
    BY <1>1, WhitelistInvariant, PTL

-----------------------------------------------------------------------------
(* What a step does to the ban rows and to the kernel's rules              *)

\* The only insertion of a rule is Firewall.Ban's.
LEMMA FwEffect ==
    ASSUME NEW ip \in IPs, NEW ok \in BOOLEAN
    PROVE  /\ FwBan(ip, ok) => rules' \subseteq rules \cup {ip}
           /\ FwUnban(ip, ok) => rules' \subseteq rules
  BY DEF FwBan, FwUnban

\* A row is written by BanRow for an address not whitelisted, cleared by
\* UnbanRow or, once expired, by DeleteExpired.
RowStep ==
    \/ UNCHANGED row
    \/ /\ UNCHANGED whitelist
       /\ \/ \E p \in Procs :
                /\ proc[p].pc = "ban_row" /\ ~IsWhitelisted(proc[p].ip)
                /\ row' = [row EXCEPT ![proc[p].ip] = BanUntil(proc[p].dur)]
          \/ \E p \in Operators \cup {Janitor} :
                proc[p].pc = "unban_row" /\ row' = [row EXCEPT ![proc[p].ip] = NoRow]
          \/ /\ Expired(proc[Janitor].ip)
             /\ row' = [row EXCEPT ![proc[Janitor].ip] = NoRow]

\* Every step writes rows in one of these ways and inserts at most a rule for
\* an address that is not whitelisted.
LEMMA StepEffect ==
    ASSUME WhitelistInv, Next
    PROVE  /\ RowStep
           /\ \A ip \in whitelist' : ip \in rules' => ip \in rules
  <1> USE DEF RowStep, vars, dbVars, cfgVars, janVars, IsWhitelisted
  <1>1. ASSUME NEW p \in Procs, BanRow(p) \/ BanFw(p)
        PROVE  RowStep /\ \A ip \in whitelist' : ip \in rules' => ip \in rules
    <2>1. CASE BanRow(p)
      BY <2>1 DEF BanRow
    <2>2. CASE BanFw(p)
      <3>1. proc[p].ip \in IPs /\ proc[p].ip \notin whitelist
        BY <2>2, JobIP DEF BanFw, Targeting, WhitelistInv, TargetsNotWhitelisted
      <3> QED
        BY <2>2, <3>1, FwEffect DEF BanFw
    <2> QED
      BY <1>1, <2>1, <2>2
  <1>2. ASSUME NEW p \in Operators \cup {Janitor}, UnbanRow(p) \/ UnbanScore(p) \/ UnbanFw(p)
        PROVE  RowStep /\ \A ip \in whitelist' : ip \in rules' => ip \in rules
    <2>1. proc[p].ip \in IPs
      BY <1>2, JobIP DEF Procs, WhitelistInv, UnbanRow, UnbanScore, UnbanFw
    <2> QED
      BY <1>2, <2>1, FwEffect DEF UnbanRow, UnbanScore, UnbanFw
  <1>3. ASSUME NEW h \in Handlers, HandlerStep(h)
        PROVE  RowStep /\ \A ip \in whitelist' : ip \in rules' => ip \in rules
    <2>0. h \in Procs
      BY DEF Procs
    <2>1. CASE Reassert(h)
      <3>1. proc[h].ip \in IPs /\ proc[h].ip \notin whitelist
        BY <2>0, <2>1, JobIP DEF Reassert, Targeting, WhitelistInv, TargetsNotWhitelisted
      <3> QED
        BY <2>1, <3>1, FwEffect DEF Reassert
    <2> QED
      BY <1>1, <1>3, <2>0, <2>1
         DEF HandlerStep, Connect, Check, Record, Decide, IsBanned, Credential, EndSession
  <1>4. ASSUME NEW o \in Operators, OperatorStep(o)
        PROVE  RowStep /\ \A ip \in whitelist' : ip \in rules' => ip \in rules
    BY <1>1, <1>2, <1>4 DEF OperatorStep, OperatorBan, OperatorUnban, SetAutoBan, Procs
  <1>5. CASE JanitorStep
    <2>1. ASSUME NEW ip \in IPs, SyncUnban(ip) \/ SyncBan(ip) \/ LiftRule(ip)
          PROVE  RowStep /\ \A a \in whitelist' : a \in rules' => a \in rules
      BY <2>1, FwEffect DEF SyncUnban, SyncBan, LiftRule
    <2>2. CASE DeleteExpired
      BY <2>2 DEF DeleteExpired, StillExpired
    <2> QED
      BY <1>2, <1>5, <2>1, <2>2 DEF JanitorStep, SyncList, SyncDone, ReleaseList, LiftDone,
         MinuteTicker, ResetScore, EnsureHooks
  <1>6. CASE World
    BY <1>6 DEF World, Tick, Flush, Restart
  <1> QED
    BY <1>3, <1>4, <1>5, <1>6 DEF Next

\* No step of any goroutine, whatever it checked and when, stores a ban or
\* inserts a DROP rule for an address its process whitelists (README: "never
\* scored or banned").
THEOREM WhitelistedNeverBanned == Spec => NeverBanWhitelisted
  <1>1. ASSUME WhitelistInv, WhitelistInv', [Next]_vars
        PROVE  [\A ip \in whitelist' : /\ row'[ip] \in {row[ip], NoRow}
                                       /\ ip \in rules' => ip \in rules]_vars
    <2> SUFFICES ASSUME Next, NEW ip \in whitelist'
                 PROVE  row'[ip] \in {row[ip], NoRow} /\ (ip \in rules' => ip \in rules)
      BY <1>1
    <2>1. RowStep /\ (ip \in rules' => ip \in rules)
      BY <1>1, StepEffect
    <2>2. ip \in IPs /\ row \in [IPs -> Rows]
      BY <1>1, WorldAssumption DEF WhitelistInv, DataOK
    <2>3. CASE UNCHANGED row
      BY <2>1, <2>3
    <2>4. CASE UNCHANGED whitelist
      BY <2>1, <2>2, <2>4 DEF RowStep, IsWhitelisted
    <2> QED
      BY <2>1, <2>3, <2>4 DEF RowStep
  <1> QED
    BY <1>1, WhitelistInvariant, PTL DEF Spec, NeverBanWhitelisted

\* A ban in force is taken back only by somebody who unbans it: the release of
\* expired bans never deletes a row renewed since it was listed.
THEOREM RenewedBanKept == Spec => RenewedRowKept
  <1>1. ASSUME WhitelistInv, [Next]_vars
        PROVE  [\A ip \in IPs : Active(ip) /\ row'[ip] = NoRow =>
                  \E p \in Operators \cup {Janitor} :
                    /\ proc[p].pc = "unban_row" /\ proc[p].ip = ip
                    /\ p = Janitor => ip \in whitelist]_vars
    <2> SUFFICES ASSUME Next, NEW ip \in IPs, Active(ip), row'[ip] = NoRow
                 PROVE  \E p \in Operators \cup {Janitor} :
                          /\ proc[p].pc = "unban_row" /\ proc[p].ip = ip
                          /\ p = Janitor => ip \in whitelist
      BY <1>1
    <2>1. RowStep /\ row \in [IPs -> Rows] /\ now \in Nat
      BY <1>1, StepEffect, TimeAssumption DEF WhitelistInv, DataOK
    <2>2. row[ip] # NoRow /\ row[ip] \in Rows /\ ~Expired(ip)
      BY <2>1 DEF Active, Expired, NoRow
    <2>3. \A d : BanUntil(d) # NoRow
      BY DEF BanUntil, NoRow, Forever, TempRow
    <2>4. PICK p \in Operators \cup {Janitor} :
            proc[p].pc = "unban_row" /\ row' = [row EXCEPT ![proc[p].ip] = NoRow]
      BY <2>1, <2>2, <2>3 DEF RowStep
    <2>5. proc[p].ip = ip
      BY <2>1, <2>2, <2>4
    <2> QED
      BY <1>1, <2>4, <2>5 DEF WhitelistInv, JanitorUnbansWhitelisted
  <1> QED
    BY <1>1, WhitelistInvariant, PTL DEF Spec, RenewedRowKept

-----------------------------------------------------------------------------
(* The rules and the rows                                                  *)

\* A ban that is stored and has not run out.
InForce(ip) == row[ip] # NoRow /\ ~Expired(ip)
Lifting == {"unban_row", "unban_score", "unban_fw"}

\* What RuleBacked needs to be inductive: whoever puts a rule in works for a ban
\* in force, the sync for one that is stored, and a lifted ban that was not
\* renewed has no rule left.
OnlyJanitorLifts == \A p \in Procs \ {Janitor} : proc[p].pc \notin Lifting
RuleHeld ==
    \A ip \in rules : \/ row[ip] # NoRow
                      \/ proc[Janitor].pc \in {"unban_score", "unban_fw"} /\ proc[Janitor].ip = ip
RowInForce == \A p \in Procs : proc[p].pc \in {"ban_fw", "reassert"} => InForce(proc[p].ip)
SyncListed ==
    proc[Janitor].pc \in {"sync"} \cup Lifting =>
        /\ \A ip \in work : row[ip] # NoRow
        /\ proc[Janitor].pc # "sync" => proc[Janitor].ip \notin work
LiftedFirst ==
    proc[Janitor].pc = "delete" /\ Expired(proc[Janitor].ip) => proc[Janitor].ip \notin rules

\* Nothing is whitelisted, or nothing keeps the sync from lifting the rule of a
\* ban whose row it has deleted.
LiftingWorks ==
    \/ \A w \in Whitelists : w = {}
    \/ budget["fw"] = 0 /\ budget["crash"] = 0 /\ \A ip \in IPs : CanUnban(ip)

BackedInv == OnlyJanitorLifts /\ RuleHeld /\ RowInForce /\ SyncListed /\ LiftedFirst /\ LiftingWorks

LEMMA LiftingKept ==
    ASSUME DataOK, LiftingWorks, UNCHANGED budget \/ \E k \in Upsets : Upset(k)
    PROVE  LiftingWorks'
  BY DEF LiftingWorks, CanUnban, HasFamily, DataOK

\* What the two ways of moving on do to the goroutines.
LEMMA GotoMoves ==
    ASSUME ProcOK, NEW p \in Procs, NEW l, Goto(p, l)
    PROVE  /\ \A q \in Procs \ {p} : proc'[q] = proc[q]
           /\ proc'[p].pc = l /\ proc'[p].ip = proc[p].ip
  BY DEF ProcOK, Goto

LEMMA ReturnMoves ==
    ASSUME ProcOK, NEW p \in Procs, NEW b, Return(p, b)
    PROVE  /\ \A q \in Procs \ {p} : proc'[q] = proc[q]
           /\ p = Janitor => proc'[p].pc = "sync" /\ proc'[p].ip = proc[p].ip
           /\ p # Janitor => proc'[p].pc \in {"idle", "session"}
  <1>1. CASE Goto(p, "sync") /\ p = Janitor
    BY <1>1, GotoMoves
  <1>2. CASE Goto(p, "session") /\ p # Janitor
    BY <1>2, GotoMoves
  <1>3. CASE proc' = [proc EXCEPT ![p] = Idle] /\ p # Janitor
    BY <1>3 DEF ProcOK
  <1> QED
    BY <1>1, <1>2, <1>3 DEF Return

LEMMA BanInForce ==
    ASSUME DataOK, NEW d \in Nat
    PROVE  /\ BanUntil(d) # NoRow
           /\ ~(BanUntil(d).kind = "temp" /\ BanUntil(d).until <= now)
  BY TimeAssumption DEF BanUntil, Forever, TempRow, NoRow, DataOK

\* A step of a connection or a request: it renews bans, and inserts rules only
\* for bans in force.
LEMMA OtherKeepsBacked ==
    ASSUME WhitelistInv, BackedInv, NEW p \in Procs \ {Janitor},
           \A q \in Procs \ {p} : proc'[q] = proc[q],
           proc'[p].pc \notin Lifting,
           proc'[p].pc \in {"ban_fw", "reassert"} =>
               \E ip \in IPs : ip = proc'[p].ip /\ InForce(ip)',
           UNCHANGED <<now, work>>,
           \A ip \in IPs : row'[ip] = row[ip] \/ InForce(ip)',
           rules' \subseteq IPs,
           \A ip \in rules' : ip \in rules \/ InForce(ip)',
           UNCHANGED budget \/ \E k \in Upsets : Upset(k)
    PROVE  BackedInv'
  <1>0. Janitor \in Procs /\ proc'[Janitor] = proc[Janitor] /\ work \subseteq IPs
    BY DEF Procs, WhitelistInv, DataOK
  <1>1. ASSUME NEW ip \in IPs, InForce(ip) PROVE InForce(ip)'
    BY <1>1 DEF InForce, Expired
  <1>2. ASSUME NEW ip \in IPs, row[ip] # NoRow PROVE row'[ip] # NoRow
    BY <1>2 DEF InForce
  <1>3. RowInForce'
    <2> SUFFICES ASSUME NEW q \in Procs, proc'[q].pc \in {"ban_fw", "reassert"}
                 PROVE  InForce(proc[q].ip)'
      BY DEF RowInForce
    <2>1. CASE q = p
      BY <2>1 DEF InForce, Expired
    <2>2. CASE q # p
      <3>1. proc[q].ip \in IPs /\ InForce(proc[q].ip)
        BY <2>2, JobIP DEF BackedInv, RowInForce, WhitelistInv
      <3>2. PICK ip \in IPs : ip = proc[q].ip
        BY <3>1
      <3>3. InForce(ip)' /\ ip = proc'[q].ip
        BY <1>1, <2>2, <3>1, <3>2
      <3> QED
        BY <3>3 DEF InForce, Expired
    <2> QED
      BY <2>1, <2>2
  <1>4. RuleHeld' /\ SyncListed' /\ OnlyJanitorLifts'
    BY <1>0, <1>2 DEF BackedInv, RuleHeld, SyncListed, OnlyJanitorLifts, InForce
  <1>5. LiftedFirst'
    <2> SUFFICES ASSUME proc[Janitor].pc = "delete", Expired(proc[Janitor].ip)'
                 PROVE  proc[Janitor].ip \notin rules'
      BY <1>0 DEF LiftedFirst
    <2>1. PICK ip \in IPs : ip = proc[Janitor].ip
      BY <1>0, JobIP DEF WhitelistInv
    <2>2. ~InForce(ip)' /\ Expired(ip)'
      BY <1>0, <2>1 DEF InForce, Expired
    <2>3. (Expired(ip) /\ ip \notin rules) \/ ip \notin rules'
      BY <2>1, <2>2 DEF Expired, BackedInv, LiftedFirst
    <2> QED
      BY <2>1, <2>2, <2>3
  <1> QED
    BY <1>3, <1>4, <1>5, LiftingKept DEF BackedInv, WhitelistInv

LEMMA BanKeepsBacked ==
    ASSUME WhitelistInv, BackedInv, NEW p \in Procs \ {Janitor}, BanRow(p) \/ BanFw(p) \/ Reassert(p)
    PROVE  BackedInv'
  <1>0. ProcOK /\ DataOK /\ row \in [IPs -> Rows] /\ proc[p].ip \in IPs /\ proc[p].dur \in Nat
    BY JobIP DEF BanRow, BanFw, Reassert, WhitelistInv, DataOK, ProcOK
  <1>1. CASE BanRow(p)
    <2>0. UNCHANGED <<now, rules, work>> /\ (UNCHANGED budget \/ \E k \in Upsets : Upset(k))
      BY <1>1 DEF BanRow, janVars
    <2>1. CASE row' = [row EXCEPT ![proc[p].ip] = BanUntil(proc[p].dur)] /\ Goto(p, "ban_fw")
      <3>1. \A ip \in IPs : IF ip = proc[p].ip THEN InForce(ip)' ELSE row'[ip] = row[ip]
        BY <1>0, <2>0, <2>1, BanInForce DEF InForce, Expired
      <3>2. /\ \A q \in Procs \ {p} : proc'[q] = proc[q]
            /\ proc'[p].pc = "ban_fw" /\ proc'[p].ip = proc[p].ip
        BY <1>0, <2>1, GotoMoves
      <3> QED
        BY <1>0, <2>0, <3>1, <3>2, OtherKeepsBacked DEF Lifting, DataOK
    <2>2. CASE Return(p, FALSE) /\ UNCHANGED row
      BY <1>0, <2>0, <2>2, ReturnMoves, OtherKeepsBacked DEF Lifting, DataOK
    <2> QED
      BY <1>1, <2>1, <2>2 DEF BanRow
  <1>2. CASE BanFw(p) \/ Reassert(p)
    <2>1. PICK ok \in BOOLEAN : FwBan(proc[p].ip, ok) /\ (Return(p, ok) \/ proc' = [proc EXCEPT ![p] = Idle])
      BY <1>2 DEF BanFw, Reassert
    <2>2. UNCHANGED <<now, row, work>> /\ (UNCHANGED budget \/ \E k \in Upsets : Upset(k))
      BY <1>2, <2>1 DEF BanFw, Reassert, FwBan, dbVars, janVars
    <2>3. InForce(proc[p].ip)
      BY <1>2 DEF BanFw, Reassert, BackedInv, RowInForce
    <2>4. \A ip \in IPs : ip = proc[p].ip => InForce(ip)'
      BY <2>2, <2>3 DEF InForce, Expired
    <2>5. rules' \subseteq rules \cup {proc[p].ip}
      BY <1>0, <2>1, FwEffect
    <2>6. /\ \A q \in Procs \ {p} : proc'[q] = proc[q]
          /\ proc'[p].pc \in {"idle", "session"}
      <3>1. CASE Return(p, ok)
        BY <1>0, <3>1, ReturnMoves
      <3>2. CASE proc' = [proc EXCEPT ![p] = Idle]
        BY <1>0, <3>2 DEF ProcOK
      <3> QED
        BY <2>1, <3>1, <3>2
    <2> QED
      BY <1>0, <2>2, <2>4, <2>5, <2>6, OtherKeepsBacked DEF Lifting, DataOK
  <1> QED
    BY <1>1, <1>2

\* A step of a connection or a request that touches neither rows nor rules.
LEMMA PlainKeepsBacked ==
    ASSUME WhitelistInv, BackedInv, NEW p \in Procs \ {Janitor},
           \A q \in Procs \ {p} : proc'[q] = proc[q],
           proc'[p].pc \notin Lifting \cup {"ban_fw"},
           proc'[p].pc = "reassert" => proc'[p].ip \in IPs /\ InForce(proc'[p].ip),
           UNCHANGED <<now, row, rules, work>>,
           UNCHANGED budget \/ \E k \in Upsets : Upset(k)
    PROVE  BackedInv'
  <1>1. \A ip \in IPs : InForce(ip) => InForce(ip)'
    BY DEF InForce, Expired
  <1> QED
    BY <1>1, OtherKeepsBacked DEF WhitelistInv, DataOK

LEMMA HandlerKeepsBacked ==
    ASSUME WhitelistInv, BackedInv, NEW h \in Handlers, HandlerStep(h)
    PROVE  BackedInv'
  <1> USE DEF dbVars, janVars
  <1>0. h \in Procs \ {Janitor} /\ ProcOK /\ proc[h] \in ProcState
    BY ProcsAssumption DEF Procs, ProcOK, WhitelistInv
  <1>1. ASSUME NEW r, proc' = [proc EXCEPT ![h] = r], r.pc \notin Lifting \cup {"ban_fw", "reassert"},
               UNCHANGED <<now, row, rules, work>>, UNCHANGED budget \/ \E k \in Upsets : Upset(k)
        PROVE  BackedInv'
    BY <1>0, <1>1, PlainKeepsBacked DEF ProcOK
  <1>2. ASSUME NEW l, Goto(h, l), l \notin Lifting \cup {"ban_fw", "reassert"},
               UNCHANGED <<now, row, rules, work>>, UNCHANGED budget \/ \E k \in Upsets : Upset(k)
        PROVE  BackedInv'
    BY <1>0, <1>2, GotoMoves, PlainKeepsBacked
  <1>3. ASSUME NEW b, Return(h, b),
               UNCHANGED <<now, row, rules, work>>, UNCHANGED budget \/ \E k \in Upsets : Upset(k)
        PROVE  BackedInv'
    BY <1>0, <1>3, ReturnMoves, PlainKeepsBacked DEF Lifting
  <1>4. ASSUME NEW ip \in IPs, Connect(h, ip)
        PROVE  BackedInv'
    <2> DEFINE r == [Idle EXCEPT !.ip = ip, !.pc = IF IsWhitelisted(ip) THEN "session" ELSE "check"]
    <2>1. proc' = [proc EXCEPT ![h] = r] /\ r.pc \in {"session", "check"}
          /\ UNCHANGED <<now, row, rules, work, budget>>
      BY <1>4 DEF Connect
    <2> HIDE DEF r
    <2> QED
      BY <1>1, <2>1 DEF Lifting
  <1>5. CASE Check(h)
    <2>1. UNCHANGED <<now, row, rules, work>> /\ (UNCHANGED budget \/ \E k \in Upsets : Upset(k))
      BY <1>5 DEF Check
    <2>2. CASE Active(proc[h].ip) /\ Goto(h, "reassert")
      <3>1. proc[h].ip \in IPs
        BY <1>0, <1>5, JobIP DEF Check
      <3>2. InForce(proc[h].ip)
        <4>1. row[proc[h].ip] \in Rows /\ now \in Nat
          BY <3>1, TimeAssumption DEF WhitelistInv, DataOK
        <4> QED
          BY <2>2, <4>1 DEF Active, InForce, Expired, NoRow
      <3>3. proc'[h].pc = "reassert" /\ proc'[h].ip = proc[h].ip /\ \A q \in Procs \ {h} : proc'[q] = proc[q]
        BY <1>0, <2>2, GotoMoves
      <3> QED
        BY <1>0, <2>1, <3>1, <3>2, <3>3, PlainKeepsBacked DEF Lifting
    <2>3. CASE proc' = [proc EXCEPT ![h] = Idle]
      BY <1>1, <2>1, <2>3 DEF Lifting
    <2>4. CASE Goto(h, "session")
      BY <1>2, <2>1, <2>4 DEF Lifting
    <2>5. ASSUME NEW k \in {"drop", "honeypot"}, proc' = [proc EXCEPT ![h].pc = "score", ![h].kind = k]
          PROVE  BackedInv'
      <3> DEFINE r == [proc[h] EXCEPT !.pc = "score", !.kind = k]
      <3>1. proc' = [proc EXCEPT ![h] = r] /\ r.pc = "score"
        BY <1>0, <2>5 DEF ProcOK
      <3> HIDE DEF r
      <3> QED
        BY <1>1, <2>1, <3>1 DEF Lifting
    <2> QED
      BY <1>5, <2>2, <2>3, <2>4, <2>5 DEF Check
  <1>6. CASE Record(h)
    <2>1. UNCHANGED <<now, row, rules, work>> /\ (UNCHANGED budget \/ \E k \in Upsets : Upset(k))
      BY <1>6 DEF Record
    <2>2. ASSUME NEW n, proc' = [proc EXCEPT ![h].pc = "decide", ![h].score = n]
          PROVE  BackedInv'
      <3> DEFINE r == [proc[h] EXCEPT !.pc = "decide", !.score = n]
      <3>1. proc' = [proc EXCEPT ![h] = r] /\ r.pc = "decide"
        BY <1>0, <2>2 DEF ProcOK
      <3> HIDE DEF r
      <3> QED
        BY <1>1, <2>1, <3>1 DEF Lifting
    <2> QED
      BY <1>3, <1>6, <2>1, <2>2 DEF Record
  <1>7. CASE Decide(h)
    <2>1. UNCHANGED <<now, row, rules, work, budget>>
      BY <1>7 DEF Decide
    <2>2. ASSUME proc' = [proc EXCEPT ![h].pc = "isbanned", ![h].dur = settings.dur]
          PROVE  BackedInv'
      <3> DEFINE r == [proc[h] EXCEPT !.pc = "isbanned", !.dur = settings.dur]
      <3>1. proc' = [proc EXCEPT ![h] = r] /\ r.pc = "isbanned"
        BY <1>0, <2>2 DEF ProcOK
      <3> HIDE DEF r
      <3> QED
        BY <1>1, <2>1, <3>1 DEF Lifting
    <2> QED
      BY <1>3, <1>7, <2>1, <2>2 DEF Decide
  <1>8. CASE IsBanned(h)
    <2>1. UNCHANGED <<now, row, rules, work>> /\ (UNCHANGED budget \/ \E k \in Upsets : Upset(k))
      BY <1>8 DEF IsBanned
    <2>2. Return(h, TRUE) \/ Goto(h, "ban_row")
      BY <1>8 DEF IsBanned
    <2> QED
      BY <1>2, <1>3, <2>1, <2>2 DEF Lifting
  <1>9. CASE Credential(h)
    <2> DEFINE r == [proc[h] EXCEPT !.pc = "score", !.kind = "credential"]
    <2>1. proc' = [proc EXCEPT ![h] = r] /\ r.pc = "score" /\ UNCHANGED <<now, row, rules, work, budget>>
      BY <1>0, <1>9 DEF Credential, ProcOK
    <2> HIDE DEF r
    <2> QED
      BY <1>1, <2>1 DEF Lifting
  <1>10. CASE EndSession(h)
    BY <1>1, <1>10 DEF EndSession, Lifting
  <1> QED
    BY <1>0, <1>4, <1>5, <1>6, <1>7, <1>8, <1>9, <1>10, BanKeepsBacked DEF HandlerStep

LEMMA OperatorKeepsBacked ==
    ASSUME "unban" \notin OperatorOps,
           WhitelistInv, BackedInv, NEW o \in Operators, OperatorStep(o)
    PROVE  BackedInv'
  <1>0. o \in Procs \ {Janitor} /\ ProcOK
    BY ProcsAssumption DEF Procs, WhitelistInv
  <1>1. ASSUME NEW ip \in IPs, NEW d \in Durations, OperatorBan(o, ip, d)
        PROVE  BackedInv'
    <2> DEFINE r == [Idle EXCEPT !.pc = "ban_row", !.ip = ip, !.dur = d]
    <2>1. proc' = [proc EXCEPT ![o] = r] /\ r.pc = "ban_row" /\ UNCHANGED <<now, row, rules, work, budget>>
      BY <1>1 DEF OperatorBan, dbVars, janVars
    <2> HIDE DEF r
    <2> QED
      BY <1>0, <2>1, PlainKeepsBacked DEF Lifting, ProcOK
  <1>2. ASSUME NEW s \in SettingsSet, SetAutoBan(o, s)
        PROVE  BackedInv'
    BY <1>2 DEF SetAutoBan, dbVars, janVars, BackedInv, OnlyJanitorLifts, RuleHeld, RowInForce,
       SyncListed, LiftedFirst, LiftingWorks, InForce, Expired, CanUnban, HasFamily
  <1>3. ~(UnbanRow(o) \/ UnbanScore(o) \/ UnbanFw(o))
    BY <1>0 DEF UnbanRow, UnbanScore, UnbanFw, BackedInv, OnlyJanitorLifts, Lifting
  <1> QED
    BY <1>0, <1>1, <1>2, <1>3, BanKeepsBacked DEF OperatorStep, OperatorUnban

\* The maintenance goroutine clears only rows that nobody is putting a rule for.
LEMMA JanitorSparesOthers ==
    ASSUME WhitelistInv, BackedInv, ProcOK',
           \A q \in Procs \ {Janitor} : proc'[q] = proc[q], UNCHANGED now,
           \A ip \in IPs : row'[ip] = row[ip] \/ Expired(ip) \/ ip \in whitelist,
           UNCHANGED budget \/ \E k \in Upsets : Upset(k)
    PROVE  OnlyJanitorLifts' /\ RowInForce' /\ LiftingWorks'
  <1>1. OnlyJanitorLifts' /\ LiftingWorks'
    BY LiftingKept DEF BackedInv, OnlyJanitorLifts, WhitelistInv
  <1>2. RowInForce'
    <2> SUFFICES ASSUME NEW q \in Procs, proc'[q].pc \in {"ban_fw", "reassert"}
                 PROVE  InForce(proc[q].ip)'
      BY DEF RowInForce
    <2>1. q # Janitor
      BY DEF ProcOK, JanitorPCs, HandlerPCs
    <2>2. /\ proc[q].ip \in IPs /\ proc[q].ip \notin whitelist /\ InForce(proc[q].ip)
          /\ proc'[q] = proc[q]
      BY <2>1, JobIP DEF BackedInv, RowInForce, WhitelistInv, TargetsNotWhitelisted, Targeting
    <2>3. row'[proc[q].ip] = row[proc[q].ip]
      BY <2>2 DEF InForce
    <2> QED
      BY <2>2, <2>3 DEF InForce, Expired
  <1> QED
    BY <1>1, <1>2

LEMMA JanitorKeepsBacked ==
    ASSUME WhitelistInv, WhitelistInv', BackedInv, JanitorStep
    PROVE  BackedInv'
  <1> USE DEF dbVars, janVars
  <1>0. /\ Janitor \in Procs /\ proc[Janitor] \in ProcState
        /\ ProcOK /\ ProcOK' /\ DataOK /\ row \in [IPs -> Rows] /\ now \in Nat
        /\ rules \subseteq IPs /\ work \subseteq IPs
    BY TimeAssumption DEF Procs, ProcOK, WhitelistInv, DataOK
  <1>a. ASSUME \A q \in Procs \ {Janitor} : proc'[q] = proc[q], UNCHANGED <<now, row>>,
               UNCHANGED budget \/ \E k \in Upsets : Upset(k)
        PROVE  OnlyJanitorLifts' /\ RowInForce' /\ LiftingWorks'
    BY <1>0, <1>a, JanitorSparesOthers
  \* A step between places where nothing is lifted or applied.
  <1>b. ASSUME NEW l \in {"synclist", "release", "lift", "hooks", "wait", "reset"}, Goto(Janitor, l),
               proc[Janitor].pc \notin Lifting, UNCHANGED <<now, row>>, rules' \subseteq rules,
               UNCHANGED budget \/ \E k \in Upsets : Upset(k)
        PROVE  BackedInv'
    <2>1. (\A q \in Procs \ {Janitor} : proc'[q] = proc[q]) /\ proc'[Janitor].pc = l
      BY <1>0, <1>b, GotoMoves
    <2> QED
      BY <1>a, <1>b, <2>1 DEF BackedInv, RuleHeld, SyncListed, LiftedFirst, Lifting
  <1>1. CASE SyncList
    <2>1. Goto(Janitor, "sync") /\ UNCHANGED <<now, row, rules>> /\ proc[Janitor].pc = "synclist"
          /\ (UNCHANGED budget \/ \E k \in Upsets : Upset(k))
          /\ \A ip \in work' : ip \in IPs /\ Active(ip)
      BY <1>1 DEF SyncList
    <2>2. (\A q \in Procs \ {Janitor} : proc'[q] = proc[q]) /\ proc'[Janitor].pc = "sync"
      BY <1>0, <2>1, GotoMoves
    <2>3. \A ip \in work' : row[ip] # NoRow
      BY <1>0, <2>1 DEF Active, NoRow
    <2> QED
      BY <1>a, <2>1, <2>2, <2>3 DEF BackedInv, RuleHeld, SyncListed, LiftedFirst, Lifting
  <1>2. ASSUME NEW ip \in IPs, SyncUnban(ip)
        PROVE  BackedInv'
    <2> DEFINE r == [proc[Janitor] EXCEPT !.pc = "unban_row", !.ip = ip]
    <2>1. /\ proc' = [proc EXCEPT ![Janitor] = r] /\ r.pc = "unban_row" /\ r.ip = ip
          /\ UNCHANGED <<now, row, rules, budget>> /\ work' = work \ {ip}
          /\ proc[Janitor].pc = "sync"
      BY <1>0, <1>2 DEF SyncUnban, ProcOK
    <2> HIDE DEF r
    <2>2. (\A q \in Procs \ {Janitor} : proc'[q] = proc[q]) /\ proc'[Janitor].pc = "unban_row"
          /\ proc'[Janitor].ip = ip
      BY <1>0, <2>1 DEF ProcOK
    <2> QED
      BY <1>a, <2>1, <2>2 DEF BackedInv, RuleHeld, SyncListed, LiftedFirst, Lifting
  <1>3. ASSUME NEW ip \in IPs, SyncBan(ip)
        PROVE  BackedInv'
    <2>1. /\ proc[Janitor].pc = "sync" /\ ip \in work /\ UNCHANGED <<now, row, proc>>
          /\ work' \subseteq work /\ \E ok \in BOOLEAN : FwBan(ip, ok)
      BY <1>3 DEF SyncBan, AfterSyncError
    <2>2. row[ip] # NoRow
      BY <2>1 DEF BackedInv, SyncListed
    <2>3. rules' \subseteq rules \cup {ip}
      BY <2>1, FwEffect
    <2>4. UNCHANGED budget \/ \E k \in Upsets : Upset(k)
      BY <2>1 DEF FwBan
    <2> QED
      BY <1>a, <2>1, <2>2, <2>3, <2>4 DEF BackedInv, RuleHeld, SyncListed, LiftedFirst, Lifting
  <1>4. CASE SyncDone \/ ReleaseList \/ LiftDone \/ MinuteTicker \/ ResetScore
    BY <1>4, <1>b DEF SyncDone, ReleaseList, LiftDone, MinuteTicker, ResetScore, Lifting
  <1>5. CASE EnsureHooks
    BY <1>5, <1>b DEF EnsureHooks, Lifting
  <1>6. ASSUME NEW ip \in IPs, LiftRule(ip)
        PROVE  BackedInv'
    <2>1. /\ proc[Janitor].pc = "lift" /\ UNCHANGED <<now, row>> /\ work' \subseteq work
          /\ \E ok \in BOOLEAN : FwUnban(ip, ok)
      BY <1>6 DEF LiftRule, AfterLiftError
    <2>2. rules' \subseteq rules /\ (UNCHANGED budget \/ \E k \in Upsets : Upset(k))
      BY <2>1, FwEffect DEF FwUnban
    <2>3. CASE FwUnban(ip, TRUE) /\ proc' = [proc EXCEPT ![Janitor].pc = "delete", ![Janitor].ip = ip]
      <3> DEFINE r == [proc[Janitor] EXCEPT !.pc = "delete", !.ip = ip]
      <3>1. proc' = [proc EXCEPT ![Janitor] = r] /\ r.pc = "delete" /\ r.ip = ip
        BY <1>0, <2>3 DEF ProcOK
      <3> HIDE DEF r
      <3>2. (\A q \in Procs \ {Janitor} : proc'[q] = proc[q]) /\ proc'[Janitor].pc = "delete"
            /\ proc'[Janitor].ip = ip
        BY <1>0, <3>1 DEF ProcOK
      <3>3. ip \notin rules'
        BY <2>3 DEF FwUnban
      <3> QED
        BY <1>a, <2>1, <2>2, <3>2, <3>3 DEF BackedInv, RuleHeld, SyncListed, LiftedFirst, Lifting
    <2>4. CASE UNCHANGED proc
      BY <1>a, <2>1, <2>2, <2>4 DEF BackedInv, RuleHeld, SyncListed, LiftedFirst, Lifting
    <2> QED
      BY <1>6, <2>3, <2>4 DEF LiftRule
  <1>7. CASE DeleteExpired
    <2> DEFINE ip == proc[Janitor].ip
    <2>0. /\ proc[Janitor].pc = "delete" /\ UNCHANGED <<now, rules>> /\ ip \in IPs
          /\ (UNCHANGED budget \/ \E k \in Upsets : Upset(k))
      BY <1>0, <1>7, JobIP DEF DeleteExpired
    <2>1. CASE UNCHANGED row
      BY <1>7, <1>b, <2>0, <2>1 DEF DeleteExpired, Lifting
    <2>2. CASE Expired(ip) /\ row' = [row EXCEPT ![ip] = NoRow] /\ Goto(Janitor, "reset")
      <3>1. (\A q \in Procs \ {Janitor} : proc'[q] = proc[q]) /\ proc'[Janitor].pc = "reset"
        BY <1>0, <2>2, GotoMoves
      <3>2. \A a \in IPs : row'[a] = row[a] \/ Expired(a)
        BY <1>0, <2>0, <2>2
      <3>3. OnlyJanitorLifts' /\ RowInForce' /\ LiftingWorks'
        BY <1>0, <2>0, <3>1, <3>2, JanitorSparesOthers
      <3>4. RuleHeld'
        BY <1>0, <2>0, <2>2, <3>1 DEF BackedInv, RuleHeld, LiftedFirst
      <3> QED
        BY <3>1, <3>3, <3>4 DEF BackedInv, SyncListed, LiftedFirst, Lifting
    <2> QED
      BY <1>7, <2>1, <2>2 DEF DeleteExpired, StillExpired
  <1>8. CASE UnbanRow(Janitor) \/ UnbanScore(Janitor) \/ UnbanFw(Janitor)
    <2> DEFINE ip == proc[Janitor].ip
    <2>0. /\ UNCHANGED <<now, work>> /\ proc[Janitor].pc \in Lifting
          /\ ip \in IPs /\ ip \in whitelist /\ ip \notin work
      BY <1>0, <1>8, JobIP DEF UnbanRow, UnbanScore, UnbanFw, Lifting, WhitelistInv,
         JanitorUnbansWhitelisted, BackedInv, SyncListed
    <2>1. CASE UnbanRow(Janitor)
      <3>1. /\ UNCHANGED rules /\ proc[Janitor].pc = "unban_row"
            /\ (UNCHANGED budget \/ \E k \in Upsets : Upset(k))
        BY <2>1 DEF UnbanRow
      <3>2. CASE row' = [row EXCEPT ![ip] = NoRow] /\ Goto(Janitor, "unban_score")
        <4>1. (\A q \in Procs \ {Janitor} : proc'[q] = proc[q]) /\ proc'[Janitor].pc = "unban_score"
              /\ proc'[Janitor].ip = ip
          BY <1>0, <3>2, GotoMoves
        <4>2. \A a \in IPs : row'[a] = row[a] \/ a \in whitelist
          BY <1>0, <2>0, <3>2
        <4>3. OnlyJanitorLifts' /\ RowInForce' /\ LiftingWorks'
          BY <1>0, <2>0, <3>1, <4>1, <4>2, JanitorSparesOthers
        <4>4. RuleHeld' /\ SyncListed'
          BY <1>0, <2>0, <3>1, <3>2, <4>1 DEF BackedInv, RuleHeld, SyncListed, Lifting
        <4> QED
          BY <4>1, <4>3, <4>4 DEF BackedInv, LiftedFirst
      <3>3. CASE UNCHANGED row /\ Return(Janitor, FALSE)
        <4>1. (\A q \in Procs \ {Janitor} : proc'[q] = proc[q]) /\ proc'[Janitor].pc = "sync"
          BY <1>0, <3>3, ReturnMoves
        <4> QED
          BY <1>a, <2>0, <3>1, <3>3, <4>1 DEF BackedInv, RuleHeld, SyncListed, LiftedFirst, Lifting
      <3> QED
        BY <2>1, <3>2, <3>3 DEF UnbanRow
    <2>2. CASE UnbanScore(Janitor)
      <3>1. /\ UNCHANGED <<row, rules>> /\ Goto(Janitor, "unban_fw") /\ proc[Janitor].pc = "unban_score"
            /\ (UNCHANGED budget \/ \E k \in Upsets : Upset(k))
        BY <2>2 DEF UnbanScore
      <3>2. (\A q \in Procs \ {Janitor} : proc'[q] = proc[q]) /\ proc'[Janitor].pc = "unban_fw"
            /\ proc'[Janitor].ip = ip
        BY <1>0, <3>1, GotoMoves
      <3> QED
        BY <1>a, <2>0, <3>1, <3>2 DEF BackedInv, RuleHeld, SyncListed, LiftedFirst, Lifting
    <2>3. CASE UnbanFw(Janitor)
      <3>1. Return(Janitor, FALSE) /\ UNCHANGED row /\ proc[Janitor].pc = "unban_fw"
        BY <2>3 DEF UnbanFw
      <3>2. ~(\A w \in Whitelists : w = {})
        BY <2>0 DEF WhitelistInv, DataOK
      <3>3. CanUnban(ip) /\ budget["fw"] = 0
        BY <2>0, <3>2 DEF BackedInv, LiftingWorks
      <3>4. rules' = rules \ {ip} /\ UNCHANGED budget
        BY <2>3, <3>3 DEF UnbanFw, FwUnban
      <3>5. (\A q \in Procs \ {Janitor} : proc'[q] = proc[q]) /\ proc'[Janitor].pc = "sync"
        BY <1>0, <3>1, ReturnMoves
      <3> QED
        BY <1>a, <2>0, <3>1, <3>4, <3>5 DEF BackedInv, RuleHeld, SyncListed, LiftedFirst, Lifting
    <2> QED
      BY <1>8, <2>1, <2>2, <2>3
  <1> QED
    BY <1>1, <1>2, <1>3, <1>4, <1>5, <1>6, <1>7, <1>8 DEF JanitorStep

LEMMA WorldKeepsBacked ==
    ASSUME Prompt, WhitelistInv, BackedInv, World
    PROVE  BackedInv'
  <1> USE DEF dbVars, janVars
  <1>0. Janitor \in Procs
    BY DEF Procs
  <1>1. CASE Tick
    <2>1. UNCHANGED <<row, rules, proc, work, budget>>
          /\ \A p \in Procs : proc[p].pc \notin {"ban_fw", "reassert", "delete"}
      BY <1>1 DEF Tick
    <2>2. LiftingWorks'
      BY <2>1, LiftingKept DEF BackedInv, WhitelistInv
    <2> QED
      BY <1>0, <2>1, <2>2 DEF BackedInv, OnlyJanitorLifts, RuleHeld, RowInForce, SyncListed, LiftedFirst
  <1>2. ASSUME NEW f \in Families, Flush(f)
        PROVE  BackedInv'
    <2>1. /\ UNCHANGED <<now, row, proc, work>> /\ rules' \subseteq rules
          /\ \E k \in Upsets : Upset(k)
      BY <1>2 DEF Flush
    <2>2. LiftingWorks'
      BY <2>1, LiftingKept DEF BackedInv, WhitelistInv
    <2> QED
      BY <2>1, <2>2 DEF BackedInv, OnlyJanitorLifts, RuleHeld, RowInForce, SyncListed, LiftedFirst,
         InForce, Expired
  <1>3. ASSUME NEW w \in Whitelists, NEW reboot \in BOOLEAN, Restart(w, reboot)
        PROVE  BackedInv'
    <2>1. /\ UNCHANGED row /\ rules' \subseteq rules /\ proc' = Fresh
          /\ Upset("crash")
      BY <1>3 DEF Restart
    <2>2. proc[Janitor].pc \notin Lifting
      BY <2>1 DEF Lifting, BackedInv, LiftingWorks, WhitelistInv, DataOK, JanitorUnbansWhitelisted
    <2>3. LiftingWorks'
      BY <2>1, LiftingKept DEF BackedInv, WhitelistInv
    <2>4. \A p \in Procs : proc'[p].pc \in {"idle", "synclist"}
      BY <2>1 DEF Fresh
    <2> QED
      BY <1>0, <2>1, <2>2, <2>3, <2>4 DEF BackedInv, OnlyJanitorLifts, RuleHeld, RowInForce, SyncListed,
         LiftedFirst, Lifting
  <1> QED
    BY <1>1, <1>2, <1>3 DEF World

\* A kernel rule always has a row that will one day lift it, or the sync on its
\* way to lift it, whatever the connections, the operators who ban, the sync,
\* the release and flushes of the firewall do meanwhile and whichever calls
\* fail; with a whitelist, the call that lifts a rule after its row must not fail
\* and the process must not die before it.
THEOREM RulesHaveRows ==
    ASSUME Prompt, "unban" \notin OperatorOps,
           \/ \A w \in Whitelists : w = {}
           \/ Budget["fw"] = 0 /\ Budget["crash"] = 0 /\ \A ip \in IPs : CanUnban(ip)
    PROVE  Spec => []RuleBacked
  <1>1. Init => BackedInv
    <2> SUFFICES ASSUME Init PROVE BackedInv
      OBVIOUS
    <2>1. \A p \in Procs : proc[p].pc \in {"idle", "synclist"}
      BY DEF Init, Fresh
    <2>2. Janitor \in Procs /\ LiftingWorks
      BY DEF Init, LiftingWorks, Procs, CanUnban, HasFamily
    <2> QED
      BY <2>1, <2>2 DEF Init, BackedInv, OnlyJanitorLifts, RuleHeld, RowInForce, SyncListed,
         LiftedFirst, Lifting
  <1>2. WhitelistInv /\ BackedInv /\ [Next]_vars => (WhitelistInv /\ BackedInv)'
    <2> SUFFICES ASSUME WhitelistInv, BackedInv, [Next]_vars PROVE BackedInv'
      BY WhitelistInvNext
    <2>1. CASE UNCHANGED vars
      BY <2>1 DEF vars, dbVars, janVars, BackedInv, OnlyJanitorLifts, RuleHeld, RowInForce,
         SyncListed, LiftedFirst, LiftingWorks, InForce, Expired, CanUnban, HasFamily
    <2>2. CASE Next
      BY <2>2, WhitelistInvNext, HandlerKeepsBacked, OperatorKeepsBacked, JanitorKeepsBacked,
         WorldKeepsBacked DEF Next
    <2> QED
      BY <2>1, <2>2
  <1>3. BackedInv => RuleBacked
    BY DEF BackedInv, RuleHeld, RuleBacked, Procs
  <1> QED
    BY <1>1, <1>2, <1>3, WhitelistInvInit, PTL DEF Spec

-----------------------------------------------------------------------------
(* The first sync                                                          *)

\* As BootRestoresBans has it: no database call failed, nobody flushed.
Untouched == \A u \in {"db", "flush", "wipe"} : budget[u] = Budget[u]
Spent == Budget["fw"] - budget["fw"]

\* The bans the kernel does not know and the sync will not come to any more; the
\* address it is just unbanning is not one of them.
Left == {ip \in Missing \ work : ~(proc[Janitor].pc \in Lifting /\ proc[Janitor].ip = ip)}

BudgetBound == \A u \in Upsets : budget[u] <= Budget[u]
BootAlone == round = "boot" =>
    /\ \A o \in Operators : proc[o].pc = "idle"
    /\ proc[Janitor].pc \in {"synclist", "sync"} \cup Lifting
ChainsStand == Untouched => \A f \in {"v4", "v6"} : chain[f] # "gone"
LiftedRow ==
    round = "boot" /\ proc[Janitor].pc \in {"unban_score", "unban_fw"} => ~Active(proc[Janitor].ip)
LeftCounted ==
    round = "boot" /\ Untouched /\ proc[Janitor].pc \in {"sync"} \cup Lifting =>
        Cardinality(Left) <= Spent

BootInv == BudgetBound /\ BootAlone /\ ChainsStand /\ LiftedRow /\ LeftCounted

\* Every step leaves the budget alone or takes one upset from it.
LEMMA BudgetStep ==
    ASSUME [Next]_vars
    PROVE  UNCHANGED budget \/ \E k \in Upsets : Upset(k)
  <1> USE DEF vars
  <1>1. ASSUME NEW p, BanRow(p) \/ BanFw(p) \/ UnbanRow(p) \/ UnbanScore(p) \/ UnbanFw(p)
        PROVE  UNCHANGED budget \/ \E k \in Upsets : Upset(k)
    BY <1>1 DEF BanRow, BanFw, UnbanRow, UnbanScore, UnbanFw, FwBan, FwUnban
  <1>2. ASSUME NEW h \in Handlers, HandlerStep(h)
        PROVE  UNCHANGED budget \/ \E k \in Upsets : Upset(k)
    BY <1>1, <1>2 DEF HandlerStep, Connect, Check, Reassert, Record, Decide, IsBanned, Credential,
       EndSession, FwBan
  <1>3. ASSUME NEW o \in Operators, OperatorStep(o)
        PROVE  UNCHANGED budget \/ \E k \in Upsets : Upset(k)
    BY <1>1, <1>3 DEF OperatorStep, OperatorBan, OperatorUnban, SetAutoBan
  <1>4. CASE JanitorStep
    <2>1. ASSUME NEW ip \in IPs, SyncUnban(ip) \/ SyncBan(ip) \/ LiftRule(ip)
          PROVE  UNCHANGED budget \/ \E k \in Upsets : Upset(k)
      BY <2>1 DEF SyncUnban, SyncBan, LiftRule, FwBan, FwUnban
    <2> QED
      BY <1>1, <1>4, <2>1 DEF JanitorStep, SyncList, SyncDone, ReleaseList, LiftDone, MinuteTicker,
         DeleteExpired, ResetScore, EnsureHooks
  <1>5. CASE World
    BY <1>5 DEF World, Tick, Flush, Restart
  <1> QED
    BY <1>2, <1>3, <1>4, <1>5 DEF Next

\* Nothing becomes untouched again.
LEMMA UntouchedBefore ==
    ASSUME DataOK, BudgetBound, [Next]_vars
    PROVE  BudgetBound' /\ (Untouched' => Untouched) /\ budget'["fw"] <= budget["fw"]
  <1>1. \A u \in Upsets : budget[u] \in Nat /\ Budget[u] \in Nat /\ budget'[u] \in Nat /\ budget'[u] <= budget[u]
    BY BudgetStep, TimeAssumption DEF DataOK
  <1> QED
    BY <1>1 DEF BudgetBound, Untouched

\* One more ban is left out only with one more failing call.
LEMMA CountKept ==
    ASSUME IsFiniteSet(IPs), DataOK, DataOK', BudgetBound, LeftCounted,
           round = "boot", Untouched, proc[Janitor].pc \in {"sync"} \cup Lifting,
           \/ Left' \subseteq Left /\ budget'["fw"] <= budget["fw"]
           \/ \E a \in IPs : Left' \subseteq Left \cup {a} /\ budget'["fw"] = budget["fw"] - 1
    PROVE  LeftCounted'
  <1>1. Left \subseteq IPs /\ IsFiniteSet(Left) /\ Cardinality(Left) \in Nat
    BY FS_Subset, FS_CardinalityType DEF Left, Missing
  <1>2. budget["fw"] \in Nat /\ budget'["fw"] \in Nat /\ Budget["fw"] \in Nat
    BY TimeAssumption DEF DataOK
  <1>3. Cardinality(Left) <= Budget["fw"] - budget["fw"]
    BY DEF LeftCounted, Spent
  <1>4. CASE Left' \subseteq Left /\ budget'["fw"] <= budget["fw"]
    <2>1. Cardinality(Left') <= Cardinality(Left) /\ Cardinality(Left') \in Nat
      BY <1>1, <1>4, FS_Subset, FS_CardinalityType
    <2> QED
      BY <1>1, <1>2, <1>3, <1>4, <2>1 DEF LeftCounted, Spent
  <1>5. ASSUME NEW a \in IPs, Left' \subseteq Left \cup {a}, budget'["fw"] = budget["fw"] - 1
        PROVE  LeftCounted'
    <2>0. /\ IsFiniteSet(Left \cup {a})
          /\ Cardinality(Left \cup {a}) = IF a \in Left THEN Cardinality(Left) ELSE Cardinality(Left) + 1
      BY <1>1, FS_AddElement
    <2>1. Cardinality(Left \cup {a}) <= Cardinality(Left) + 1 /\ Cardinality(Left \cup {a}) \in Nat
      BY <1>1, <2>0
    <2>2. Cardinality(Left') <= Cardinality(Left \cup {a}) /\ Cardinality(Left') \in Nat
      BY <1>5, <2>0, FS_Subset, FS_CardinalityType
    <2> QED
      BY <1>1, <1>2, <1>3, <1>5, <2>1, <2>2 DEF LeftCounted, Spent
  <1> QED
    BY <1>4, <1>5

\* What a connection does to the bans, to their rules and to the others.
LEMMA HandlerEffect ==
    ASSUME WhitelistInv, NEW h \in Handlers, HandlerStep(h)
    PROVE  /\ h \in Procs \ {Janitor}
           /\ \A q \in Procs \ {h} : proc'[q] = proc[q]
           /\ UNCHANGED <<now, whitelist, chain, work, round>>
           /\ \/ /\ proc[h].pc # "ban_fw" /\ UNCHANGED row /\ rules \subseteq rules'
              \/ /\ BanRow(h) /\ UNCHANGED rules
                 /\ proc[h].ip \in IPs /\ proc[h].ip \notin whitelist
                 /\ row' = [row EXCEPT ![proc[h].ip] = BanUntil(proc[h].dur)]
                 /\ proc'[h].pc = "ban_fw" /\ proc'[h].ip = proc[h].ip
              \/ /\ BanFw(h) /\ UNCHANGED row
  <1> USE DEF dbVars, cfgVars, janVars
  <1>0. h \in Procs \ {Janitor} /\ ProcOK
    BY ProcsAssumption DEF Procs, WhitelistInv
  <1>1. \A q \in Procs \ {h} : proc'[q] = proc[q]
    <2>1. ASSUME NEW r, proc' = [proc EXCEPT ![h] = r] PROVE \A q \in Procs \ {h} : proc'[q] = proc[q]
      BY <1>0, <2>1 DEF ProcOK
    <2>2. ASSUME NEW l, Goto(h, l) PROVE \A q \in Procs \ {h} : proc'[q] = proc[q]
      BY <1>0, <2>2, GotoMoves
    <2>3. ASSUME NEW b, Return(h, b) PROVE \A q \in Procs \ {h} : proc'[q] = proc[q]
      BY <1>0, <2>3, ReturnMoves
    <2>4. CASE \E ip \in IPs : Connect(h, ip)
      BY <2>1, <2>4 DEF Connect
    <2>5. CASE Check(h)
      <3>1. ASSUME NEW k, proc' = [proc EXCEPT ![h].pc = "score", ![h].kind = k]
            PROVE  \A q \in Procs \ {h} : proc'[q] = proc[q]
        BY <1>0, <3>1 DEF ProcOK
      <3> QED
        BY <2>1, <2>2, <2>5, <3>1 DEF Check
    <2>6. CASE Record(h) \/ Decide(h) \/ Credential(h)
      <3>1. ASSUME NEW n, proc' = [proc EXCEPT ![h].pc = "decide", ![h].score = n]
            PROVE  \A q \in Procs \ {h} : proc'[q] = proc[q]
        BY <1>0, <3>1 DEF ProcOK
      <3>2. ASSUME proc' = [proc EXCEPT ![h].pc = "isbanned", ![h].dur = settings.dur]
            PROVE  \A q \in Procs \ {h} : proc'[q] = proc[q]
        BY <1>0, <3>2 DEF ProcOK
      <3>3. ASSUME proc' = [proc EXCEPT ![h].pc = "score", ![h].kind = "credential"]
            PROVE  \A q \in Procs \ {h} : proc'[q] = proc[q]
        BY <1>0, <3>3 DEF ProcOK
      <3> QED
        BY <2>3, <2>6, <3>1, <3>2, <3>3 DEF Record, Decide, Credential
    <2>7. CASE IsBanned(h) \/ BanRow(h) \/ BanFw(h)
      BY <2>2, <2>3, <2>7 DEF IsBanned, BanRow, BanFw
    <2>8. CASE Reassert(h) \/ EndSession(h)
      BY <2>1, <2>8 DEF Reassert, EndSession
    <2> QED
      BY <2>4, <2>5, <2>6, <2>7, <2>8 DEF HandlerStep
  <1>2. CASE BanRow(h)
    <2>1. proc[h].ip \in IPs
      BY <1>0, <1>2, JobIP DEF BanRow
    <2> QED
      BY <1>0, <1>1, <1>2, <2>1, GotoMoves DEF BanRow, IsWhitelisted
  <1>3. CASE BanFw(h)
    BY <1>0, <1>1, <1>3 DEF BanFw
  <1>4. CASE Reassert(h)
    BY <1>0, <1>1, <1>4 DEF Reassert, FwBan
  <1> QED
    BY <1>0, <1>1, <1>2, <1>3, <1>4
       DEF HandlerStep, Connect, Check, Record, Decide, IsBanned, Credential, EndSession

\* What holds of a connection's step during the first sync.
LEMMA HandlerBoot ==
    ASSUME Method # "none", IsFiniteSet(IPs), WhitelistInv, WhitelistInv', BootInv,
           NEW h \in Handlers, HandlerStep(h), [Next]_vars
    PROVE  BootInv'
  <1>0. /\ h \in Procs \ {Janitor} /\ Janitor \in Procs /\ proc'[Janitor] = proc[Janitor]
        /\ \A q \in Procs \ {h} : proc'[q] = proc[q]
        /\ UNCHANGED <<now, whitelist, chain, work, round>>
        /\ \A o \in Operators : o \in Procs \ {h}
        /\ ProcOK /\ DataOK /\ DataOK' /\ row \in [IPs -> Rows]
    BY HandlerEffect, ProcsAssumption DEF Procs, WhitelistInv, DataOK
  <1>1. BudgetBound' /\ (Untouched' => Untouched) /\ budget'["fw"] <= budget["fw"]
    BY <1>0, UntouchedBefore DEF BootInv
  <1>2. BootAlone' /\ ChainsStand'
    BY <1>0, <1>1 DEF BootInv, BootAlone, ChainsStand
  <1>3. ASSUME NEW ip \in IPs, Active(ip)'
        PROVE  Active(ip) \/ (proc'[h].pc = "ban_fw" /\ proc'[h].ip = ip /\ ip \notin whitelist)
    BY <1>0, <1>3, HandlerEffect DEF Active
  <1>4. LiftedRow'
    <2> SUFFICES ASSUME round = "boot", proc[Janitor].pc \in {"unban_score", "unban_fw"},
                        Active(proc[Janitor].ip)'
                 PROVE  FALSE
      BY <1>0 DEF LiftedRow
    <2>1. PICK ip \in IPs : ip = proc[Janitor].ip
      BY <1>0, JobIP
    <2>2. Active(ip)' /\ ip \in whitelist
      BY <1>0, <2>1 DEF Active, WhitelistInv, JanitorUnbansWhitelisted
    <2> QED
      BY <1>3, <2>1, <2>2 DEF BootInv, LiftedRow
  <1>5. LeftCounted'
    <2> SUFFICES ASSUME round = "boot", Untouched, proc[Janitor].pc \in {"sync"} \cup Lifting
                 PROVE  LeftCounted'
      BY <1>0, <1>1 DEF LeftCounted
    <2>1. ASSUME rules \subseteq rules', proc[h].pc # "ban_fw"
          PROVE  Left' \subseteq Left
      <3> SUFFICES ASSUME NEW ip \in Left' PROVE ip \in Left
        OBVIOUS
      <3>1. /\ ip \in IPs /\ HasFamily(ip) /\ Active(ip)' /\ ip \notin rules' /\ ip \notin work
            /\ ~\E p \in Procs : proc'[p].ip = ip /\ proc'[p].pc = "ban_fw"
            /\ ~(proc[Janitor].pc \in Lifting /\ proc[Janitor].ip = ip)
        BY <1>0 DEF Left, Missing, HasFamily, Active
      <3>2. Active(ip) /\ ip \notin rules
        BY <1>0, <1>3, <2>1, <3>1
      <3>3. ~\E p \in Procs : proc[p].ip = ip /\ proc[p].pc = "ban_fw"
        BY <1>0, <2>1, <3>1
      <3> QED
        BY <3>1, <3>2, <3>3 DEF Left, Missing
    <2>2. ASSUME BanFw(h), UNCHANGED row
          PROVE  \/ Left' \subseteq Left
                 \/ \E a \in IPs : Left' \subseteq Left \cup {a} /\ budget'["fw"] = budget["fw"] - 1
      <3> DEFINE a == proc[h].ip
      <3>1. a \in IPs /\ \E ok \in BOOLEAN : FwBan(a, ok)
        BY <1>0, <2>2, JobIP DEF BanFw
      <3>2. rules \subseteq rules'
        BY <3>1 DEF FwBan
      <3>3. ASSUME NEW ip \in Left', ip # a
            PROVE  ip \in Left
        <4>1. /\ ip \in IPs /\ HasFamily(ip) /\ Active(ip) /\ ip \notin rules' /\ ip \notin work
              /\ ~\E p \in Procs : proc'[p].ip = ip /\ proc'[p].pc = "ban_fw"
              /\ ~(proc[Janitor].pc \in Lifting /\ proc[Janitor].ip = ip)
          BY <1>0, <2>2 DEF Left, Missing, HasFamily, Active
        <4>2. ~\E p \in Procs : proc[p].ip = ip /\ proc[p].pc = "ban_fw"
          BY <1>0, <3>3, <4>1
        <4> QED
          BY <3>2, <4>1, <4>2 DEF Left, Missing
      <3>4. CASE a \in rules'
        <4>1. a \notin Left'
          BY <3>4 DEF Left, Missing
        <4> QED
          BY <3>3, <4>1
      <3>5. CASE ~HasFamily(a)
        <4>1. a \notin Left'
          BY <3>5 DEF Left, Missing, HasFamily
        <4> QED
          BY <3>3, <4>1
      <3>6. CASE Upset("fw")
        <4>1. budget'["fw"] = budget["fw"] - 1
          BY <1>0, <3>6 DEF DataOK
        <4> QED
          BY <3>1, <3>3, <4>1
      <3>7. HasFamily(a) => CanBan(a)
        BY <3>1, WorldAssumption DEF HasFamily, CanBan, BootInv, ChainsStand
      <3> QED
        BY <3>1, <3>4, <3>5, <3>6, <3>7 DEF FwBan
    <2>3. \/ Left' \subseteq Left
          \/ \E a \in IPs : Left' \subseteq Left \cup {a} /\ budget'["fw"] = budget["fw"] - 1
      <3>1. CASE BanFw(h) /\ UNCHANGED row
        BY <2>2, <3>1
      <3>2. CASE rules \subseteq rules' /\ proc[h].pc # "ban_fw"
        BY <2>1, <3>2
      <3>3. CASE BanRow(h) /\ UNCHANGED rules
        BY <2>1, <3>3 DEF BanRow
      <3> QED
        BY <3>1, <3>2, <3>3, HandlerEffect
    <2> QED
      BY <1>0, <1>1, <2>3, CountKept DEF BootInv
  <1> QED
    BY <1>1, <1>2, <1>4, <1>5 DEF BootInv

\* After the first sync only the chains matter.
LEMMA BootOver ==
    ASSUME BudgetBound', ChainsStand', round' # "boot"
    PROVE  BootInv'
  BY DEF BootInv, BootAlone, LiftedRow, LeftCounted

LEMMA OperatorBoot ==
    ASSUME WhitelistInv, BootInv, NEW o \in Operators, OperatorStep(o), [Next]_vars
    PROVE  BootInv'
  <1>1. BudgetBound' /\ (Untouched' => Untouched) /\ UNCHANGED <<chain, round>>
    <2>1. UNCHANGED <<chain, round>>
      BY DEF OperatorStep, OperatorBan, OperatorUnban, SetAutoBan, BanRow, BanFw, UnbanRow,
         UnbanScore, UnbanFw, janVars
    <2> QED
      BY <2>1, UntouchedBefore DEF BootInv, WhitelistInv
  <1>2. round # "boot"
    BY DEF OperatorStep, OperatorBan, OperatorUnban, SetAutoBan, BanRow, BanFw, UnbanRow,
       UnbanScore, UnbanFw, BootInv, BootAlone
  <1> QED
    BY <1>1, <1>2, BootOver DEF BootInv, ChainsStand

\* A step of the first sync that keeps the rows and the other goroutines.
LEMMA LeftKept ==
    ASSUME DataOK, ProcOK', UNCHANGED now,
           \A ip \in IPs : Active(ip)' => Active(ip),
           \A q \in Procs \ {Janitor} : proc'[q] = proc[q],
           proc[Janitor].pc # "ban_fw",
           NEW a, \A ip \in IPs : Active(ip)' /\ ip \in rules => ip \in rules' \/ ip = a,
           \A ip \in IPs : ip \in work => ip \in work' \/ ip = a,
           proc[Janitor].pc \in Lifting => \/ proc'[Janitor].pc \in Lifting /\ proc'[Janitor].ip = proc[Janitor].ip
                                           \/ ~Active(proc[Janitor].ip) \/ proc[Janitor].ip = a
    PROVE  Left' \subseteq Left \cup {a}
  <1> SUFFICES ASSUME NEW ip \in Left', ip # a PROVE ip \in Left
    OBVIOUS
  <1>1. /\ ip \in IPs /\ HasFamily(ip) /\ Active(ip)' /\ ip \notin rules' /\ ip \notin work'
        /\ ~\E p \in Procs : proc'[p].ip = ip /\ proc'[p].pc = "ban_fw"
        /\ ~(proc'[Janitor].pc \in Lifting /\ proc'[Janitor].ip = ip)
    BY DEF Left, Missing, HasFamily, Active
  <1>2. Active(ip) /\ ip \notin rules /\ ip \notin work
    BY <1>1
  <1>3. ~\E p \in Procs : proc[p].ip = ip /\ proc[p].pc = "ban_fw"
    BY <1>1
  <1>4. ~(proc[Janitor].pc \in Lifting /\ proc[Janitor].ip = ip)
    BY <1>1, <1>2
  <1> QED
    BY <1>1, <1>2, <1>3, <1>4 DEF Left, Missing

LEMMA JanitorBoot ==
    ASSUME Method # "none", IsFiniteSet(IPs), WhitelistInv, WhitelistInv', BootInv, JanitorStep, [Next]_vars
    PROVE  BootInv'
  <1> USE DEF dbVars, janVars
  <1>0. /\ Janitor \in Procs /\ proc[Janitor] \in ProcState
        /\ ProcOK /\ ProcOK' /\ DataOK /\ DataOK' /\ row \in [IPs -> Rows] /\ chain \in Chains
        /\ work \subseteq IPs
    BY DEF Procs, ProcOK, WhitelistInv, DataOK
  <1>1. BudgetBound' /\ (Untouched' => Untouched) /\ budget'["fw"] <= budget["fw"]
    BY <1>0, UntouchedBefore DEF BootInv
  <1>2. ChainsStand'
    <2>1. \A f \in {"v4", "v6"} : chain'[f] = "gone" => chain[f] = "gone"
      <3>1. CASE EnsureHooks
        BY <1>0, <3>1 DEF EnsureHooks
      <3>2. CASE UNCHANGED chain
        BY <3>2
      <3> QED
        BY <3>1, <3>2 DEF JanitorStep, SyncList, SyncDone, ReleaseList, LiftDone, MinuteTicker,
           DeleteExpired, ResetScore, SyncUnban, SyncBan, LiftRule, UnbanRow, UnbanScore, UnbanFw
    <2> QED
      BY <1>1, <2>1 DEF BootInv, ChainsStand
  <1>3. CASE round # "boot"
    <2>1. round' # "boot"
      BY <1>3 DEF JanitorStep, SyncList, SyncDone, ReleaseList, LiftDone, MinuteTicker, EnsureHooks,
         DeleteExpired, ResetScore, SyncUnban, SyncBan, LiftRule, UnbanRow, UnbanScore, UnbanFw
    <2> QED
      BY <1>1, <1>2, <2>1, BootOver
  <1>4. CASE round = "boot"
    <2>0. /\ proc[Janitor].pc \in {"synclist", "sync"} \cup Lifting
          /\ \A o \in Operators : proc[o].pc = "idle" /\ o \in Procs \ {Janitor}
      BY <1>4, ProcsAssumption DEF BootInv, BootAlone, Procs
    <2>a. ASSUME proc'[Janitor].pc \in {"sync"} \cup Lifting,
                 \A q \in Procs \ {Janitor} : proc'[q] = proc[q],
                 proc'[Janitor].pc \in {"unban_score", "unban_fw"} => ~Active(proc[Janitor].ip)',
                 Untouched' => LeftCounted'
          PROVE  BootInv'
      BY <1>1, <1>2, <2>0, <2>a DEF BootInv, BootAlone, LiftedRow, LeftCounted
    <2>1. CASE SyncList
      <3>1. /\ Goto(Janitor, "sync") /\ UNCHANGED <<now, row, rules>>
            /\ work' = {ip \in IPs : Active(ip)} \/ DbErr
        BY <2>1 DEF SyncList
      <3>2. (\A q \in Procs \ {Janitor} : proc'[q] = proc[q]) /\ proc'[Janitor].pc = "sync"
        BY <1>0, <3>1, GotoMoves
      <3>3. ASSUME Untouched' PROVE LeftCounted'
        <4>1. ~DbErr
          BY <1>0, <1>1, <3>3, TimeAssumption DEF Untouched, DataOK
        <4>2. Left' = {}
          BY <3>1, <4>1 DEF Left, Missing, Active
        <4>3. budget'["fw"] \in Nat /\ Budget["fw"] \in Nat /\ budget'["fw"] <= Budget["fw"]
          BY <1>0, <1>1, TimeAssumption DEF DataOK, BudgetBound
        <4> QED
          BY <4>2, <4>3, FS_EmptySet DEF LeftCounted, Spent
      <3> QED
        BY <2>a, <3>2, <3>3
    <2>2. ASSUME NEW ip \in IPs, SyncUnban(ip)
          PROVE  BootInv'
      <3> DEFINE r == [proc[Janitor] EXCEPT !.pc = "unban_row", !.ip = ip]
      <3>1. /\ proc' = [proc EXCEPT ![Janitor] = r] /\ r.pc = "unban_row" /\ r.ip = ip
            /\ UNCHANGED <<now, row, rules, budget>> /\ work' = work \ {ip}
            /\ proc[Janitor].pc = "sync" /\ UNCHANGED round
        BY <1>0, <2>2 DEF SyncUnban, ProcOK
      <3> HIDE DEF r
      <3>2. (\A q \in Procs \ {Janitor} : proc'[q] = proc[q]) /\ proc'[Janitor].pc = "unban_row"
            /\ proc'[Janitor].ip = ip
        BY <1>0, <3>1 DEF ProcOK
      <3>3. Left' \subseteq Left \cup {ip}
        BY <1>0, <3>1, <3>2, LeftKept DEF Active, Lifting
      <3>4. ip \notin Left'
        BY <3>2 DEF Left, Lifting
      <3>5. Untouched' => LeftCounted'
        BY <1>0, <1>1, <1>4, <2>0, <3>1, <3>3, <3>4, CountKept DEF BootInv, Lifting
      <3> QED
        BY <2>a, <3>2, <3>5 DEF Lifting
    <2>3. ASSUME NEW ip \in IPs, SyncBan(ip)
          PROVE  BootInv'
      <3>1. /\ proc[Janitor].pc = "sync" /\ UNCHANGED <<now, row, proc, chain>> /\ work' = work \ {ip}
            /\ \E ok \in BOOLEAN : FwBan(ip, ok)
        BY <2>3 DEF SyncBan, AfterSyncError
      <3>2. rules \subseteq rules'
        BY <3>1 DEF FwBan
      <3>3. Left' \subseteq Left \cup {ip}
        BY <1>0, <3>1, <3>2, LeftKept DEF Active, Lifting
      <3>4. ASSUME Untouched PROVE ip \notin Left' \/ budget'["fw"] = budget["fw"] - 1
        <4>1. HasFamily(ip) => CanBan(ip)
          BY <3>4, WorldAssumption DEF HasFamily, CanBan, BootInv, ChainsStand
        <4>2. CASE Upset("fw")
          BY <1>0, <4>2 DEF DataOK
        <4>3. CASE ip \in rules' \/ ~HasFamily(ip)
          BY <4>3 DEF Left, Missing, HasFamily
        <4> QED
          BY <3>1, <4>1, <4>2, <4>3 DEF FwBan
      <3>5. Untouched' => LeftCounted'
        BY <1>0, <1>1, <1>4, <3>1, <3>3, <3>4, CountKept DEF BootInv, Lifting
      <3> QED
        BY <2>a, <3>1, <3>5
    <2>4. CASE SyncDone
      <3>1. round' # "boot"
        BY <1>4, <2>4 DEF SyncDone
      <3> QED
        BY <1>1, <1>2, <3>1, BootOver
    <2>5. CASE UnbanRow(Janitor) \/ UnbanScore(Janitor) \/ UnbanFw(Janitor)
      <3> DEFINE a == proc[Janitor].ip
      <3>0. /\ UNCHANGED <<now, work>> /\ proc[Janitor].pc \in Lifting /\ a \in IPs
            /\ \A ip \in rules : ip \in rules' \/ ip = a
        BY <1>0, <2>5, JobIP DEF UnbanRow, UnbanScore, UnbanFw, Lifting, FwUnban
      <3>1. \A ip \in IPs : (Active(ip)' => Active(ip))
        <4>1. UNCHANGED row \/ row' = [row EXCEPT ![a] = NoRow]
          BY <2>5 DEF UnbanRow, UnbanScore, UnbanFw
        <4>2. NoRow.kind = "none"
          BY DEF NoRow
        <4> QED
          BY <1>0, <3>0, <4>1, <4>2 DEF Active
      <3>2. a \notin Left' => (Untouched' => LeftCounted') \/ ~(\A q \in Procs \ {Janitor} : proc'[q] = proc[q])
        <4> SUFFICES ASSUME a \notin Left', Untouched', \A q \in Procs \ {Janitor} : proc'[q] = proc[q]
                     PROVE  LeftCounted'
          OBVIOUS
        <4>1. Left' \subseteq Left \cup {a}
          BY <1>0, <2>0, <3>0, <3>1, LeftKept DEF Lifting
        <4> QED
          BY <1>0, <1>1, <1>4, <3>0, <4>1, CountKept DEF BootInv
      <3>3. CASE UnbanRow(Janitor)
        <4>1. CASE row' = [row EXCEPT ![a] = NoRow] /\ Goto(Janitor, "unban_score")
          <5>1. (\A q \in Procs \ {Janitor} : proc'[q] = proc[q]) /\ proc'[Janitor].pc = "unban_score"
                /\ proc'[Janitor].ip = a
            BY <1>0, <4>1, GotoMoves
          <5>2. \A ip \in IPs : ip = a => ~Active(ip)'
            BY <1>0, <4>1 DEF Active, NoRow
          <5>3. a \notin Left'
            BY <5>1 DEF Left, Lifting
          <5>4. ~Active(proc[Janitor].ip)'
            BY <3>0, <5>1, <5>2 DEF Active
          <5> QED
            BY <2>a, <3>2, <5>1, <5>3, <5>4 DEF Lifting, LiftedRow, BootInv, BootAlone
        <4>2. CASE DbErr /\ UNCHANGED row /\ Return(Janitor, FALSE)
          <5>1. (\A q \in Procs \ {Janitor} : proc'[q] = proc[q]) /\ proc'[Janitor].pc = "sync"
            BY <1>0, <4>2, ReturnMoves
          <5>2. ~Untouched'
            BY <1>0, <1>1, <4>2, TimeAssumption DEF Untouched, DataOK
          <5> QED
            BY <2>a, <5>1, <5>2
        <4> QED
          BY <3>3, <4>1, <4>2 DEF UnbanRow
      <3>4. CASE UnbanScore(Janitor)
        <4>1. Goto(Janitor, "unban_fw") /\ UNCHANGED <<row, now>> /\ ~Active(a)
          BY <1>4, <3>4 DEF UnbanScore, BootInv, LiftedRow
        <4>2. (\A q \in Procs \ {Janitor} : proc'[q] = proc[q]) /\ proc'[Janitor].pc = "unban_fw"
              /\ proc'[Janitor].ip = a
          BY <1>0, <4>1, GotoMoves
        <4>3. a \notin Left' /\ ~Active(proc[Janitor].ip)'
          BY <4>1, <4>2 DEF Left, Lifting, Active
        <4> QED
          BY <2>a, <3>2, <4>2, <4>3 DEF Lifting
      <3>5. CASE UnbanFw(Janitor)
        <4>1. Return(Janitor, FALSE) /\ UNCHANGED <<row, now>> /\ ~Active(a)
          BY <1>4, <3>5 DEF UnbanFw, BootInv, LiftedRow
        <4>2. (\A q \in Procs \ {Janitor} : proc'[q] = proc[q]) /\ proc'[Janitor].pc = "sync"
          BY <1>0, <4>1, ReturnMoves
        <4>3. a \notin Left'
          BY <4>1 DEF Left, Missing, Active
        <4> QED
          BY <2>a, <3>2, <4>2, <4>3
      <3> QED
        BY <2>5, <3>3, <3>4, <3>5
    <2> QED
      BY <2>0, <2>1, <2>2, <2>3, <2>4, <2>5 DEF JanitorStep, ReleaseList, LiftDone, MinuteTicker,
         EnsureHooks, DeleteExpired, ResetScore, LiftRule, Lifting
  <1> QED
    BY <1>3, <1>4

LEMMA WorldBoot ==
    ASSUME Method # "none", IsFiniteSet(IPs), WhitelistInv, WhitelistInv', BootInv, World, [Next]_vars
    PROVE  BootInv'
  <1> USE DEF dbVars, janVars
  <1>0. Janitor \in Procs /\ ProcOK /\ ProcOK' /\ DataOK /\ DataOK' /\ now \in Nat
    BY TimeAssumption DEF Procs, WhitelistInv, DataOK
  <1>1. BudgetBound' /\ (Untouched' => Untouched) /\ budget'["fw"] <= budget["fw"]
    BY <1>0, UntouchedBefore DEF BootInv
  <1>2. CASE Tick
    <2>1. UNCHANGED <<row, rules, proc, work, round, chain, budget>> /\ now' = now + 1
      BY <1>2 DEF Tick
    <2>2. \A a : Active(a)' /\ a \in IPs => Active(a)
      BY <1>0, <2>1 DEF Active, DataOK
    <2>3. BootAlone' /\ ChainsStand'
      BY <2>1 DEF BootInv, BootAlone, ChainsStand, Untouched
    <2>4. LiftedRow'
      <3>1. proc[Janitor].pc \in {"unban_score", "unban_fw"} => proc[Janitor].ip \in IPs
        BY <1>0, JobIP
      <3> QED
        BY <1>0, <2>1, <3>1 DEF BootInv, LiftedRow, Active, DataOK
    <2>5. Left' \subseteq Left
      BY <2>1, <2>2 DEF Left, Missing, HasFamily
    <2>6. LeftCounted'
      BY <1>0, <1>1, <2>1, <2>5, CountKept DEF BootInv, LeftCounted
    <2> QED
      BY <1>1, <2>3, <2>4, <2>6 DEF BootInv
  <1>3. ASSUME NEW f \in Families, Flush(f)
        PROVE  BootInv'
    <2>1. UNCHANGED <<now, row, proc, work, round>> /\ (Upset("flush") \/ Upset("wipe"))
      BY <1>3 DEF Flush
    <2>2. ~Untouched'
      BY <1>0, <2>1, TimeAssumption DEF BootInv, BudgetBound, Untouched, DataOK
    <2> QED
      BY <1>1, <2>1, <2>2 DEF BootInv, BootAlone, ChainsStand, LiftedRow, LeftCounted, Active
  <1>4. ASSUME NEW w \in Whitelists, NEW reboot \in BOOLEAN, Restart(w, reboot)
        PROVE  BootInv'
    <2>1. proc' = Fresh /\ chain' = HookedChains
      BY <1>4 DEF Restart
    <2>2. proc'[Janitor].pc = "synclist" /\ \A o \in Operators : proc'[o].pc = "idle"
      BY <1>0, <2>1, ProcsAssumption DEF Fresh, Procs
    <2> QED
      BY <1>1, <2>1, <2>2 DEF BootInv, BootAlone, ChainsStand, LiftedRow, LeftCounted, Lifting, HookedChains
  <1> QED
    BY <1>2, <1>3, <1>4 DEF World

\* When the first sync ends and nothing but calls of the firewall failed, the
\* bans in force that the kernel does not know are at most as many as those
\* calls, for any number of bans, connections and restarts: a ban that cannot be
\* put in force again never keeps another one out.
THEOREM FirstSyncRestores ==
    ASSUME Method # "none", IsFiniteSet(IPs)
    PROVE  Spec => []BootRestoresBans
  <1>1. Init => BootInv
    <2> SUFFICES ASSUME Init PROVE BootInv
      OBVIOUS
    <2>1. proc[Janitor].pc = "synclist" /\ \A o \in Operators : proc[o].pc = "idle"
      BY ProcsAssumption DEF Init, Fresh, Procs
    <2> QED
      BY <2>1, TimeAssumption DEF Init, BootInv, BudgetBound, BootAlone, ChainsStand, LiftedRow,
         LeftCounted, Lifting, HookedChains
  <1>2. WhitelistInv /\ BootInv /\ [Next]_vars => (WhitelistInv /\ BootInv)'
    <2> SUFFICES ASSUME WhitelistInv, BootInv, [Next]_vars PROVE BootInv'
      BY WhitelistInvNext
    <2>1. CASE UNCHANGED vars
      BY <2>1 DEF vars, dbVars, janVars, BootInv, BudgetBound, BootAlone, ChainsStand, LiftedRow,
         LeftCounted, Left, Missing, Spent, Untouched, Active, HasFamily
    <2>2. CASE Next
      BY <2>2, WhitelistInvNext, HandlerBoot, OperatorBoot, JanitorBoot, WorldBoot DEF Next
    <2> QED
      BY <2>1, <2>2
  <1>3. BootInv => BootRestoresBans
    <2> SUFFICES ASSUME BootInv, round = "boot", proc[Janitor].pc = "sync", work = {}, Untouched
                 PROVE  Cardinality(Missing) <= Spent
      BY DEF BootRestoresBans, Untouched, Spent
    <2>1. Left = Missing
      BY DEF Left, Lifting, Missing
    <2> QED
      BY <2>1 DEF BootInv, LeftCounted
  <1> QED
    BY <1>1, <1>2, <1>3, WhitelistInvInit, PTL DEF Spec

=============================================================================
