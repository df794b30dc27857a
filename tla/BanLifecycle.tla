---------------------------- MODULE BanLifecycle ----------------------------
(***************************************************************************)
(* The life of a ban in SkyGuard's daemon: connection handlers that score  *)
(* and auto-ban, operators at the dashboard, and the one maintenance       *)
(* goroutine (start-up sync, release of expired bans, repair of the kernel *)
(* chain), all working on two copies of the same fact, the banned_ips      *)
(* table and the kernel's DROP rules, with no lock around the pair.        *)
(*                                                                         *)
(* One SQLite statement and one Firewall call (serialised by its mutex)    *)
(* are atomic; everything between two of them can interleave.              *)
(***************************************************************************)
EXTENDS Naturals, FiniteSets

CONSTANTS
    IPs,          \* the addresses that connect or get banned
    FamilyOf,     \* IPs -> {"v4", "v6"}
    Families,     \* the address families whose iptables binary works
    Method,       \* auto_ban.method: "iptables", "ufw" or "none"
    Handlers,     \* concurrent connections
    Operators,    \* concurrent dashboard / MCP requests
    OperatorOps,  \* what they do: subset of {"ban", "unban", "settings"}
    Janitor,      \* the goroutine of Start and then maintenanceLoop
    Durations,    \* ban durations an operator asks for, 0 = permanent
    SettingsSet,  \* auto-ban settings an operator can store
    Points,       \* score per kind of event
    MaxScore,     \* scores saturate here, above every threshold
    Whitelists,   \* whitelist.ips of the successive config files
    InitialRows,  \* what an earlier life of the process may have left
    MaxTime,      \* bound on the clock
    Budget,       \* bound on each kind of upset: failing calls, crashes, flushes
    Prompt,       \* the clock does not tick between a ban's row and its rule
    NoIP          \* "no address"

Procs  == Handlers \cup Operators \cup {Janitor}
Kinds  == {"drop", "honeypot", "credential"}
Upsets == {"db", "fw", "crash", "flush", "wipe"}

MaxDuration == CHOOSE d \in Durations \cup {s.dur : s \in SettingsSet} :
                 \A e \in Durations \cup {s.dur : s \in SettingsSet} : e <= d

NoRow == [kind |-> "none", until |-> 0]
Forever == [kind |-> "perm", until |-> 0]
TempRow(t) == [kind |-> "temp", until |-> t]
Rows == [kind : {"none", "perm", "temp"}, until : Nat]

PCs == {"idle", "check", "reassert", "score", "decide", "isbanned", "session",
        "ban_row", "ban_fw", "unban_row", "unban_score", "unban_fw",
        "synclist", "sync", "release", "lift", "delete", "reset", "hooks", "wait"}

\* The maintenance goroutine is neither a connection nor a request.
ASSUME ProcsAssumption ==
    /\ Janitor \notin Handlers \cup Operators
    /\ Handlers \cap Operators = {}
    /\ NoIP \notin IPs
ASSUME TimeAssumption ==
    /\ MaxTime \in Nat /\ MaxScore \in Nat
    /\ Durations \subseteq Nat
    /\ SettingsSet \subseteq [enabled : BOOLEAN, threshold : Nat \ {0}, dur : Nat]
    /\ SettingsSet # {}
    /\ Points \in [Kinds -> Nat]
    /\ Budget \in [Upsets -> Nat]
ASSUME WorldAssumption ==
    /\ \A ip \in IPs : FamilyOf[ip] \in {"v4", "v6"}
    /\ Families \subseteq {"v4", "v6"}
    /\ Method \in {"iptables", "ufw", "none"}
    /\ OperatorOps \subseteq {"ban", "unban", "settings"}
    /\ Whitelists \subseteq SUBSET IPs /\ Whitelists # {}
    /\ InitialRows \subseteq Rows
    /\ Prompt \in BOOLEAN

VARIABLES
    now,        \* time.Now(), in ticks
    row,        \* banned_ips: one row per address
    score,      \* ip_scores.score
    settings,   \* Settings.autoBan
    whitelist,  \* whitelist.ips of this life of the process
    rules,      \* the addresses with a DROP rule in the kernel
    chain,      \* the SKYGUARD chain per family: "hooked", "loose", "gone"
    proc,       \* what each goroutine is doing, with its local variables
    work,       \* the maintenance goroutine's list
    round,      \* "boot", "first" or "minute" pass of the maintenance goroutine
    budget      \* upsets left

dbVars  == <<row, score>>
cfgVars == <<settings, whitelist>>
janVars == <<work, round>>
vars == <<now, dbVars, cfgVars, rules, chain, proc, janVars, budget>>

-----------------------------------------------------------------------------
(* The banned_ips table, as its queries read it                            *)

Active(ip)  == \/ row[ip].kind = "perm"
               \/ row[ip].kind = "temp" /\ row[ip].until > now
Expired(ip) == row[ip].kind = "temp" /\ row[ip].until <= now

\* A zero duration is stored as permanent.
BanUntil(dur) == IF dur = 0 THEN Forever ELSE TempRow(now + dur)

\* Mutant: the whitelist of the config file never reaches the server.
WhitelistNotLoaded(ip) == FALSE
IsWhitelisted(ip) == ip \in whitelist

(***************************************************************************)
(* Calls that may fail.  A database call either works or uses up one "db"  *)
(* upset.                                                                  *)
(***************************************************************************)
Upset(k) == budget[k] > 0 /\ budget' = [budget EXCEPT ![k] = @ - 1]
DbOk  == UNCHANGED budget
DbErr == Upset("db")

(***************************************************************************)
(* Firewall.Ban and Firewall.Unban.  Ban needs the chain (ensureChain is   *)
(* not called here); Unban finds no rule in a missing chain and succeeds.  *)
(* A failing Unban may have removed the rule first: it goes on to look for *)
(* old-style rules in INPUT.  An address whose family has no working       *)
(* iptables fails every call.                                              *)
(***************************************************************************)
HasFamily(ip) == Method = "none" \/ FamilyOf[ip] \in Families
CanBan(ip) == \/ Method \in {"none", "ufw"}
              \/ FamilyOf[ip] \in Families /\ chain[FamilyOf[ip]] # "gone"
CanUnban(ip) == Method = "ufw" \/ HasFamily(ip)

FwBan(ip, ok) ==
    \/ /\ ok /\ CanBan(ip)
       /\ rules' = IF Method = "none" THEN rules ELSE rules \cup {ip}
       /\ UNCHANGED budget
    \/ /\ ~ok /\ ~CanBan(ip)
       /\ UNCHANGED <<rules, budget>>
    \/ /\ ~ok /\ CanBan(ip) /\ Method # "none"
       /\ Upset("fw")
       /\ UNCHANGED rules

FwUnban(ip, ok) ==
    \/ /\ ok /\ CanUnban(ip)
       /\ rules' = rules \ {ip}
       /\ UNCHANGED budget
    \/ /\ ~ok /\ ~CanUnban(ip)
       /\ UNCHANGED <<rules, budget>>
    \/ /\ ~ok /\ CanUnban(ip) /\ Method # "none"
       /\ Upset("fw")
       /\ rules' \in {rules, rules \ {ip}}

\* The kernel drops the address's packets before SkyGuard sees them.
Blocked(ip) == ip \in rules /\ chain[FamilyOf[ip]] = "hooked"

-----------------------------------------------------------------------------
Idle == [pc |-> "idle", ip |-> NoIP, kind |-> "drop", score |-> 0, dur |-> 0]
ProcState == [pc : PCs, ip : IPs \cup {NoIP}, kind : Kinds, score : Nat, dur : Nat]

Goto(p, label) == proc' = [proc EXCEPT ![p].pc = label]

(***************************************************************************)
(* Where a goroutine goes when BanIP, UnbanIP or the auto-ban decision     *)
(* returns.  A honeypot connection that is not banned, and every           *)
(* credential, continues in the honeypot session.                          *)
(***************************************************************************)
ReturnToIdle(p, banned) ==    \* mutant: the sync loop does not go on
    IF p \in Handlers /\ (proc[p].kind = "credential" \/ (proc[p].kind = "honeypot" /\ ~banned))
    THEN Goto(p, "session")
    ELSE proc' = [proc EXCEPT ![p] = Idle]

Return(p, banned) ==
    IF p = Janitor THEN Goto(p, "sync")
    ELSE IF p \in Handlers /\ (proc[p].kind = "credential" \/ (proc[p].kind = "honeypot" /\ ~banned))
    THEN Goto(p, "session")
    ELSE proc' = [proc EXCEPT ![p] = Idle]

-----------------------------------------------------------------------------
(* Connections: handleConnection, recordAndMaybeBan, maybeAutoBan          *)

\* Mutant: a whitelisted address goes through the checks like any other.
ConnectUnchecked(h, ip) ==
    /\ proc[h].pc = "idle" /\ ~Blocked(ip)
    /\ proc' = [proc EXCEPT ![h] = [Idle EXCEPT !.ip = ip, !.pc = "check"]]
    /\ UNCHANGED <<now, dbVars, cfgVars, rules, chain, janVars, budget>>

\* A connection arrives; whitelisted addresses skip every check.
Connect(h, ip) ==
    /\ proc[h].pc = "idle" /\ ~Blocked(ip)
    /\ proc' = [proc EXCEPT ![h] = [Idle EXCEPT !.ip = ip,
                  !.pc = IF IsWhitelisted(ip) THEN "session" ELSE "check"]]
    /\ UNCHANGED <<now, dbVars, cfgVars, rules, chain, janVars, budget>>

\* IsBanned, where an error counts as "not banned"; the deny lists, the rate
\* limiter and the scan detector then say whether the connection is scored.  A
\* whitelisted country goes to the honeypot unscored.
Check(h) ==
    /\ proc[h].pc = "check"
    /\ \/ Active(proc[h].ip) /\ DbOk /\ Goto(h, "reassert")
       \/ /\ (~Active(proc[h].ip) /\ DbOk) \/ DbErr
          /\ \/ proc' = [proc EXCEPT ![h] = Idle]
             \/ Goto(h, "session")
             \/ \E k \in {"drop", "honeypot"} :
                  proc' = [proc EXCEPT ![h].pc = "score", ![h].kind = k]
    /\ UNCHANGED <<now, dbVars, cfgVars, rules, chain, janVars>>

\* A packet of a banned address got through: put its rule back, drop.
Reassert(h) ==
    /\ proc[h].pc = "reassert"
    /\ \E ok \in BOOLEAN : FwBan(proc[h].ip, ok)
    /\ proc' = [proc EXCEPT ![h] = Idle]
    /\ UNCHANGED <<now, dbVars, cfgVars, chain, janVars>>

\* RecordScore adds the points and returns the sum in one statement.
Record(h) ==
    /\ proc[h].pc = "score"
    /\ \/ LET sum == score[proc[h].ip] + Points[proc[h].kind]
              new == IF sum > MaxScore THEN MaxScore ELSE sum
          IN  /\ DbOk
              /\ score' = [score EXCEPT ![proc[h].ip] = new]
              /\ proc' = [proc EXCEPT ![h].pc = "decide", ![h].score = new]
       \/ DbErr /\ Return(h, FALSE) /\ UNCHANGED score
    /\ UNCHANGED <<now, row, cfgVars, rules, chain, janVars>>

\* The settings are read once: a later change does not reach this decision.
Decide(h) ==
    /\ proc[h].pc = "decide"
    /\ IF settings.enabled /\ proc[h].score >= settings.threshold /\ ~IsWhitelisted(proc[h].ip)
       THEN proc' = [proc EXCEPT ![h].pc = "isbanned", ![h].dur = settings.dur]
       ELSE Return(h, FALSE)
    /\ UNCHANGED <<now, dbVars, cfgVars, rules, chain, janVars, budget>>

\* Somebody else may have banned it meanwhile; an error is ignored.
IsBanned(h) ==
    /\ proc[h].pc = "isbanned"
    /\ \/ Active(proc[h].ip) /\ DbOk /\ Return(h, TRUE)
       \/ ((~Active(proc[h].ip) /\ DbOk) \/ DbErr) /\ Goto(h, "ban_row")
    /\ UNCHANGED <<now, dbVars, cfgVars, rules, chain, janVars>>

\* A login tried in the honeypot: the credential hook, or the session ends.
Credential(h) ==
    /\ proc[h].pc = "session" /\ ~IsWhitelisted(proc[h].ip)
    /\ proc' = [proc EXCEPT ![h].pc = "score", ![h].kind = "credential"]
    /\ UNCHANGED <<now, dbVars, cfgVars, rules, chain, janVars, budget>>

EndSession(h) ==
    /\ proc[h].pc = "session"
    /\ proc' = [proc EXCEPT ![h] = Idle]
    /\ UNCHANGED <<now, dbVars, cfgVars, rules, chain, janVars, budget>>

-----------------------------------------------------------------------------
(* BanIP and UnbanIP, called by handlers, operators and the janitor        *)

BanRow(p) ==
    /\ proc[p].pc = "ban_row"
    /\ \/ /\ ~IsWhitelisted(proc[p].ip) /\ DbOk
          /\ row' = [row EXCEPT ![proc[p].ip] = BanUntil(proc[p].dur)]
          /\ Goto(p, "ban_fw")
       \/ /\ (IsWhitelisted(proc[p].ip) /\ DbOk) \/ DbErr
          /\ Return(p, FALSE) /\ UNCHANGED row
    /\ UNCHANGED <<now, score, cfgVars, rules, chain, janVars>>

\* A firewall error is returned after the ban is stored.
BanFw(p) ==
    /\ proc[p].pc = "ban_fw"
    /\ \E ok \in BOOLEAN : FwBan(proc[p].ip, ok) /\ Return(p, ok)
    /\ UNCHANGED <<now, dbVars, cfgVars, chain, janVars>>

UnbanRow(p) ==
    /\ proc[p].pc = "unban_row"
    /\ \/ DbOk /\ row' = [row EXCEPT ![proc[p].ip] = NoRow] /\ Goto(p, "unban_score")
       \/ DbErr /\ UNCHANGED row /\ Return(p, FALSE)
    /\ UNCHANGED <<now, score, cfgVars, rules, chain, janVars>>

\* A failed reset is only logged.
UnbanScore(p) ==
    /\ proc[p].pc = "unban_score"
    /\ \/ DbOk /\ score' = [score EXCEPT ![proc[p].ip] = 0]
       \/ DbErr /\ UNCHANGED score
    /\ Goto(p, "unban_fw")
    /\ UNCHANGED <<now, row, cfgVars, rules, chain, janVars>>

UnbanFw(p) ==
    /\ proc[p].pc = "unban_fw"
    /\ \E ok \in BOOLEAN : FwUnban(proc[p].ip, ok)
    /\ Return(p, FALSE)
    /\ UNCHANGED <<now, dbVars, cfgVars, chain, janVars>>

-----------------------------------------------------------------------------
(* The dashboard: manualBan, manualUnban, SetAutoBan.  It starts after the *)
(* first sync.                                                             *)

OperatorBan(o, ip, d) ==
    /\ "ban" \in OperatorOps /\ round # "boot" /\ proc[o].pc = "idle"
    /\ ~IsWhitelisted(ip)
    /\ proc' = [proc EXCEPT ![o] = [Idle EXCEPT !.pc = "ban_row", !.ip = ip, !.dur = d]]
    /\ UNCHANGED <<now, dbVars, cfgVars, rules, chain, janVars, budget>>

OperatorUnban(o, ip) ==
    /\ "unban" \in OperatorOps /\ round # "boot" /\ proc[o].pc = "idle"
    /\ proc' = [proc EXCEPT ![o] = [Idle EXCEPT !.pc = "unban_row", !.ip = ip]]
    /\ UNCHANGED <<now, dbVars, cfgVars, rules, chain, janVars, budget>>

\* Stored first, then in force; an error leaves the old settings.
SetAutoBan(o, s) ==
    /\ "settings" \in OperatorOps /\ round # "boot" /\ proc[o].pc = "idle"
    /\ settings' = s
    /\ UNCHANGED <<now, dbVars, whitelist, rules, chain, proc, janVars, budget>>

-----------------------------------------------------------------------------
(* The maintenance goroutine                                               *)

\* syncBans reads the active bans; on an error it returns.
SyncList ==
    /\ proc[Janitor].pc = "synclist"
    /\ \/ DbOk /\ work' = {ip \in IPs : Active(ip)}
       \/ DbErr /\ work' = {}
    /\ Goto(Janitor, "sync")
    /\ UNCHANGED <<now, dbVars, cfgVars, rules, chain, round>>

\* ... unbans the whitelisted ones and bans the others again in the kernel; a
\* failure goes on with the next.
SyncUnban(ip) ==
    /\ proc[Janitor].pc = "sync" /\ ip \in work /\ IsWhitelisted(ip)
    /\ work' = work \ {ip}
    /\ proc' = [proc EXCEPT ![Janitor].pc = "unban_row", ![Janitor].ip = ip]
    /\ UNCHANGED <<now, dbVars, cfgVars, rules, chain, round, budget>>

SyncStopsAtError(ip) == {}    \* mutant: return instead of continue
AfterSyncError(ip) == work \ {ip}
SyncBan(ip) ==
    /\ proc[Janitor].pc = "sync" /\ ip \in work /\ ~IsWhitelisted(ip)
    /\ \/ FwBan(ip, TRUE) /\ work' = work \ {ip}
       \/ FwBan(ip, FALSE) /\ work' = AfterSyncError(ip)
    /\ UNCHANGED <<now, dbVars, cfgVars, chain, proc, round>>

SyncDone ==
    /\ proc[Janitor].pc = "sync" /\ work = {}
    /\ round' = IF round = "boot" THEN "first" ELSE round
    /\ Goto(Janitor, IF round = "boot" THEN "release" ELSE "wait")
    /\ UNCHANGED <<now, dbVars, cfgVars, rules, chain, work, budget>>

\* releaseExpiredBans reads the expired bans; on an error it returns.
ReleaseList ==
    /\ proc[Janitor].pc = "release"
    /\ \/ DbOk /\ work' = {ip \in IPs : Expired(ip)}
       \/ DbErr /\ work' = {}
    /\ Goto(Janitor, "lift")
    /\ UNCHANGED <<now, dbVars, cfgVars, rules, chain, round>>

\* The kernel rule goes first; if that fails the row stays for the next pass
\* and the loop goes on with the next address.
LiftStopsAtError(ip) == {}    \* mutant: return instead of continue
AfterLiftError(ip) == work \ {ip}
LiftRuleIgnoringError(ip) ==  \* mutant: the row goes whatever the firewall says
    /\ proc[Janitor].pc = "lift" /\ ip \in work
    /\ \E ok \in BOOLEAN : FwUnban(ip, ok)
    /\ work' = work \ {ip}
    /\ proc' = [proc EXCEPT ![Janitor].pc = "delete", ![Janitor].ip = ip]
    /\ UNCHANGED <<now, dbVars, cfgVars, chain, round>>

LiftRule(ip) ==
    /\ proc[Janitor].pc = "lift" /\ ip \in work
    /\ \/ /\ FwUnban(ip, TRUE)
          /\ work' = work \ {ip}
          /\ proc' = [proc EXCEPT ![Janitor].pc = "delete", ![Janitor].ip = ip]
       \/ FwUnban(ip, FALSE) /\ work' = AfterLiftError(ip) /\ UNCHANGED proc
    /\ UNCHANGED <<now, dbVars, cfgVars, chain, round>>

\* DeleteExpiredBan deletes only what is still expired and does not tell
\* whether it did: the score is reset in both cases.
DeleteUnconditionally(ip) == TRUE    \* mutant: the listed row goes, renewed or not
StillExpired(ip) == Expired(ip)
DeleteExpired ==
    LET ip == proc[Janitor].ip IN
    /\ proc[Janitor].pc = "delete"
    /\ \/ /\ DbOk /\ Goto(Janitor, "reset")
          /\ row' = IF StillExpired(ip) THEN [row EXCEPT ![ip] = NoRow] ELSE row
       \/ DbErr /\ Goto(Janitor, "lift") /\ UNCHANGED row
    /\ UNCHANGED <<now, score, cfgVars, rules, chain, janVars>>

ResetScore ==
    /\ proc[Janitor].pc = "reset"
    /\ \/ DbOk /\ score' = [score EXCEPT ![proc[Janitor].ip] = 0]
       \/ DbErr /\ UNCHANGED score
    /\ Goto(Janitor, "lift")
    /\ UNCHANGED <<now, row, cfgVars, rules, chain, janVars>>

\* The pass at start-up ends here; the one of every minute checks the chain.
LiftDone ==
    /\ proc[Janitor].pc = "lift" /\ work = {}
    /\ round' = "minute"
    /\ Goto(Janitor, IF round = "minute" /\ Method = "iptables" THEN "hooks" ELSE "wait")
    /\ UNCHANGED <<now, dbVars, cfgVars, rules, chain, work, budget>>

MinuteTicker ==
    /\ proc[Janitor].pc = "wait"
    /\ Goto(Janitor, "release")
    /\ UNCHANGED <<now, dbVars, cfgVars, rules, chain, janVars, budget>>

\* ensureBanHooks: EnsureHooks puts chain and jump back, v4 before v6, under
\* the firewall's mutex; a chain made anew means every ban is applied again,
\* but not after an error, which returns first.
Before(f) == IF f = "v6" THEN Families \cap {"v4"} ELSE {}
RecreatedIgnored == FALSE    \* mutant: the bans do not follow the new chain
Recreated == \E f \in Families : chain[f] = "gone"
EnsureHooks ==
    /\ proc[Janitor].pc = "hooks"
    /\ \/ /\ chain' = [f \in DOMAIN chain |-> IF f \in Families THEN "hooked" ELSE chain[f]]
          /\ Goto(Janitor, IF Recreated THEN "synclist" ELSE "wait")
          /\ UNCHANGED budget
       \/ \E f \in Families :
             /\ Upset("fw")
             /\ \E c \in {chain[f]} \cup (IF chain[f] = "gone" THEN {"loose"} ELSE {}) :
                  chain' = [g \in DOMAIN chain |-> IF g \in Before(f) THEN "hooked"
                                                   ELSE IF g = f THEN c ELSE chain[g]]
             /\ Goto(Janitor, "wait")
    /\ UNCHANGED <<now, dbVars, cfgVars, rules, janVars>>

-----------------------------------------------------------------------------
(* The world around the process                                            *)

\* Prompt: no ban runs out between BanIP's two halves, between the check of a
\* banned connection and the rule it puts back, or between the two halves of
\* lifting an older ban of the same address.
Tick ==
    /\ now < MaxTime
    /\ Prompt => \A p \in Procs : proc[p].pc \notin {"ban_fw", "reassert", "delete"}
    /\ now' = now + 1
    /\ UNCHANGED <<dbVars, cfgVars, rules, chain, proc, janVars, budget>>

\* The firewall is reloaded: the jump goes, or the chain with its rules.  An
\* "iptables -F" (upset "wipe") takes jump and rules but leaves the chain.
Flush(f) ==
    /\ Method = "iptables" /\ chain[f] # "gone"
    /\ \/ /\ Upset("flush") /\ chain[f] = "hooked"
          /\ chain' = [chain EXCEPT ![f] = "loose"] /\ UNCHANGED rules
       \/ /\ Upset("flush")
          /\ chain' = [chain EXCEPT ![f] = "gone"]
          /\ rules' = {ip \in rules : FamilyOf[ip] # f}
       \/ /\ Upset("wipe")
          /\ chain' = [chain EXCEPT ![f] = "loose"]
          /\ rules' = {ip \in rules : FamilyOf[ip] # f}
    /\ UNCHANGED <<now, dbVars, cfgVars, proc, janVars>>

Fresh == [p \in Procs |-> IF p = Janitor THEN [Idle EXCEPT !.pc = "synclist"] ELSE Idle]
Chains == [{"v4", "v6"} -> {"hooked", "loose", "gone"}]
HookedChains == [f \in {"v4", "v6"} |-> "hooked"]

\* The process dies and starts again with a perhaps edited whitelist; New
\* sets up the chains.  A reboot loses the kernel's rules as well.
Restart(w, reboot) ==
    /\ Upset("crash")
    /\ whitelist' = w
    /\ rules' = IF reboot THEN {} ELSE rules
    /\ chain' = HookedChains
    /\ proc' = Fresh /\ work' = {} /\ round' = "boot"
    /\ UNCHANGED <<now, dbVars, settings>>

-----------------------------------------------------------------------------
(* A database an earlier life of the process left behind, and the rules it *)
(* had in force for some of its bans.                                      *)
Init ==
    /\ now = 0
    /\ row \in [IPs -> InitialRows]
    /\ score = [ip \in IPs |-> IF row[ip] = NoRow THEN 0 ELSE MaxScore]
    /\ settings \in SettingsSet
    /\ whitelist \in Whitelists
    /\ rules \in SUBSET {ip \in IPs : row[ip] # NoRow /\ Method # "none" /\ CanUnban(ip)}
    /\ chain = HookedChains
    /\ proc = Fresh /\ work = {} /\ round = "boot"
    /\ budget = Budget

HandlerStep(h) ==
    \/ \E ip \in IPs : Connect(h, ip)
    \/ Check(h) \/ Reassert(h) \/ Record(h) \/ Decide(h) \/ IsBanned(h)
    \/ Credential(h) \/ EndSession(h)
    \/ BanRow(h) \/ BanFw(h)

OperatorStep(o) ==
    \/ \E ip \in IPs : OperatorUnban(o, ip) \/ \E d \in Durations : OperatorBan(o, ip, d)
    \/ \E s \in SettingsSet : SetAutoBan(o, s)
    \/ BanRow(o) \/ BanFw(o) \/ UnbanRow(o) \/ UnbanScore(o) \/ UnbanFw(o)

JanitorStep ==
    \/ SyncList \/ SyncDone \/ ReleaseList \/ LiftDone \/ MinuteTicker
    \/ DeleteExpired \/ ResetScore \/ EnsureHooks
    \/ \E ip \in IPs : SyncUnban(ip) \/ SyncBan(ip) \/ LiftRule(ip)
    \/ UnbanRow(Janitor) \/ UnbanScore(Janitor) \/ UnbanFw(Janitor)

World ==
    \/ Tick
    \/ \E f \in Families : Flush(f)
    \/ \E w \in Whitelists, reboot \in BOOLEAN : Restart(w, reboot)

Next ==
    \/ \E h \in Handlers : HandlerStep(h)
    \/ \E o \in Operators : OperatorStep(o)
    \/ JanitorStep
    \/ World

Spec == Init /\ [][Next]_vars

\* The goroutine of maintenanceLoop keeps running; nobody else has to.
FairSpec == Spec /\ WF_vars(JanitorStep)

(***************************************************************************)
(* Properties                                                              *)
(***************************************************************************)

\* Every variable keeps its type; the maintenance goroutine is never idle and
\* the connection and request goroutines never run its steps.
HandlerPCs  == {"idle", "check", "reassert", "score", "decide", "isbanned", "session",
                "ban_row", "ban_fw"}
OperatorPCs == {"idle", "ban_row", "ban_fw", "unban_row", "unban_score", "unban_fw"}
JanitorPCs  == PCs \ (HandlerPCs \cup {"idle"})
TypeOK ==
    /\ now \in 0..MaxTime
    /\ row \in [IPs -> Rows]
    /\ score \in [IPs -> 0..MaxScore]
    /\ settings \in SettingsSet
    /\ whitelist \in Whitelists
    /\ rules \subseteq IPs
    /\ chain \in Chains
    /\ proc \in [Procs -> ProcState]
    /\ \A p \in Procs :
         /\ proc[p].pc \in IF p = Janitor THEN JanitorPCs
                           ELSE IF p \in Handlers THEN HandlerPCs ELSE OperatorPCs
         /\ proc[p].pc \notin {"idle", "synclist", "sync", "release", "lift", "hooks", "wait"}
              => proc[p].ip \in IPs
    /\ work \subseteq IPs
    /\ round \in {"boot", "first", "minute"}
    /\ budget \in [Upsets -> Nat]

\* No step of the running process writes a ban row or inserts a DROP rule for
\* an address its whitelist covers, whichever goroutine checked the whitelist
\* and however long ago (README: "never scored or banned"; IsWhitelisted).
NeverBanWhitelisted ==
    [][\A ip \in whitelist' : /\ row'[ip] \in {row[ip], NoRow}
                              /\ ip \in rules' => ip \in rules]_vars

\* What makes it so: a goroutine about to store a ban or to put a DROP rule in
\* the kernel works for an address the whitelist of this process does not hold.
Targeting == {"check", "reassert", "score", "decide", "isbanned", "ban_row", "ban_fw"}
TargetsNotWhitelisted ==
    \A p \in Procs : proc[p].pc \in Targeting => proc[p].ip \notin whitelist

\* A ban in force ends before its time only because an operator, or the sync
\* for an address that is now whitelisted, unbans it: the maintenance goroutine
\* never deletes a ban renewed since it was listed (DeleteExpiredBan).
RenewedRowKept ==
    [][\A ip \in IPs : Active(ip) /\ row'[ip] = NoRow =>
         \E p \in Operators \cup {Janitor} :
           /\ proc[p].pc = "unban_row" /\ proc[p].ip = ip
           /\ p = Janitor => ip \in whitelist]_vars

\* A kernel rule always has a row that will one day lift it, or somebody on
\* his way to lift it: otherwise a temporary ban would become a permanent one
\* that no screen shows (releaseExpiredBans, UnbanIP).
RuleBacked ==
    \A ip \in rules : \/ row[ip] # NoRow
                      \/ \E p \in Procs : proc[p].ip = ip /\ proc[p].pc \in {"unban_score", "unban_fw"}

\* When the first sync ends, no database call failed and nobody else touched the
\* firewall, the bans in force that the kernel does not know are at most as many
\* as firewall calls failed: one refused ban does not stop the others from being
\* re-applied (syncBans at start-up).
Missing == {ip \in IPs : /\ HasFamily(ip) /\ Active(ip) /\ ip \notin rules
                         /\ ~\E p \in Procs : proc[p].ip = ip /\ proc[p].pc = "ban_fw"}
BootRestoresBans ==
    round = "boot" /\ proc[Janitor].pc = "sync" /\ work = {}
    /\ (\A u \in {"db", "flush", "wipe"} : budget[u] = Budget[u])
      => Cardinality(Missing) <= Budget["fw"] - budget["fw"]

\* A permanent ban becomes temporary only when an operator says so: the
\* automatic ban must not overwrite it.
PermanentKept ==
    [][\A ip \in IPs : row[ip] = Forever /\ row'[ip].kind = "temp" =>
         \E o \in Operators : proc[o].pc = "ban_row" /\ proc[o].ip = ip]_vars

\* A ban that has run out does not stay: its row goes or is renewed, also when
\* calls fail, when the process dies half way and when another address can
\* never be unbanned in the kernel (releaseExpiredBans).
ExpiredBanReleased ==
    \A ip \in IPs : HasFamily(ip) => (Expired(ip) ~> ~Expired(ip))

\* A ban in force ends up stopping packets again after a reload that took the
\* jump or the chain, however often the process or the machine restarted, as
\* long as no firewall call failed (EnsureHooks, syncBans).  After an
\* "iptables -F" only the next connection of the address puts its rule back.
BanHealed ==
    \A ip \in IPs : HasFamily(ip) =>
      (Active(ip) /\ ip \notin whitelist
         ~> Blocked(ip) \/ ~Active(ip) \/ \E u \in {"fw", "wipe"} : budget[u] < Budget[u])

=============================================================================
