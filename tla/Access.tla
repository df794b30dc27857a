-------------------------------- MODULE Access --------------------------------
(***************************************************************************)
(* The Ports screen of the dashboard (app.js): what it says of who reaches *)
(* a port, beside what the chains compiled from the same rules do          *)
(* (internal/firewall/ports.go), and the switches that make the            *)
(* server-wide rules cover a forwarded address.  The rule form itself is   *)
(* RuleEditor; the trial and the stored rules are PortRules.               *)
(***************************************************************************)
EXTENDS Naturals, Sequences, FiniteSets

CONSTANTS
    HostAddrs, ForwardedAddrs,  \* addresses the server owns, and passes on
    PublicAddrs,  \* those of them the internet routes here
    Networks,     \* networks a rule can name
    Within,       \* [Networks -> the addresses in it]
    IPv6,         \* those of the addresses and networks that are IPv6
    Wildcard,     \* "v4" or "v6" -> what a socket on every address is bound to
    Sources,      \* where connections come from
    Whitelist,    \* the sources that pass every "only these" rule
    Listeners,    \* [port, proto, address, addrs, scope, risk]: address is None on the host
    BanMethods,   \* of "iptables", "ufw", "log" and "none"
    Protected,    \* the TCP ports a change of the rules can lock somebody out of, in the server's order
    Drafts,       \* bound: the rules considered
    MaxRules,     \* bound: of a list of rules
    None,
    MaxPicks,     \* bound: what the operators do
    MaxRefusals   \* bound: requests that fail

Addrs == HostAddrs \cup ForwardedAddrs
ProtectedPorts == {Protected[i] : i \in DOMAIN Protected}
RuleLists == UNION {[1..n -> Drafts] : n \in 0..MaxRules}

ASSUME AccessAssumption ==
    /\ HostAddrs \cap ForwardedAddrs = {} /\ Networks \cap Addrs = {}
    /\ PublicAddrs \subseteq Addrs /\ BanMethods \subseteq {"iptables", "ufw", "log", "none"}
    /\ Within \in [Networks -> SUBSET Addrs] /\ IPv6 \subseteq Addrs \cup Networks
    /\ Whitelist \subseteq Sources /\ None \notin Addrs \cup BOOLEAN
    /\ Protected \in Seq(Nat) /\ None \notin Nat
    /\ \A n \in Networks : \A a \in Within[n] : a \in IPv6 <=> n \in IPv6
    /\ \A l \in Listeners : l.address \in ForwardedAddrs \cup {None}
    /\ MaxPicks \in Nat /\ MaxRules \in Nat /\ MaxRefusals \in Nat

-----------------------------------------------------------------------------
(* The kernel: the rules for chosen addresses stand before the server-wide *)
(* ones, each in the order of the list; the first that decides, decides.   *)

Names(r, a) == \E n \in r.addresses : n = a \/ (n \in Networks /\ a \in Within[n])
Speaks(r, proto) == r.proto \in {"both", proto}

\* The rule has a match for connections to this port of this address.
Matches(r, a, port, proto, follow) ==
    /\ r.enabled /\ Speaks(r, proto) /\ port \in r.ports
    /\ IF r.addresses = {} THEN a \in HostAddrs \cup follow ELSE Names(r, a)

\* What it says to a source: "next" leaves the decision to the rules after it.
Says(r, s) ==
    IF r.mode = "deny" THEN IF s \in r.sources THEN "drop" ELSE "next"
    ELSE IF s \in r.sources \cup Whitelist THEN "pass" ELSE "drop"

Before(rules, i, j) ==
    LET general(k) == rules[k].addresses = {}
    IN (~general(i) /\ general(j)) \/ (general(i) = general(j) /\ i < j)

Deciding(rules, s, a, port, proto, follow) ==
    {i \in DOMAIN rules : Matches(rules[i], a, port, proto, follow) /\ Says(rules[i], s) # "next"}

\* A connection that no rule decides about gets in.
Admitted(rules, s, a, port, proto, follow) ==
    LET D == Deciding(rules, s, a, port, proto, follow)
    IN \A i \in D : (\A j \in D \ {i} : Before(rules, i, j)) => Says(rules[i], s) = "pass"

-----------------------------------------------------------------------------
(* The page.  d is the last answer: its rules, addresses and follow.       *)

\* ipCovers takes every IPv6 network to hold every IPv6 address.
ipCovers(n, a) ==
    IF n \notin Networks THEN n = a
    ELSE IF {n, a} \cap IPv6 # {} THEN {n, a} \subseteq IPv6 ELSE a \in Within[n]

listenerOn(l, a) ==
    IF l.address # None THEN l.address = a
    ELSE a \in HostAddrs /\ (a \in l.addrs \/ Wildcard["v6"] \in l.addrs
                             \/ (Wildcard["v4"] \in l.addrs /\ a \notin IPv6))

appliesTo(d, r, l) ==
    IF r.addresses = {} THEN l.address = None \/ l.address \in d.follow
    ELSE IF l.address # None THEN \E n \in r.addresses : ipCovers(n, l.address)
    ELSE d.addrs = {} \/ \E a \in d.addrs \cap HostAddrs : listenerOn(l, a) /\ \E n \in r.addresses : ipCovers(n, a)

rulesFor(d, l) ==
    {i \in DOMAIN d.rules : LET r == d.rules[i] IN
        r.enabled /\ Speaks(r, l.proto) /\ l.port \in r.ports /\ appliesTo(d, r, l)}
\* Mutant: rulesFor does not sort.
ListOrder(d, i, j) == i < j

\* The sort of rulesFor keeps the order of the list among equals.
Precedes(d, i, j) ==
    LET general(k) == d.rules[k].addresses = {}
    IN (~general(i) /\ general(j)) \/ (general(i) = general(j) /\ i < j)

\* The access column: "Everyone", or the summary of the first rule.
Shown(d, l) ==
    LET S == rulesFor(d, l)
        r == d.rules[CHOOSE i \in S : \A j \in S \ {i} : Precedes(d, i, j)]
    IN IF S = {} THEN [who |-> "everyone", but |-> {}, rule |-> None]
       ELSE [who |-> IF r.mode = "deny" THEN "except" ELSE "only", but |-> r.sources, rule |-> r]

\* The listeners of an answer, and the addresses one of them is open on.
Listed(d) == {l \in Listeners : l.address = None \/ l.address \in d.addrs}
Reached(d, l) == {a \in d.addrs : listenerOn(l, a)}

\* The headline counts the risky ports anyone can reach.
Exposed(d) == {l \in Listed(d) : l.scope = "public" /\ l.risk \notin {None, "remote"} /\ rulesFor(d, l) = {}}

\* The table of addresses, and what it says of bans there, from what the server
\* tells of them.
TableHidden(d) == Cardinality(d.addrs \cap PublicAddrs) < 2 /\ d.addrs \cap ForwardedAddrs = {}
BanWord(a, bans) ==
    IF bans.method \in {"none", "log"} THEN "only logged"
    ELSE IF a \in HostAddrs THEN "covered"
    ELSE IF bans.method = "ufw" THEN "not covered"
    ELSE IF bans.covered THEN "covered"
    ELSE IF bans.enabled THEN "not covered yet" ELSE "switched off"

\* The note in the rule form: the first protected port in the draft's range, if
\* the draft is for the host.
Warned(d, r) ==
    LET onHost == r.addresses = {} \/ d.addrs \cap HostAddrs = {}
                  \/ \E n \in r.addresses, a \in d.addrs \cap HostAddrs : ipCovers(n, a)
        hit == {i \in DOMAIN Protected : r.proto # "udp" /\ Protected[i] \in r.ports}
    IN IF onHost /\ hit # {} THEN Protected[CHOOSE i \in hit : \A j \in hit : i <= j] ELSE None

\* The server's side of it: riskyPorts of what is saved and what is sent.
ReachesHost(r, host) == r.addresses = {} \/ host = {} \/ \E a \in host : Names(r, a)
Guards(r, port, host) == r.enabled /\ r.proto # "udp" /\ port \in r.ports /\ ReachesHost(r, host)
\* A loop over the list, as a recursive function.
Covering(rules, port, host) ==
    LET kept[i \in 0..Len(rules)] ==
            IF i = 0 THEN <<>>
            ELSE IF Guards(rules[i], port, host) THEN Append(kept[i - 1], rules[i]) ELSE kept[i - 1]
    IN kept[Len(rules)]
OnTrial(saved, next, host) ==
    {p \in ProtectedPorts : Covering(next, p, host) \notin {<<>>, Covering(saved, p, host)}}

-----------------------------------------------------------------------------
(* The firewall's side of a ban.                                           *)

\* The binaries that work; cover_forwarded; the families whose FORWARD jumps to
\* SkyGuard's chain.  hookForward goes on without a jump it cannot make, and
\* takes none back that an earlier start with cover_forwarded on has left.
Firewalls ==
    {fw \in [method : BanMethods, families : {{"v4"}, {"v4", "v6"}}, enabled : BOOLEAN, jumps : SUBSET {"v4", "v6"}] :
        fw.jumps \subseteq fw.families}

\* Where a banned source is dropped: iptables drops it in a chain of its own that
\* INPUT jumps to, and FORWARD; ufw denies it what the host receives.
DroppedIn(fw) ==
    CASE fw.method = "iptables" -> ({"INPUT"} \X fw.families) \cup ({"FORWARD"} \X fw.jumps)
      [] fw.method = "ufw" -> {"INPUT"} \X {"v4", "v6"}
      [] fw.method \in {"none", "log"} -> {}

\* The host's own addresses are behind INPUT, what it passes on is behind FORWARD.
Crossed(a) == <<IF a \in HostAddrs THEN "INPUT" ELSE "FORWARD", IF a \in IPv6 THEN "v6" ELSE "v4">>
BanReaches(a, fw) == Crossed(a) \in DroppedIn(fw)

\* CoversForward looks with cover_forwarded on, and at the jump for IPv4.
banCoverage(fw) ==
    LET asked == fw.method = "iptables" /\ fw.enabled
    IN [method |-> fw.method, enabled |-> asked, covered |-> asked /\ "v4" \in fw.jumps]

-----------------------------------------------------------------------------
VARIABLES
    server,    \* the server's rules, addresses and follow
    page,      \* pt.data, or None before the first answer
    list,      \* the list of ports drawn: listeners, or None instead of an error
    scope,     \* pt.scope
    only,      \* pt.addr, None when every address is shown
    switches,  \* where each "Apply here too" switch stands, None if it has none
    heard,     \* what the server acknowledged of the switches drawn
    gets,      \* GET /api/ports under way: None until it is served
    posts,     \* POST /api/ports/address under way
    picks, refusals

access_vars == <<server, page, list, scope, only, switches, heard, gets, posts, picks, refusals>>

Pick == picks > 0 /\ picks' = picks - 1
Refuse == refusals > 0 /\ refusals' = refusals - 1
Fresh == [a \in ForwardedAddrs |-> None]
DrawnSwitches(d) == [a \in ForwardedAddrs |-> IF a \in d.addrs THEN a \in d.follow ELSE None]

\* renderPorts filters by scope and by address, and draws every switch anew
\* unless there is nothing to say of addresses.
Filtered(d, sc, a) ==
    {l \in Listed(d) : (sc = "public" => l.scope = "public") /\ (a # None => listenerOn(l, a))}
Draw(d, sc, a) ==
    /\ list' = Filtered(d, sc, a)
    /\ IF TableHidden(d) THEN UNCHANGED <<switches, heard, posts>>
       ELSE /\ switches' = DrawnSwitches(d) /\ heard' = Fresh
            /\ posts' = {[p EXCEPT !.attached = FALSE] : p \in posts}

LoadPorts ==
    /\ Pick /\ Len(gets) < 2 /\ gets' = Append(gets, None)
    /\ UNCHANGED <<server, page, list, scope, only, switches, heard, posts, refusals>>

Serve(i) ==
    /\ gets[i] = None /\ gets' = [gets EXCEPT ![i] = server]
    /\ UNCHANGED <<server, page, list, scope, only, switches, heard, posts, picks, refusals>>

Without(s, i) == SubSeq(s, 1, i - 1) \o SubSeq(s, i + 1, Len(s))

\* The answers come in any order; each is drawn.
PortsCome(i) ==
    /\ gets[i] # None
    /\ page' = gets[i] /\ Draw(gets[i], scope, only) /\ gets' = Without(gets, i)
    /\ UNCHANGED <<server, scope, only, picks, refusals>>

\* An error takes the place of the list and of nothing else.
PortsFail(i) ==
    /\ Refuse /\ list' = None /\ gets' = Without(gets, i)
    /\ UNCHANGED <<server, page, scope, only, switches, heard, posts, picks>>

PickScope(sc) ==
    /\ Pick /\ page # None /\ sc # scope
    /\ scope' = sc /\ Draw(page, sc, only)
    /\ UNCHANGED <<server, page, only, gets, refusals>>

\* The same address again takes the filter off; an address shows every scope.
PickAddr(a) ==
    /\ Pick /\ page # None /\ a \in page.addrs
    /\ only' = IF only = a THEN None ELSE a
    /\ scope' = IF only' = None THEN scope ELSE "all"
    /\ Draw(page, scope', only')
    /\ UNCHANGED <<server, page, gets, refusals>>

\* setFollow: the switch stands where it was put, and takes no click meanwhile.
SetFollow(a) ==
    /\ Pick /\ page # None /\ ~TableHidden(page)
    /\ a \in ForwardedAddrs /\ switches[a] # None
    /\ ~\E p \in posts : p.ip = a /\ p.attached
    /\ LET on == ~switches[a]
           p == [ip |-> a, on |-> on, attached |-> TRUE, served |-> "no"]
       IN /\ p \notin posts /\ posts' = posts \cup {p}
          /\ switches' = [switches EXCEPT ![a] = on]
    /\ UNCHANGED <<server, page, list, scope, only, heard, gets, refusals>>

ServeFollow(p, ok) ==
    /\ p.served = "no"
    /\ IF ok THEN p.ip \in server.addrs /\ UNCHANGED refusals
       ELSE IF p.ip \in server.addrs THEN Refuse ELSE UNCHANGED refusals
    /\ server' = IF ~ok THEN server
                 ELSE [server EXCEPT !.follow = IF p.on THEN @ \cup {p.ip} ELSE @ \ {p.ip}]
    /\ posts' = (posts \ {p}) \cup {[p EXCEPT !.served = IF ok THEN "yes" ELSE "refused"]}
    /\ UNCHANGED <<page, list, scope, only, switches, heard, gets, picks>>
\* Mutant: the refusal is only announced.
LeftThere(p) == switches

\* Where the switch goes that a refused request was sent for.
SwitchBack(p) == [switches EXCEPT ![p.ip] = IF p.attached THEN ~p.on ELSE @]

FollowAnswered(p) ==
    /\ p.served # "no" /\ Len(gets) < 2
    /\ switches' = IF p.served = "yes" THEN switches ELSE SwitchBack(p)
    /\ heard' = IF p.served = "yes" /\ p.attached THEN [heard EXCEPT ![p.ip] = p.on] ELSE heard
    /\ posts' = posts \ {p} /\ gets' = Append(gets, None)
    /\ UNCHANGED <<server, page, list, scope, only, picks, refusals>>

\* Another operator deletes a rule or throws a switch; an address comes or goes.
Toggled(S, a) == IF a \in S THEN S \ {a} ELSE S \cup {a}
Elsewhere ==
    /\ Pick
    /\ \/ server.rules # <<>> /\ server' = [server EXCEPT !.rules = Tail(@)]
       \/ \E a \in ForwardedAddrs \cap server.addrs : server' = [server EXCEPT !.follow = Toggled(@, a)]
       \/ \E a \in ForwardedAddrs : server' = [server EXCEPT !.addrs = Toggled(@, a)]
    /\ UNCHANGED <<page, list, scope, only, switches, heard, gets, posts, refusals>>

AccessInit ==
    /\ server \in [rules : RuleLists, addrs : {HostAddrs, Addrs}, follow : {{}}]
    /\ page = None /\ list = None /\ scope = "public" /\ only = None
    /\ switches = Fresh /\ heard = Fresh
    /\ gets = <<None>> /\ posts = {}
    /\ picks = MaxPicks /\ refusals = MaxRefusals

AccessNext ==
    \/ LoadPorts \/ Elsewhere
    \/ \E i \in DOMAIN gets : Serve(i) \/ PortsCome(i) \/ PortsFail(i)
    \/ \E sc \in {"public", "all"} : PickScope(sc)
    \/ \E a \in Addrs : PickAddr(a) \/ SetFollow(a)
    \/ \E p \in posts : (\E ok \in BOOLEAN : ServeFollow(p, ok)) \/ FollowAnswered(p)
AccessSpec == AccessInit /\ [][AccessNext]_access_vars

-----------------------------------------------------------------------------
(* Types and properties.                                                   *)

Answers == [rules : RuleLists, addrs : SUBSET Addrs, follow : SUBSET ForwardedAddrs]
AccessTypeOK ==
    /\ server \in Answers /\ page \in Answers \cup {None}
    /\ list = None \/ list \subseteq Listeners
    /\ scope \in {"public", "all"} /\ only \in Addrs \cup {None}
    /\ switches \in [ForwardedAddrs -> BOOLEAN \cup {None}]
    /\ heard \in [ForwardedAddrs -> BOOLEAN \cup {None}]
    /\ gets \in Seq(Answers \cup {None}) /\ Len(gets) <= 2
    /\ posts \subseteq [ip : ForwardedAddrs, on : BOOLEAN, attached : BOOLEAN,
                        served : {"no", "yes", "refused"}]

\* What the access column says of a listener is what the kernel does with the
\* rules the answer held: "Everyone" means that no source is dropped on any
\* address the port is open on; a rule that is named is the one that decides,
\* on the addresses it is about, for the sources it names ("except") or for
\* all of them ("only"; the whitelist and this server always get in).
TrueOf(d, l) ==
    LET shown == Shown(d, l)
        in(s, a) == Admitted(d.rules, s, a, l.port, l.proto, d.follow)
    IN \A a \in Reached(d, l), s \in Sources :
         CASE shown.who = "everyone" -> in(s, a)
           [] shown.who = "except" -> s \in shown.but /\ Matches(shown.rule, a, l.port, l.proto, d.follow) => ~in(s, a)
           [] shown.who = "only" -> Matches(shown.rule, a, l.port, l.proto, d.follow) => (in(s, a) <=> s \in shown.but \cup Whitelist)
\* The word beside an address is true of every ban: it is dropped there if the
\* word says so, and not if the word denies it.  Of IPv6 it is only true if both
\* families came out alike, for the server looks at IPv4; and "cover_forwarded
\* is off" leaves open what an earlier start has hooked.
BanTold(a, fw) ==
    LET word == BanWord(a, banCoverage(fw))
    IN (a \in IPv6 => fw.families = {"v4", "v6"} /\ fw.jumps \in {{}, fw.families}) =>
           /\ word = "covered" => BanReaches(a, fw)
           /\ BanReaches(a, fw) => word \in {"covered", "switched off"}
\* The headline counts only ports everyone reaches; the word about bans is true;
\* and when a new rule puts ports on trial, the form has said so and named one.
ClaimsHold == page # None =>
    /\ \A l \in Listed(page) : TrueOf(page, l)
    /\ \A l \in Exposed(page) : \A a \in Reached(page, l), s \in Sources :
            Admitted(page.rules, s, a, l.port, l.proto, page.follow)
    /\ \A a \in page.addrs, fw \in Firewalls : BanTold(a, fw)
    /\ \A r \in Drafts :
            LET trial == OnTrial(page.rules, Append(page.rules, r), page.addrs \cap HostAddrs)
            IN trial # {} => Warned(page, r) \in trial

\* A switch nobody is waiting for stands where the server was last heard to
\* have it: in the answer it was drawn from or in an acknowledgement since.
\* A refusal, even one for a switch that has been drawn anew, leaves no trace.
SwitchesHonest ==
    page # None /\ ~TableHidden(page) => \A a \in ForwardedAddrs :
        switches[a] = None \/ (\E p \in posts : p.ip = a /\ p.attached)
        \/ switches[a] = (IF heard[a] # None THEN heard[a] ELSE a \in page.follow)

\* The ports screen: its variables have their types, what it says of who
\* reaches a port is what the kernel does (ClaimsHold), and its switches stand
\* where the server's do or a request will put them (SwitchesHonest).
PortsTrue == AccessTypeOK /\ ClaimsHold /\ SwitchesHonest
=============================================================================
