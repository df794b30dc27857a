------------------------------- MODULE MCPanels -------------------------------
(* Values for the constants of Panels in the model-checking runs.  Readings *)
(* and Charts have no state: TLC evaluates their assumptions once.         *)
EXTENDS Panels, Readings, Charts, TLC

\* The ports screen: an IPv4 and an IPv6 address of the host, one it forwards, a
\* network of each family that a rule can name, a source and the whitelist.
CONSTANTS home4, home6, passed, net, net6, src, friend

Tcp(ps, as, m, srcs, on) ==
    [addresses |-> as, mode |-> m, sources |-> srcs, ports |-> ps, proto |-> "tcp", enabled |-> on]
SomeDrafts ==
    {Tcp({22}, as, m, {src}, TRUE) : as \in {{}, {home4}, {passed}, {net}, {net6}}, m \in {"allow", "deny"}}
        \cup {Tcp({22, 80}, {}, "allow", {}, on) : on \in BOOLEAN}
SshAndDashboard == <<22, 80>>
TwoNetworks == (net :> {home4, passed}) @@ (net6 :> {})
Wildcards == [v4 |-> "0.0.0.0", v6 |-> "::"]
Socket(a, as, sc, rk) ==
    [port |-> 22, proto |-> "tcp", address |-> a, addrs |-> as, scope |-> sc, risk |-> rk]
ThreeSockets ==
    {Socket(None, {"0.0.0.0"}, "public", "remote"), Socket(None, {home6}, "private", "database"),
     Socket(passed, {}, "public", "database")}

\* The containers screen: two containers of Docker, one of them on the host's
\* network, an instance of Incus that wants the same port as the first,
\* and a network that nothing is on.
CONSTANTS c1, c2, c3, n1, n2, n3, web

Box(i, e, ws, l, ps) == [id |-> i, engine |-> e, words |-> ws, locked |-> l, ports |-> ps]
ThreeBoxes ==
    {Box(c1, "docker", {web}, FALSE, {[port |-> 80, ip |-> Everywhere]}), Box(c2, "docker", {}, TRUE, {}),
     Box(c3, "incus", {web}, FALSE, {[port |-> 80, ip |-> Everywhere], [port |-> 90, ip |-> "loopback"]})}
ThreeNets == [name : {n1, n3}, engine : {"docker"}] \cup {[name |-> n2, engine |-> "incus"]}
DockerOrBoth == {{c1}, {c1, c3}}
FirstPlugs == (c1 :> {n1}) @@ (c2 :> {}) @@ (c3 :> {n2})
AllCovers == [method : {"iptables", "ufw", "none"}, chain : BOOLEAN, covered : BOOLEAN]

\* The overview: three sources, one of which falls into the honeypot; two are
\* sent and one is listed.
CONSTANTS srcA, srcB, srcC
TwoOutcomes == (srcA :> "honeypot") @@ (srcB :> "port_scan") @@ (srcC :> "port_scan")

\* The Software screen: this server, on which an advisory applies, and a container.
CONSTANTS host, box
HostBad == {(host :> "bad") @@ (box :> "clean")}

\* The map: a switch, three devices of a project on it and a loose one, close
\* together in the first layout and far apart in the second.
CONSTANT proj
Device(k, l, gr, ws) == [kind |-> k, length |-> l, group |-> gr, words |-> ws]
FiveDevices ==
    <<Device("net", 6, NoGroup, {}), Device("ct", 10, proj, {web}), Device("ct", 8, proj, {}),
      Device("ct", 9, proj, {web}), Device("ct", 4, NoGroup, {})>>
ThreeCables == {<<2, 1>>, <<3, 1>>, <<4, 1>>}
TwoLayouts ==
    {<< <<0, 0>>, <<40, 0>>, <<0, 60>>, <<40, 60>>, <<0, 30>> >>,
     << <<0, 0>>, <<400, 0>>, <<0, 300>>, <<200, 150>>, <<900, 300>> >>}
Somewhere == {<<20, 30>>, <<400, 300>>}
Fingers == {<<0, 0>>, <<500, 100>>}

\* The services: a managed one, and two honeypots that want the same port, of
\* which the file has one on.
CONSTANTS g1, g2
ThreePorts == <<80, 22, 22>>
OneOfTwo == {<<TRUE, TRUE, FALSE>>}
===============================================================================
