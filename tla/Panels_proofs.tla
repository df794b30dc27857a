----------------------------- MODULE Panels_proofs -----------------------------
(***************************************************************************)
(* What is proved of the screens that Panels puts side by side, each for   *)
(* itself, then together, for any number of rules, places, containers and  *)
(* requests: the claims and the switches of the ports screen (Access), the *)
(* Software screen and the scans behind it (Inventory), the containers     *)
(* screen (Bay), the figures of the overview (Figures), the view, labels   *)
(* and outlines of the map (MapView), and all with the services; and, of   *)
(* what their Readings compute, the times and the order of versions.       *)
(***************************************************************************)
EXTENDS Panels, Readings, Services_proofs, SequenceTheorems, FiniteSetTheorems, WellFoundedInduction, TLAPS

\* A sequence of requests without one of them.
LEMMA OneLess ==
    ASSUME NEW S, NEW s \in Seq(S), NEW i \in DOMAIN s
    PROVE  /\ SubSeq(s, 1, i - 1) \o SubSeq(s, i + 1, Len(s)) \in Seq(S)
           /\ Len(SubSeq(s, 1, i - 1) \o SubSeq(s, i + 1, Len(s))) = Len(s) - 1
  <1>1. i \in 1..Len(s) /\ Len(s) \in Nat
    OBVIOUS
  <1>2. SubSeq(s, 1, i - 1) \in Seq(S) /\ Len(SubSeq(s, 1, i - 1)) = i - 1
    BY <1>1, SubSeqProperties
  <1>3. SubSeq(s, i + 1, Len(s)) \in Seq(S) /\ Len(SubSeq(s, i + 1, Len(s))) = Len(s) - i
    BY <1>1, SubSeqProperties
  <1> DEFINE u == SubSeq(s, 1, i - 1)
             v == SubSeq(s, i + 1, Len(s))
  <1>4. u \in Seq(S) /\ v \in Seq(S) /\ Len(u) = i - 1 /\ Len(v) = Len(s) - i
    BY <1>2, <1>3
  <1> SUFFICES u \o v \in Seq(S) /\ Len(u \o v) = Len(s) - 1
    OBVIOUS
  <1> HIDE DEF u, v
  <1>6. u \o v \in Seq(S) /\ Len(u \o v) = Len(u) + Len(v)
    BY <1>4, ConcatProperties
  <1> QED
    BY <1>1, <1>4, <1>6

-----------------------------------------------------------------------------
(* Access: the switches of the ports screen.                               *)

LEMMA RulesLess ==
    ASSUME NEW r \in RuleLists, r # <<>>
    PROVE  Tail(r) \in RuleLists
  <1>1. PICK n \in 0..MaxRules : r \in [1..n -> Drafts]
    BY DEF RuleLists
  <1>2. n > 0 /\ n \in Nat /\ MaxRules \in Nat
    BY <1>1, AccessAssumption
  <1>3. r \in Seq(Drafts) /\ Len(r) = n
    BY <1>1, <1>2
  <1>4. Tail(r) \in Seq(Drafts) /\ Len(Tail(r)) = n - 1
    BY <1>2, <1>3, HeadTailProperties
  <1> DEFINE t == Tail(r)
  <1>5. t \in [1..(n - 1) -> Drafts]
    <2> HIDE DEF t
    <2>1. t \in [1..Len(t) -> Drafts] /\ Len(t) = n - 1
      BY <1>4, LenProperties DEF t
    <2> QED
      BY <2>1
  <1> QED
    BY <1>2, <1>5 DEF RuleLists

\* What a switch should return to: the last acknowledgement, or the answer it
\* was drawn from.
Told(a) == IF heard[a] # None THEN heard[a] ELSE a \in page.follow
Waits(p, a) == p \in posts /\ p.ip = a /\ p.attached
SwitchesDrawn == page # None /\ ~TableHidden(page)

\* A switch waits for one request at most, stands where that one was meant to
\* put it, and goes back to what was told; one that does not wait stands there.
OneWaits == \A p, q \in posts : p.attached /\ q.attached /\ p.ip = q.ip => p = q
AsClicked == \A p \in posts : p.attached => switches[p.ip] = p.on
WouldReturn == \A p \in posts : p.attached => Told(p.ip) \in BOOLEAN \ {p.on}
SwitchAtRest == \A a \in ForwardedAddrs :
    switches[a] = None \/ (\E p \in posts : p.ip = a /\ p.attached) \/ switches[a] = Told(a)
SwitchesInv == AccessTypeOK /\ OneWaits /\ AsClicked /\ (SwitchesDrawn => WouldReturn /\ SwitchAtRest)

LEMMA DrawnType ==
    ASSUME AccessTypeOK, NEW d \in Answers, NEW sc, NEW a, Draw(d, sc, a)
    PROVE  /\ list' \subseteq Listeners
           /\ switches' \in [ForwardedAddrs -> BOOLEAN \cup {None}]
           /\ heard' \in [ForwardedAddrs -> BOOLEAN \cup {None}]
           /\ posts' \subseteq [ip : ForwardedAddrs, on : BOOLEAN, attached : BOOLEAN,
                                served : {"no", "yes", "refused"}]
  <1>1. list' \subseteq Listeners
    BY DEF Draw, Filtered, Listed
  <1>2. CASE TableHidden(d)
    BY <1>1, <1>2 DEF Draw, AccessTypeOK
  <1>3. CASE ~TableHidden(d)
    <2>1. switches' \in [ForwardedAddrs -> BOOLEAN \cup {None}]
      <3>1. switches' = DrawnSwitches(d)
        BY <1>3 DEF Draw
      <3>2. ASSUME NEW b \in ForwardedAddrs
            PROVE  (IF b \in d.addrs THEN b \in d.follow ELSE None) \in BOOLEAN \cup {None}
        <4>1. CASE b \in d.follow
          <5>1. (b \in d.follow) = TRUE
            BY <4>1
          <5> QED
            BY <5>1
        <4>2. CASE ~(b \in d.follow)
          <5>1. (b \in d.follow) = FALSE
            BY <4>2
          <5> QED
            BY <5>1
        <4> QED
          BY <4>1, <4>2
      <3> QED
        BY <3>1, <3>2 DEF DrawnSwitches
    <2>2. heard' \in [ForwardedAddrs -> BOOLEAN \cup {None}]
      BY <1>3 DEF Draw, Fresh
    <2>3. posts' = {[p EXCEPT !.attached = FALSE] : p \in posts}
      BY <1>3 DEF Draw
    <2>4. \A p \in posts : p \in [ip : ForwardedAddrs, on : BOOLEAN, attached : BOOLEAN, served : {"no", "yes", "refused"}]
      BY DEF AccessTypeOK
    <2>5. \A p \in posts : [p EXCEPT !.attached = FALSE] \in
              [ip : ForwardedAddrs, on : BOOLEAN, attached : BOOLEAN, served : {"no", "yes", "refused"}]
      BY <2>4
    <2>6. posts' \subseteq [ip : ForwardedAddrs, on : BOOLEAN, attached : BOOLEAN, served : {"no", "yes", "refused"}]
      BY <2>3, <2>5
    <2> QED
      BY <1>1, <2>1, <2>2, <2>6
  <1> QED
    BY <1>2, <1>3

\* Drawn anew, every switch stands where the answer has it, and none waits.
LEMMA DrawnAnew ==
    ASSUME SwitchesInv, NEW d \in Answers, NEW sc, NEW a, Draw(d, sc, a),
           page' = d, d # None
    PROVE  OneWaits' /\ AsClicked' /\ (SwitchesDrawn' => (WouldReturn /\ SwitchAtRest)')
  <1>1. CASE TableHidden(d)
    <2>1. UNCHANGED <<switches, heard, posts>>
      BY <1>1 DEF Draw
    <2>2. ~SwitchesDrawn'
      BY <1>1 DEF SwitchesDrawn, TableHidden
    <2> QED
      BY <2>1, <2>2 DEF SwitchesInv, OneWaits, AsClicked
  <1>2. CASE ~TableHidden(d)
    <2>1. \A p \in posts' : ~p.attached
      BY <1>2 DEF Draw, SwitchesInv, AccessTypeOK
    <2>2. \A b \in ForwardedAddrs : switches'[b] = None \/ switches'[b] = (b \in d.follow)
      BY <1>2 DEF Draw, DrawnSwitches
    <2>3. \A b \in ForwardedAddrs : Told(b)' = (b \in d.follow)
      BY <1>2 DEF Draw, Fresh, Told
    <2>4. OneWaits' /\ AsClicked' /\ WouldReturn'
      BY <2>1 DEF OneWaits, AsClicked, WouldReturn
    <2>5. SwitchAtRest'
      BY <2>2, <2>3 DEF SwitchAtRest
    <2> QED
      BY <2>4, <2>5
  <1> QED
    BY <1>1, <1>2

LEMMA AccessTypeInit == AccessInit => AccessTypeOK
  <1> SUFFICES ASSUME AccessInit PROVE AccessTypeOK
    OBVIOUS
  <1>1. server \in Answers
    BY DEF AccessInit, Answers, Addrs
  <1>2. page = None /\ list = None /\ scope \in {"public", "all"} /\ only = None /\ posts = {}
    BY DEF AccessInit
  <1>3. switches \in [ForwardedAddrs -> BOOLEAN \cup {None}] /\ heard \in [ForwardedAddrs -> BOOLEAN \cup {None}]
    BY DEF AccessInit, Fresh
  <1>4. gets \in Seq(Answers \cup {None}) /\ Len(gets) <= 2
    BY DEF AccessInit
  <1> QED
    BY <1>1, <1>2, <1>3, <1>4 DEF AccessTypeOK

LEMMA ElsewhereType ==
    ASSUME AccessTypeOK, Elsewhere
    PROVE  server' \in Answers
  <1>0. /\ server \in Answers /\ server.rules \in RuleLists
        /\ server.addrs \subseteq Addrs /\ server.follow \subseteq ForwardedAddrs
    BY DEF AccessTypeOK, Answers
  <1>1. CASE server.rules # <<>> /\ server' = [server EXCEPT !.rules = Tail(@)]
    <2>1. Tail(server.rules) \in RuleLists
      BY <1>0, <1>1, RulesLess
    <2> QED
      BY <1>0, <1>1, <2>1 DEF Answers
  <1>2. ASSUME NEW a \in ForwardedAddrs \cap server.addrs, server' = [server EXCEPT !.follow = Toggled(@, a)]
        PROVE  server' \in Answers
    <2>1. Toggled(server.follow, a) \subseteq ForwardedAddrs
      BY <1>0 DEF Toggled
    <2> QED
      BY <1>0, <1>2, <2>1 DEF Answers
  <1>3. ASSUME NEW a \in ForwardedAddrs, server' = [server EXCEPT !.addrs = Toggled(@, a)]
        PROVE  server' \in Answers
    <2>1. Toggled(server.addrs, a) \subseteq Addrs
      BY <1>0 DEF Toggled, Addrs
    <2> QED
      BY <1>0, <1>3, <2>1 DEF Answers
  <1> QED
    BY <1>1, <1>2, <1>3 DEF Elsewhere

LEMMA AnswersQueue ==
    ASSUME AccessTypeOK
    PROVE  /\ Len(gets) < 2 => Append(gets, None) \in Seq(Answers \cup {None}) /\ Len(Append(gets, None)) <= 2
           /\ \A i \in DOMAIN gets :
                /\ gets[i] \in Answers \cup {None}
                /\ Without(gets, i) \in Seq(Answers \cup {None}) /\ Len(Without(gets, i)) <= 2
                /\ [gets EXCEPT ![i] = server] \in Seq(Answers \cup {None}) /\ Len([gets EXCEPT ![i] = server]) <= 2
  <1>1. gets \in Seq(Answers \cup {None}) /\ Len(gets) \in Nat /\ Len(gets) <= 2 /\ server \in Answers \cup {None}
    BY DEF AccessTypeOK
  <1>2. Len(gets) < 2 => Append(gets, None) \in Seq(Answers \cup {None}) /\ Len(Append(gets, None)) <= 2
    BY <1>1, AppendProperties
  <1>3. ASSUME NEW i \in DOMAIN gets
        PROVE  /\ gets[i] \in Answers \cup {None}
               /\ Without(gets, i) \in Seq(Answers \cup {None}) /\ Len(Without(gets, i)) <= 2
    <2>1. Without(gets, i) \in Seq(Answers \cup {None}) /\ Len(Without(gets, i)) = Len(gets) - 1
      BY <1>1, OneLess DEF Without
    <2> QED
      BY <1>1, <2>1
  <1>4. ASSUME NEW i \in DOMAIN gets
        PROVE  [gets EXCEPT ![i] = server] \in Seq(Answers \cup {None}) /\ Len([gets EXCEPT ![i] = server]) <= 2
    <2>1. i \in 1..Len(gets)
      BY <1>1
    <2> QED
      BY <1>1, <2>1, ExceptSeq
  <1> QED
    BY <1>2, <1>3, <1>4

LEMMA AccessTypeStep ==
    ASSUME AccessTypeOK, AccessNext
    PROVE  AccessTypeOK'
  <1> USE AnswersQueue
  <1>1. ASSUME LoadPorts PROVE AccessTypeOK'
    BY <1>1 DEF LoadPorts, AccessTypeOK
  <1>2. ASSUME Elsewhere PROVE AccessTypeOK'
    BY <1>2, ElsewhereType DEF Elsewhere, AccessTypeOK
  <1>3. ASSUME NEW i \in DOMAIN gets, Serve(i) PROVE AccessTypeOK'
    BY <1>3 DEF Serve, AccessTypeOK
  <1>4. ASSUME NEW i \in DOMAIN gets, PortsCome(i) PROVE AccessTypeOK'
    <2>1. gets[i] \in Answers /\ Draw(gets[i], scope, only)
      BY <1>4 DEF PortsCome
    <2>2. /\ list' \subseteq Listeners
          /\ switches' \in [ForwardedAddrs -> BOOLEAN \cup {None}]
          /\ heard' \in [ForwardedAddrs -> BOOLEAN \cup {None}]
          /\ posts' \subseteq [ip : ForwardedAddrs, on : BOOLEAN, attached : BOOLEAN,
                               served : {"no", "yes", "refused"}]
      BY <2>1, DrawnType
    <2> QED
      BY <1>4, <2>1, <2>2 DEF PortsCome, AccessTypeOK
  <1>5. ASSUME NEW i \in DOMAIN gets, PortsFail(i) PROVE AccessTypeOK'
    BY <1>5 DEF PortsFail, AccessTypeOK
  <1>6. ASSUME NEW sc \in {"public", "all"}, PickScope(sc) PROVE AccessTypeOK'
    <2>1. page \in Answers /\ Draw(page, sc, only)
      BY <1>6 DEF PickScope, AccessTypeOK
    <2>2. /\ list' \subseteq Listeners
          /\ switches' \in [ForwardedAddrs -> BOOLEAN \cup {None}]
          /\ heard' \in [ForwardedAddrs -> BOOLEAN \cup {None}]
          /\ posts' \subseteq [ip : ForwardedAddrs, on : BOOLEAN, attached : BOOLEAN,
                               served : {"no", "yes", "refused"}]
      BY <2>1, DrawnType
    <2> QED
      BY <1>6, <2>2 DEF PickScope, AccessTypeOK
  <1>7. ASSUME NEW a \in Addrs, PickAddr(a) PROVE AccessTypeOK'
    <2>1. page \in Answers /\ Draw(page, scope', only')
      BY <1>7 DEF PickAddr, AccessTypeOK
    <2>2. /\ list' \subseteq Listeners
          /\ switches' \in [ForwardedAddrs -> BOOLEAN \cup {None}]
          /\ heard' \in [ForwardedAddrs -> BOOLEAN \cup {None}]
          /\ posts' \subseteq [ip : ForwardedAddrs, on : BOOLEAN, attached : BOOLEAN,
                               served : {"no", "yes", "refused"}]
      BY <2>1, DrawnType
    <2>3. only' \in Addrs \cup {None} /\ scope' \in {"public", "all"}
      BY <1>7 DEF PickAddr, AccessTypeOK
    <2> QED
      BY <1>7, <2>2, <2>3 DEF PickAddr, AccessTypeOK
  <1>8. ASSUME NEW a \in Addrs, SetFollow(a) PROVE AccessTypeOK'
    <2>1. a \in ForwardedAddrs /\ switches[a] \in BOOLEAN
      BY <1>8 DEF SetFollow, AccessTypeOK
    <2>2. PICK on \in BOOLEAN : on = ~switches[a]
      BY <2>1
    <2> PICK q : q = [ip |-> a, on |-> on, attached |-> TRUE, served |-> "no"]
      OBVIOUS
    <2>3. posts' = posts \cup {q} /\ switches' = [switches EXCEPT ![a] = on]
      BY <1>8, <2>2 DEF SetFollow
    <2>6. q \in [ip : ForwardedAddrs, on : BOOLEAN, attached : BOOLEAN, served : {"no", "yes", "refused"}]
      BY <2>1
    <2>4. switches' \in [ForwardedAddrs -> BOOLEAN \cup {None}]
      BY <2>1, <2>3 DEF AccessTypeOK
    <2>5. posts' \subseteq [ip : ForwardedAddrs, on : BOOLEAN, attached : BOOLEAN,
                            served : {"no", "yes", "refused"}]
      BY <2>3, <2>6 DEF AccessTypeOK
    <2> QED
      BY <1>8, <2>4, <2>5 DEF SetFollow, AccessTypeOK
  <1>9. ASSUME NEW p \in posts, NEW ok \in BOOLEAN, ServeFollow(p, ok) PROVE AccessTypeOK'
    <2>0. p \in [ip : ForwardedAddrs, on : BOOLEAN, attached : BOOLEAN, served : {"no", "yes", "refused"}]
      BY DEF AccessTypeOK
    <2>1. PICK q : q = [p EXCEPT !.served = IF ok THEN "yes" ELSE "refused"]
      OBVIOUS
    <2>2. q \in [ip : ForwardedAddrs, on : BOOLEAN, attached : BOOLEAN, served : {"no", "yes", "refused"}]
      BY <2>0, <2>1
    <2>3. posts' = (posts \ {p}) \cup {q}
      BY <1>9, <2>1 DEF ServeFollow
    <2>4. server' \in Answers
      BY <1>9, <2>0 DEF ServeFollow, AccessTypeOK, Answers
    <2> QED
      BY <1>9, <2>2, <2>3, <2>4 DEF ServeFollow, AccessTypeOK
  <1>10. ASSUME NEW p \in posts, FollowAnswered(p) PROVE AccessTypeOK'
    <2>0. p.ip \in ForwardedAddrs /\ p.on \in BOOLEAN /\ p.attached \in BOOLEAN
      BY DEF AccessTypeOK
    <2>1. PICK off \in BOOLEAN : off = ~p.on
      BY <2>0
    <2>2. switches' \in [ForwardedAddrs -> BOOLEAN \cup {None}]
      BY <1>10, <2>0, <2>1 DEF FollowAnswered, SwitchBack, AccessTypeOK
    <2>3. heard' \in [ForwardedAddrs -> BOOLEAN \cup {None}]
      BY <1>10, <2>0 DEF FollowAnswered, AccessTypeOK
    <2> QED
      BY <1>10, <2>2, <2>3 DEF FollowAnswered, AccessTypeOK
  <1> QED
    BY <1>1, <1>2, <1>3, <1>4, <1>5, <1>6, <1>7, <1>8, <1>9, <1>10 DEF AccessNext

LEMMA SwitchesInit == AccessInit => SwitchesInv
  BY AccessTypeInit DEF AccessInit, SwitchesInv, OneWaits, AsClicked, SwitchesDrawn

\* Steps that touch no switch, no request for one and not what was told.
LEMMA SwitchesKept ==
    ASSUME SwitchesInv, UNCHANGED <<page, switches, heard, posts>>
    PROVE  OneWaits' /\ AsClicked' /\ (SwitchesDrawn' => (WouldReturn /\ SwitchAtRest)')
  BY DEF SwitchesInv, OneWaits, AsClicked, SwitchesDrawn, TableHidden, WouldReturn, SwitchAtRest, Told

LEMMA SetFollowKeeps ==
    ASSUME SwitchesInv, NEW a, SetFollow(a)
    PROVE  OneWaits' /\ AsClicked' /\ (SwitchesDrawn' => (WouldReturn /\ SwitchAtRest)')
  <1>1. /\ a \in ForwardedAddrs /\ switches[a] # None /\ SwitchesDrawn /\ SwitchesDrawn'
        /\ UNCHANGED <<page, heard>>
        /\ switches \in [ForwardedAddrs -> BOOLEAN \cup {None}]
    BY DEF SetFollow, SwitchesInv, AccessTypeOK, SwitchesDrawn, TableHidden
  <1>2. ~\E p \in posts : p.ip = a /\ p.attached
    BY DEF SetFollow
  <1>3. PICK on \in BOOLEAN : on = ~switches[a]
    BY <1>1
  <1> PICK q : q = [ip |-> a, on |-> on, attached |-> TRUE, served |-> "no"]
    OBVIOUS
  <1>4. posts' = posts \cup {q} /\ switches' = [switches EXCEPT ![a] = on]
    BY <1>3 DEF SetFollow
  <1>5. q.ip = a /\ q.on = on /\ q.attached
    OBVIOUS
  <1>6. switches[a] = Told(a)
    BY <1>1, <1>2 DEF SwitchesInv, SwitchAtRest
  <1>7. \A b : Told(b)' = Told(b)
    BY <1>1 DEF Told
  <1>8. switches'[a] = on /\ \A b \in ForwardedAddrs \ {a} : switches'[b] = switches[b]
    BY <1>1, <1>4
  <1>9. \A p \in posts : p.ip \in ForwardedAddrs
    BY DEF SwitchesInv, AccessTypeOK
  <1>10. OneWaits'
    <2> SUFFICES ASSUME NEW p \in posts', NEW r \in posts', p.attached, r.attached, p.ip = r.ip
                 PROVE  p = r
      BY DEF OneWaits
    <2>1. CASE p \in posts /\ r \in posts
      BY <2>1 DEF SwitchesInv, OneWaits
    <2>2. CASE p \notin posts \/ r \notin posts
      BY <1>2, <1>4, <1>5, <2>2
    <2> QED
      BY <2>1, <2>2
  <1>11. AsClicked'
    BY <1>2, <1>4, <1>5, <1>8, <1>9 DEF SwitchesInv, AsClicked
  <1>12. Told(a) \in BOOLEAN \ {on}
    <2>1. switches[a] \in BOOLEAN
      BY <1>1
    <2>2. switches[a] # on
      BY <1>3, <2>1
    <2> QED
      BY <1>6, <2>1, <2>2
  <1>13. WouldReturn'
    BY <1>1, <1>4, <1>5, <1>7, <1>12 DEF SwitchesInv, WouldReturn
  <1>14. SwitchAtRest'
    BY <1>1, <1>4, <1>5, <1>7, <1>8 DEF SwitchesInv, SwitchAtRest
  <1> QED
    BY <1>10, <1>11, <1>13, <1>14

LEMMA ServeFollowKeeps ==
    ASSUME SwitchesInv, NEW p \in posts, NEW ok \in BOOLEAN, ServeFollow(p, ok)
    PROVE  OneWaits' /\ AsClicked' /\ (SwitchesDrawn' => (WouldReturn /\ SwitchAtRest)')
  <1> PICK q : q = [p EXCEPT !.served = IF ok THEN "yes" ELSE "refused"]
    OBVIOUS
  <1>1. posts' = (posts \ {p}) \cup {q} /\ UNCHANGED <<page, switches, heard>>
    BY DEF ServeFollow
  <1>2. p \in [ip : ForwardedAddrs, on : BOOLEAN, attached : BOOLEAN, served : {"no", "yes", "refused"}]
    BY DEF SwitchesInv, AccessTypeOK
  <1>3. q.ip = p.ip /\ q.on = p.on /\ q.attached = p.attached
    BY <1>2
  <1>4. \A b : Told(b)' = Told(b)
    BY <1>1 DEF Told
  <1>5. SwitchesDrawn' = SwitchesDrawn
    BY <1>1 DEF SwitchesDrawn, TableHidden
  <1>6. ASSUME NEW r \in posts', r.attached
        PROVE  \E s \in posts : s.attached /\ s.ip = r.ip /\ s.on = r.on /\ (r # q => s = r) /\ (r = q => s = p)
    BY <1>1, <1>3, <1>6
  <1>7. OneWaits'
    <2> SUFFICES ASSUME NEW r \in posts', NEW s \in posts', r.attached, s.attached, r.ip = s.ip
                 PROVE  r = s
      BY DEF OneWaits
    <2>1. CASE r = q \/ s = q
      BY <1>1, <1>3, <2>1 DEF SwitchesInv, OneWaits
    <2>2. CASE r # q /\ s # q
      BY <1>1, <2>2 DEF SwitchesInv, OneWaits
    <2> QED
      BY <2>1, <2>2
  <1>9. AsClicked'
    BY <1>1, <1>6 DEF SwitchesInv, AsClicked
  <1>10. ASSUME WouldReturn, NEW r \in posts', r.attached
         PROVE  (Told(r.ip) \in BOOLEAN \ {r.on})'
    <2>1. PICK s \in posts : s.attached /\ s.ip = r.ip /\ s.on = r.on
      BY <1>6, <1>10
    <2>2. Told(s.ip) \in BOOLEAN \ {s.on}
      BY <1>10, <2>1 DEF WouldReturn
    <2> QED
      BY <1>4, <2>1, <2>2
  <1>11. WouldReturn => WouldReturn'
    BY <1>10 DEF WouldReturn
  <1>8. SwitchAtRest => SwitchAtRest'
    BY <1>1, <1>3, <1>4 DEF SwitchAtRest
  <1> QED
    BY <1>5, <1>7, <1>8, <1>9, <1>11 DEF SwitchesInv

LEMMA FollowAnsweredKeeps ==
    ASSUME SwitchesInv, NEW p \in posts, FollowAnswered(p)
    PROVE  OneWaits' /\ AsClicked' /\ (SwitchesDrawn' => (WouldReturn /\ SwitchAtRest)')
  <1>1. posts' = posts \ {p} /\ UNCHANGED page
    BY DEF FollowAnswered
  <1>2. /\ p.ip \in ForwardedAddrs /\ p.on \in BOOLEAN /\ p.attached \in BOOLEAN /\ p.on # None
        /\ switches \in [ForwardedAddrs -> BOOLEAN \cup {None}]
        /\ heard \in [ForwardedAddrs -> BOOLEAN \cup {None}]
    BY AccessAssumption DEF SwitchesInv, AccessTypeOK
  <1>3. SwitchesDrawn' = SwitchesDrawn
    BY <1>1 DEF SwitchesDrawn, TableHidden
  <1>4. OneWaits'
    BY <1>1 DEF SwitchesInv, OneWaits
  <1>5. CASE ~p.attached
    <2>1. UNCHANGED <<switches, heard>>
      BY <1>2, <1>5 DEF FollowAnswered, SwitchBack
    <2>2. \A b : Told(b)' = Told(b)
      BY <1>1, <2>1 DEF Told
    <2>3. AsClicked' /\ (WouldReturn => WouldReturn') /\ (SwitchAtRest => SwitchAtRest')
      BY <1>1, <1>5, <2>1, <2>2 DEF SwitchesInv, AsClicked, WouldReturn, SwitchAtRest
    <2> QED
      BY <1>3, <1>4, <2>3 DEF SwitchesInv
  <1>6. CASE p.attached
    <2>1. \A r \in posts' : r.attached => r.ip # p.ip /\ r.ip \in ForwardedAddrs
      BY <1>1, <1>6 DEF SwitchesInv, OneWaits, AccessTypeOK
    <2>2. \A b \in ForwardedAddrs \ {p.ip} : switches'[b] = switches[b] /\ heard'[b] = heard[b]
      BY <1>2, <1>6 DEF FollowAnswered, SwitchBack
    <2>3. \A b \in ForwardedAddrs \ {p.ip} : Told(b)' = Told(b)
      BY <1>1, <2>2 DEF Told
    <2>4. AsClicked'
      BY <1>1, <2>1, <2>2 DEF SwitchesInv, AsClicked
    <2>5. WouldReturn => WouldReturn'
      BY <1>1, <2>1, <2>3 DEF WouldReturn
    <2>6. SwitchesDrawn => switches'[p.ip] = Told(p.ip)'
      <3>1. CASE p.served = "yes"
        <4>1. switches' = switches /\ heard' = [heard EXCEPT ![p.ip] = p.on]
          BY <1>6, <3>1 DEF FollowAnswered
        <4>2. heard'[p.ip] = p.on
          BY <1>2, <4>1
        <4> QED
          BY <1>2, <1>6, <4>1, <4>2 DEF SwitchesInv, AsClicked, Told
      <3>2. CASE p.served # "yes"
        <4>1. PICK off \in BOOLEAN : off = ~p.on
          BY <1>2
        <4>2. switches' = [switches EXCEPT ![p.ip] = off] /\ heard' = heard
          BY <1>6, <3>2, <4>1 DEF FollowAnswered, SwitchBack
        <4>3. switches'[p.ip] = off
          BY <1>2, <4>2
        <4>4. Told(p.ip)' = Told(p.ip)
          BY <1>1, <4>2 DEF Told
        <4>5. SwitchesDrawn => off = Told(p.ip)
          <5>1. SwitchesDrawn => Told(p.ip) \in BOOLEAN \ {p.on}
            BY <1>6 DEF SwitchesInv, WouldReturn
          <5>2. off \in BOOLEAN \ {p.on}
            BY <1>2, <4>1
          <5> QED
            BY <1>2, <5>1, <5>2
        <4> QED
          BY <4>3, <4>4, <4>5
      <3> QED
        BY <3>1, <3>2
    <2>7. SwitchesDrawn /\ SwitchAtRest => SwitchAtRest'
      BY <1>1, <2>2, <2>3, <2>6 DEF SwitchAtRest
    <2> QED
      BY <1>3, <1>4, <2>4, <2>5, <2>7 DEF SwitchesInv
  <1> QED
    BY <1>2, <1>5, <1>6

LEMMA SwitchesNext ==
    ASSUME SwitchesInv, [AccessNext]_access_vars
    PROVE  SwitchesInv'
  <1>0. AccessTypeOK'
    <2>1. CASE AccessNext
      BY <2>1, AccessTypeStep DEF SwitchesInv
    <2>2. CASE UNCHANGED access_vars
      BY <2>2 DEF SwitchesInv, AccessTypeOK, access_vars
    <2> QED
      BY <2>1, <2>2
  <1> SUFFICES OneWaits' /\ AsClicked' /\ (SwitchesDrawn' => (WouldReturn /\ SwitchAtRest)')
    BY <1>0 DEF SwitchesInv
  <1>1. CASE UNCHANGED <<page, switches, heard, posts>>
    BY <1>1, SwitchesKept
  <1>2. ASSUME NEW i \in DOMAIN gets, PortsCome(i)
        PROVE  OneWaits' /\ AsClicked' /\ (SwitchesDrawn' => (WouldReturn /\ SwitchAtRest)')
    <2>1. gets[i] \in Answers /\ gets[i] # None /\ page' = gets[i] /\ Draw(gets[i], scope, only)
      BY <1>2, AnswersQueue DEF PortsCome, SwitchesInv
    <2> QED
      BY <2>1, DrawnAnew
  <1>3. ASSUME NEW sc, PickScope(sc)
        PROVE  OneWaits' /\ AsClicked' /\ (SwitchesDrawn' => (WouldReturn /\ SwitchAtRest)')
    <2>1. page \in Answers /\ page # None /\ page' = page /\ Draw(page, sc, only)
      BY <1>3 DEF PickScope, SwitchesInv, AccessTypeOK
    <2> QED
      BY <2>1, DrawnAnew
  <1>4. ASSUME NEW a, PickAddr(a)
        PROVE  OneWaits' /\ AsClicked' /\ (SwitchesDrawn' => (WouldReturn /\ SwitchAtRest)')
    <2>1. page \in Answers /\ page # None /\ page' = page /\ Draw(page, scope', only')
      BY <1>4 DEF PickAddr, SwitchesInv, AccessTypeOK
    <2> QED
      BY <2>1, DrawnAnew
  <1>5. CASE LoadPorts \/ Elsewhere \/ \E i \in DOMAIN gets : Serve(i) \/ PortsFail(i)
    BY <1>1, <1>5 DEF LoadPorts, Elsewhere, Serve, PortsFail
  <1> QED
    BY <1>1, <1>2, <1>3, <1>4, <1>5, SetFollowKeeps, ServeFollowKeeps, FollowAnsweredKeeps DEF AccessNext, access_vars

LEMMA SwitchesTrue == SwitchesInv => SwitchesHonest
  BY DEF SwitchesInv, SwitchesHonest, SwitchesDrawn, SwitchAtRest, Told

\* A switch nobody is waiting for stands where the server was last heard to have
\* it, in whatever order answers, refusals and redraws come (setFollow,
\* renderPorts).
THEOREM SwitchesHold == AccessSpec => []SwitchesHonest
  BY SwitchesInit, SwitchesNext, SwitchesTrue, PTL DEF AccessSpec

-----------------------------------------------------------------------------
(* Access: what the ports screen claims.  What the loop over the list of   *)
(* rules finds is proved by induction over the list; the induction is that *)
(* of WellFoundedInduction, on sets.                                       *)

LEMMA LeastIs ==
    ASSUME NEW T, T \subseteq Nat, T # {}
    PROVE  \E x \in T : \A y \in T : x <= y
  <1> DEFINE R == {ss \in Nat \X Nat : ss[1] < ss[2]}
  <1>1. IsWellFoundedOn(R, Nat)
    BY NatLessThanWellFounded DEF OpToRel
  <1>2. PICK x \in T : \A y \in T : ~(<<y, x>> \in R)
    <2> HIDE DEF R
    <2> QED
      BY <1>1, WFMin
  <1>3. ASSUME NEW y \in T PROVE x <= y
    <2>1. ~(y < x)
      BY <1>2
    <2> QED
      BY <2>1
  <1> QED
    BY <1>2, <1>3

LEMMA Induction ==
    ASSUME NEW T, 0 \in T, \A n \in Nat : n \in T => n + 1 \in T
    PROVE  Nat \subseteq T
  <1> SUFFICES ASSUME Nat \ T # {} PROVE FALSE
    OBVIOUS
  <1>1. PICK x \in Nat \ T : \A y \in Nat \ T : x <= y
    BY LeastIs
  <1>2. x # 0 /\ x - 1 \in Nat
    BY <1>1
  <1>3. x - 1 \in T
    BY <1>1, <1>2
  <1>4. (x - 1) + 1 \in T
    BY <1>2, <1>3
  <1> QED
    BY <1>1, <1>2, <1>4

LEMMA ListInduction ==
    ASSUME NEW S, NEW T, <<>> \in T, \A s \in Seq(S), e \in S : s \in T => Append(s, e) \in T
    PROVE  Seq(S) \subseteq T
  <1> DEFINE N == {n \in Nat : \A s \in Seq(S) : Len(s) = n => s \in T}
  <1>1. 0 \in N
    <2>1. ASSUME NEW s \in Seq(S), Len(s) = 0 PROVE s \in T
      BY <2>1, EmptySeq
    <2> QED
      BY <2>1
  <1>2. ASSUME NEW n \in Nat, n \in N PROVE n + 1 \in N
    <2>1. ASSUME NEW s \in Seq(S), Len(s) = n + 1 PROVE s \in T
      <3>1. s # <<>>
        BY <1>2, <2>1, EmptySeq
      <3>2. PICK t \in Seq(S), e \in S : s = Append(t, e)
        BY <3>1, SequenceEmptyOrAppend
      <3>3. Len(t) = n
        BY <1>2, <2>1, <3>2, AppendProperties, LenProperties
      <3> QED
        BY <1>2, <3>2, <3>3
    <2> QED
      BY <2>1
  <1>3. Nat \subseteq N
    <2> HIDE DEF N
    <2> QED
      BY <1>1, <1>2, Induction
  <1> QED
    BY <1>3, LenProperties

\* The covering rules, one after the other.
IsKept(f, s, port, host) ==
    f = [i \in 0..Len(s) |-> IF i = 0 THEN <<>>
                             ELSE IF Guards(s[i], port, host) THEN Append(f[i - 1], s[i]) ELSE f[i - 1]]

LEMMA KeptStep ==
    ASSUME NEW S, NEW s \in Seq(S), NEW e \in S, NEW port, NEW host, NEW f, IsKept(f, s, port, host),
           NEW g, g = [i \in 0..(Len(s) + 1) |-> IF i <= Len(s) THEN f[i]
                                                 ELSE IF Guards(e, port, host) THEN Append(f[Len(s)], e) ELSE f[Len(s)]]
    PROVE  IsKept(g, Append(s, e), port, host)
  <1> DEFINE t == Append(s, e)
             n == Len(s)
  <1>1. n \in Nat /\ Len(t) = n + 1 /\ t[n + 1] = e /\ \A i \in 1..n : t[i] = s[i]
    BY LenProperties, AppendProperties
  <1>2. /\ f[0] = <<>>
        /\ \A i \in 1..n : f[i] = IF Guards(s[i], port, host) THEN Append(f[i - 1], s[i]) ELSE f[i - 1]
    <2>1. \A i \in 0..n : f[i] = IF i = 0 THEN <<>>
                                 ELSE IF Guards(s[i], port, host) THEN Append(f[i - 1], s[i]) ELSE f[i - 1]
      BY Zenon DEF IsKept
    <2> QED
      BY <1>1, <2>1
  <1> HIDE DEF t, n
  <1>3. g[0] = <<>> /\ g[n + 1] = (IF Guards(e, port, host) THEN Append(f[n], e) ELSE f[n]) /\ \A i \in 0..n : g[i] = f[i]
    BY <1>1, <1>2 DEF n
  <1>4. ASSUME NEW i \in 0..(n + 1)
        PROVE  g[i] = IF i = 0 THEN <<>> ELSE IF Guards(t[i], port, host) THEN Append(g[i - 1], t[i]) ELSE g[i - 1]
    <2>1. CASE i = 0
      BY <1>3, <2>1
    <2>2. CASE i \in 1..n
      <3>1. i # 0 /\ i - 1 \in 0..n /\ i \in 0..n
        BY <1>1, <2>2
      <3> QED
        BY <1>1, <1>2, <1>3, <2>2, <3>1, Zenon
    <2>3. CASE i = n + 1
      <3>1. i # 0 /\ i - 1 = n /\ n \in 0..n
        BY <1>1, <2>3
      <3> QED
        BY <1>1, <1>3, <2>3, <3>1, Zenon
    <2> QED
      BY <1>1, <2>1, <2>2, <2>3
  <1>5. g = [i \in 0..(n + 1) |-> g[i]]
    BY DEF n
  <1>6. g = [i \in 0..(n + 1) |-> IF i = 0 THEN <<>>
                                  ELSE IF Guards(t[i], port, host) THEN Append(g[i - 1], t[i]) ELSE g[i - 1]]
    BY <1>4, <1>5, Zenon
  <1> QED
    BY <1>1, <1>6 DEF IsKept, t

LEMMA KeptExists ==
    ASSUME NEW S, NEW port, NEW host
    PROVE  \A s \in Seq(S) : \E f : IsKept(f, s, port, host)
  <1> DEFINE T == {s \in Seq(S) : \E f : IsKept(f, s, port, host)}
  <1>1. <<>> \in T
    <2>1. Len(<<>>) = 0 /\ <<>> \in Seq(S)
      BY EmptySeq
    <2> DEFINE f == [i \in 0..0 |-> <<>>]
    <2>2. f = [i \in 0..0 |-> IF i = 0 THEN <<>>
                              ELSE IF Guards(<<>>[i], port, host) THEN Append(f[i - 1], <<>>[i]) ELSE f[i - 1]]
      <3>1. \A i \in 0..0 : i = 0
        OBVIOUS
      <3> QED
        BY <3>1, Zenon
    <2>3. IsKept(f, <<>>, port, host)
      BY <2>1, <2>2 DEF IsKept
    <2> QED
      BY <2>1, <2>3
  <1>2. ASSUME NEW s \in Seq(S), NEW e \in S, s \in T PROVE Append(s, e) \in T
    <2>1. PICK f : IsKept(f, s, port, host)
      BY <1>2
    <2>2. \E g : IsKept(g, Append(s, e), port, host)
      BY <2>1, KeptStep
    <2> QED
      BY <2>2, AppendProperties
  <1> HIDE DEF T
  <1>3. Seq(S) \subseteq T
    BY <1>1, <1>2, ListInduction
  <1> QED
    BY <1>3 DEF T

\* Two ways to keep agree on the prefix the lists share.
LEMMA KeptAgree ==
    ASSUME NEW s, NEW t, NEW port, NEW host, NEW f, NEW g, IsKept(f, s, port, host), IsKept(g, t, port, host),
           Len(s) \in Nat, Len(t) \in Nat, NEW n \in Nat, n <= Len(s), n <= Len(t),
           \A i \in 1..n : s[i] = t[i]
    PROVE  f[n] = g[n]
  <1> DEFINE T == {k \in Nat : k <= n => f[k] = g[k]}
  <1>1. \A i \in 0..Len(s) : f[i] = IF i = 0 THEN <<>>
                                    ELSE IF Guards(s[i], port, host) THEN Append(f[i - 1], s[i]) ELSE f[i - 1]
    BY Zenon DEF IsKept
  <1>2. \A i \in 0..Len(t) : g[i] = IF i = 0 THEN <<>>
                                    ELSE IF Guards(t[i], port, host) THEN Append(g[i - 1], t[i]) ELSE g[i - 1]
    BY Zenon DEF IsKept
  <1>3. 0 \in T
    BY <1>1, <1>2
  <1>4. ASSUME NEW k \in Nat, k \in T PROVE k + 1 \in T
    <2> SUFFICES ASSUME k + 1 <= n PROVE f[k + 1] = g[k + 1]
      OBVIOUS
    <2>1. f[k] = g[k] /\ s[k + 1] = t[k + 1] /\ k + 1 # 0 /\ (k + 1) - 1 = k
      BY <1>4
    <2>2. k + 1 \in 0..Len(s) /\ k + 1 \in 0..Len(t)
      OBVIOUS
    <2>3. /\ f[k + 1] = IF Guards(s[k + 1], port, host) THEN Append(f[k], s[k + 1]) ELSE f[k]
          /\ g[k + 1] = IF Guards(t[k + 1], port, host) THEN Append(g[k], t[k + 1]) ELSE g[k]
      BY <1>1, <1>2, <2>1, <2>2
    <2>4. CASE Guards(s[k + 1], port, host)
      BY <2>1, <2>3, <2>4
    <2>5. CASE ~Guards(s[k + 1], port, host)
      BY <2>1, <2>3, <2>5
    <2> QED
      BY <2>4, <2>5
  <1> HIDE DEF T
  <1>5. n \in T
    BY <1>3, <1>4, Induction
  <1> QED
    BY <1>5 DEF T

LEMMA CoveringIs ==
    ASSUME NEW S, NEW s \in Seq(S), NEW port, NEW host
    PROVE  \E f : IsKept(f, s, port, host) /\ Covering(s, port, host) = f[Len(s)]
  <1> DEFINE f == CHOOSE g : IsKept(g, s, port, host)
  <1>1. \E g : IsKept(g, s, port, host)
    BY KeptExists
  <1>2. IsKept(f, s, port, host)
    BY <1>1, Zenon
  <1>3. Covering(s, port, host) = f[Len(s)]
    BY DEF Covering, IsKept
  <1> QED
    BY <1>2, <1>3


\* A rule that does not touch a protected port at the end changes nothing.
LEMMA CoveringAppend ==
    ASSUME NEW S, NEW s \in Seq(S), NEW e \in S, NEW port, NEW host, ~Guards(e, port, host)
    PROVE  Covering(Append(s, e), port, host) = Covering(s, port, host)
  <1>1. PICK n, t : n = Len(s) /\ t = Append(s, e)
    OBVIOUS
  <1>2. n \in Nat /\ t \in Seq(S) /\ Len(t) = n + 1 /\ t[n + 1] = e /\ \A i \in 1..n : s[i] = t[i]
    BY <1>1, LenProperties, AppendProperties
  <1>3. PICK f : IsKept(f, s, port, host) /\ Covering(s, port, host) = f[n]
    BY <1>1, CoveringIs
  <1>4. PICK g : IsKept(g, t, port, host) /\ Covering(t, port, host) = g[n + 1]
    BY <1>2, CoveringIs
  <1>5. g[n] = f[n]
    <2>1. Len(s) = n /\ Len(s) \in Nat /\ Len(t) \in Nat /\ n <= Len(s) /\ n <= Len(t)
      BY <1>1, <1>2
    <2> QED
      BY <1>2, <1>3, <1>4, <2>1, KeptAgree
  <1>6. \A i \in 0..Len(t) : g[i] = IF i = 0 THEN <<>>
                                    ELSE IF Guards(t[i], port, host) THEN Append(g[i - 1], t[i]) ELSE g[i - 1]
    BY <1>4, Zenon DEF IsKept
  <1>7. n + 1 \in 0..Len(t) /\ n + 1 # 0 /\ (n + 1) - 1 = n /\ ~Guards(t[n + 1], port, host)
    BY <1>2
  <1>8. g[n + 1] = g[n]
    BY <1>6, <1>7, Zenon
  <1> QED
    BY <1>1, <1>3, <1>4, <1>5, <1>8

\* What is kept are rules of the list.
LEMMA KeptTyped ==
    ASSUME NEW S, NEW s \in Seq(S), NEW port, NEW host, NEW f, IsKept(f, s, port, host)
    PROVE  f[Len(s)] \in Seq(S)
  <1> DEFINE n == Len(s)
             T == {k \in Nat : k <= n => f[k] \in Seq(S)}
  <1>1. n \in Nat /\ \A i \in 1..n : s[i] \in S
    BY LenProperties, ElementOfSeq
  <1>2. \A i \in 0..n : f[i] = IF i = 0 THEN <<>>
                               ELSE IF Guards(s[i], port, host) THEN Append(f[i - 1], s[i]) ELSE f[i - 1]
    BY Zenon DEF IsKept
  <1> HIDE DEF n
  <1>3. 0 \in T
    <2>1. f[0] = <<>>
      BY <1>1, <1>2
    <2>2. <<>> \in Seq(S)
      OBVIOUS
    <2> QED
      BY <2>1, <2>2
  <1>4. ASSUME NEW k \in Nat, k \in T PROVE k + 1 \in T
    <2> SUFFICES ASSUME k + 1 <= n PROVE f[k + 1] \in Seq(S)
      OBVIOUS
    <2>1. f[k] \in Seq(S) /\ s[k + 1] \in S /\ k + 1 # 0 /\ (k + 1) - 1 = k /\ k + 1 \in 0..n
      BY <1>1, <1>4
    <2>2. f[k + 1] = IF Guards(s[k + 1], port, host) THEN Append(f[k], s[k + 1]) ELSE f[k]
      BY <1>2, <2>1
    <2>3. Append(f[k], s[k + 1]) \in Seq(S)
      BY <2>1, AppendProperties
    <2> QED
      BY <2>1, <2>2, <2>3
  <1>5. n \in T
    <2> HIDE DEF T
    <2> QED
      BY <1>1, <1>3, <1>4, Induction
  <1> QED
    BY <1>1, <1>5 DEF n

\* One that does is kept behind the others.
LEMMA CoveringGrows ==
    ASSUME NEW S, NEW s \in Seq(S), NEW e \in S, NEW port, NEW host, Guards(e, port, host)
    PROVE  Covering(Append(s, e), port, host) \notin {<<>>, Covering(s, port, host)}
  <1>1. PICK n, t : n = Len(s) /\ t = Append(s, e)
    OBVIOUS
  <1>2. n \in Nat /\ t \in Seq(S) /\ Len(t) = n + 1 /\ t[n + 1] = e /\ \A i \in 1..n : s[i] = t[i]
    BY <1>1, LenProperties, AppendProperties
  <1>3. PICK f : IsKept(f, s, port, host) /\ Covering(s, port, host) = f[n]
    BY <1>1, CoveringIs
  <1>4. PICK g : IsKept(g, t, port, host) /\ Covering(t, port, host) = g[n + 1]
    BY <1>2, CoveringIs
  <1>5. g[n] = f[n]
    <2>1. Len(s) = n /\ Len(s) \in Nat /\ Len(t) \in Nat /\ n <= Len(s) /\ n <= Len(t)
      BY <1>1, <1>2
    <2> QED
      BY <1>2, <1>3, <1>4, <2>1, KeptAgree
  <1>6. \A i \in 0..Len(t) : g[i] = IF i = 0 THEN <<>>
                                    ELSE IF Guards(t[i], port, host) THEN Append(g[i - 1], t[i]) ELSE g[i - 1]
    BY <1>4, Zenon DEF IsKept
  <1>7. n + 1 \in 0..Len(t) /\ n + 1 # 0 /\ (n + 1) - 1 = n /\ Guards(t[n + 1], port, host)
    BY <1>2
  <1>8. g[n + 1] = Append(g[n], e)
    BY <1>2, <1>6, <1>7, Zenon
  <1>9. PICK c \in Seq(S) : c = f[n]
    BY <1>1, <1>3, KeptTyped
  <1>10. Append(c, e) # <<>> /\ Append(c, e) # c
    <2>1. PICK d : d = Append(c, e)
      OBVIOUS
    <2>2. Len(d) = Len(c) + 1 /\ Len(c) \in Nat
      BY <2>1, <1>9, AppendProperties, LenProperties
    <2>3. Len(<<>>) = 0
      OBVIOUS
    <2>4. CASE d = c
      BY <2>2, <2>4
    <2>5. CASE d = <<>>
      BY <2>2, <2>3, <2>5
    <2> QED
      BY <2>1, <2>4, <2>5
  <1> QED
    BY <1>1, <1>3, <1>4, <1>5, <1>8, <1>9, <1>10

\* What has a match on an address that the port is open on applies there, as far
\* as the page can tell.
LEMMA MatchApplies ==
    ASSUME NEW d \in Answers, NEW l \in Listed(d), NEW a \in Reached(d, l), NEW i \in DOMAIN d.rules,
           Matches(d.rules[i], a, l.port, l.proto, d.follow)
    PROVE  i \in rulesFor(d, l)
  <1> DEFINE r == d.rules[i]
  <1>1. a \in d.addrs /\ a \in Addrs /\ listenerOn(l, a) /\ l \in Listeners
    BY DEF Reached, Answers, Listed
  <1>2. l.address = None => a \in d.addrs \cap HostAddrs
    BY <1>1 DEF listenerOn
  <1>3. l.address # None => l.address = a /\ a \in ForwardedAddrs /\ a \notin HostAddrs
    BY <1>1, AccessAssumption DEF listenerOn
  <1>4. ASSUME NEW n, n = a \/ (n \in Networks /\ a \in Within[n])
        PROVE  ipCovers(n, a)
    BY <1>1, <1>4, AccessAssumption DEF ipCovers
  <1>5. r.addresses # {} => \E n \in r.addresses : ipCovers(n, a)
    BY <1>4 DEF Matches, Names
  <1>6. r.addresses = {} => a \in HostAddrs \cup d.follow
    BY DEF Matches
  <1>7. appliesTo(d, r, l)
    BY <1>1, <1>2, <1>3, <1>5, <1>6 DEF appliesTo
  <1> QED
    BY <1>7 DEF rulesFor, Matches

\* The first of some rules, and there is one.
FirstOf(d, S, i) == i \in S /\ \A j \in S \ {i} : Precedes(d, i, j)

LEMMA FirstExists ==
    ASSUME NEW d, NEW S, S \subseteq Nat, S # {}
    PROVE  \E i \in S : FirstOf(d, S, i)
  <1> DEFINE T == {k \in S : d.rules[k].addresses # {}}
             U == IF T # {} THEN T ELSE S
  <1>1. U \subseteq Nat /\ U # {} /\ U \subseteq S
    OBVIOUS
  <1>2. PICK i \in U : \A j \in U : i <= j
    BY <1>1, LeastIs
  <1>3. ASSUME NEW j \in S, j # i
        PROVE  Precedes(d, i, j)
    <2>1. CASE T # {}
      <3>1. d.rules[i].addresses # {}
        BY <2>1
      <3>2. CASE d.rules[j].addresses # {}
        <4>1. j \in U
          BY <2>1, <3>2
        <4>2. i < j
          BY <1>1, <1>2, <1>3, <4>1
        <4> QED
          BY <3>1, <3>2, <4>2 DEF Precedes
      <3> QED
        BY <3>1, <3>2 DEF Precedes
    <2>2. CASE T = {}
      <3>1. U = S /\ d.rules[i].addresses = {} /\ d.rules[j].addresses = {}
        BY <1>2, <2>2
      <3>2. i < j
        BY <1>1, <1>2, <1>3, <3>1
      <3> QED
        BY <3>1, <3>2 DEF Precedes
    <2> QED
      BY <2>1, <2>2
  <1> QED
    BY <1>1, <1>2, <1>3 DEF FirstOf

\* Where the first rule the page has for a listener has a match, it decides.
LEMMA FirstDecides ==
    ASSUME NEW d \in Answers, NEW l \in Listed(d), NEW a \in Reached(d, l), NEW s,
           NEW i, FirstOf(d, rulesFor(d, l), i),
           Matches(d.rules[i], a, l.port, l.proto, d.follow), Says(d.rules[i], s) # "next"
    PROVE  Admitted(d.rules, s, a, l.port, l.proto, d.follow) <=> Says(d.rules[i], s) = "pass"
  <1> DEFINE D == Deciding(d.rules, s, a, l.port, l.proto, d.follow)
  <1>1. i \in DOMAIN d.rules /\ DOMAIN d.rules \subseteq Nat
    BY DEF FirstOf, rulesFor, Answers, RuleLists
  <1>2. i \in D
    BY <1>1 DEF Deciding
  <1>3. D \subseteq rulesFor(d, l) /\ D \subseteq Nat
    BY <1>1, MatchApplies DEF Deciding
  <1>4. \A j \in D \ {i} : Before(d.rules, i, j)
    BY <1>3 DEF FirstOf, Precedes, Before
  <1>5. ASSUME NEW k \in D, k # i, \A j \in D \ {k} : Before(d.rules, k, j)
        PROVE  FALSE
    <2>1. Before(d.rules, i, k) /\ Before(d.rules, k, i)
      BY <1>2, <1>4, <1>5
    <2>2. i \in Nat /\ k \in Nat
      BY <1>2, <1>3
    <2> QED
      BY <2>1, <2>2 DEF Before
  <1> QED
    BY <1>2, <1>4, <1>5 DEF Admitted

LEMMA ColumnTrue ==
    ASSUME NEW d \in Answers, NEW l \in Listed(d)
    PROVE  TrueOf(d, l)
  <1> DEFINE S == rulesFor(d, l)
             i == CHOOSE i \in S : \A j \in S \ {i} : Precedes(d, i, j)
             r == d.rules[i]
  <1> SUFFICES ASSUME NEW a \in Reached(d, l), NEW s \in Sources
               PROVE  CASE Shown(d, l).who = "everyone" -> Admitted(d.rules, s, a, l.port, l.proto, d.follow)
                        [] Shown(d, l).who = "except" ->
                             s \in Shown(d, l).but /\ Matches(Shown(d, l).rule, a, l.port, l.proto, d.follow)
                               => ~Admitted(d.rules, s, a, l.port, l.proto, d.follow)
                        [] Shown(d, l).who = "only" ->
                             Matches(Shown(d, l).rule, a, l.port, l.proto, d.follow)
                               => (Admitted(d.rules, s, a, l.port, l.proto, d.follow)
                                     <=> s \in Shown(d, l).but \cup Whitelist)
    BY DEF TrueOf
  <1>1. CASE S = {}
    <2>1. Shown(d, l).who = "everyone"
      BY <1>1 DEF Shown
    <2>2. Deciding(d.rules, s, a, l.port, l.proto, d.follow) = {}
      BY <1>1, MatchApplies DEF Deciding
    <2> QED
      BY <2>1, <2>2 DEF Admitted
  <1>2. CASE S # {}
    <2>1. S \subseteq Nat
      BY DEF rulesFor, Answers, RuleLists
    <2>2. FirstOf(d, S, i)
      <3>1. \E k \in S : \A j \in S \ {k} : Precedes(d, k, j)
        BY <1>2, <2>1, FirstExists DEF FirstOf
      <3> HIDE DEF S
      <3> QED
        BY <3>1 DEF FirstOf
    <2>3. Shown(d, l) = [who |-> IF r.mode = "deny" THEN "except" ELSE "only", but |-> r.sources, rule |-> r]
      BY <1>2 DEF Shown
    <2> HIDE DEF i, S
    <2>4. CASE r.mode = "deny"
      <3>1. Shown(d, l).who = "except" /\ Shown(d, l).but = r.sources /\ Shown(d, l).rule = r
        BY <2>3, <2>4
      <3>2. s \in r.sources => Says(r, s) = "drop"
        BY <2>4 DEF Says
      <3>3. s \in r.sources /\ Matches(r, a, l.port, l.proto, d.follow)
              => ~Admitted(d.rules, s, a, l.port, l.proto, d.follow)
        BY <2>2, <3>2, FirstDecides DEF S
      <3> QED
        BY <3>1, <3>3
    <2>5. CASE r.mode # "deny"
      <3>1. Shown(d, l).who = "only" /\ Shown(d, l).but = r.sources /\ Shown(d, l).rule = r
        BY <2>3, <2>5
      <3>2. Says(r, s) = (IF s \in r.sources \cup Whitelist THEN "pass" ELSE "drop")
        BY <2>5 DEF Says
      <3>3. Matches(r, a, l.port, l.proto, d.follow)
              => (Admitted(d.rules, s, a, l.port, l.proto, d.follow) <=> s \in r.sources \cup Whitelist)
        BY <2>2, <3>2, FirstDecides DEF S
      <3> QED
        BY <3>1, <3>3
    <2> QED
      BY <2>4, <2>5
  <1> QED
    BY <1>1, <1>2

LEMMA HeadlineTrue ==
    ASSUME NEW d \in Answers, NEW l \in Exposed(d), NEW a \in Reached(d, l), NEW s \in Sources
    PROVE  Admitted(d.rules, s, a, l.port, l.proto, d.follow)
  <1>1. l \in Listed(d) /\ rulesFor(d, l) = {}
    BY DEF Exposed
  <1>2. Deciding(d.rules, s, a, l.port, l.proto, d.follow) = {}
    BY <1>1, MatchApplies DEF Deciding
  <1> QED
    BY <1>2 DEF Admitted

LEMMA WarningTrue ==
    ASSUME NEW d \in Answers, NEW r \in Drafts, NEW p \in OnTrial(d.rules, Append(d.rules, r), d.addrs \cap HostAddrs)
    PROVE  Warned(d, r) \in OnTrial(d.rules, Append(d.rules, r), d.addrs \cap HostAddrs)
  <1> DEFINE host == d.addrs \cap HostAddrs
             hit == {i \in DOMAIN Protected : r.proto # "udp" /\ Protected[i] \in r.ports}
             first == CHOOSE i \in hit : \A j \in hit : i <= j
  <1>1. d.rules \in Seq(Drafts) /\ host \subseteq Addrs
    BY DEF Answers, RuleLists, Addrs
  <1>2. p \in ProtectedPorts /\ Guards(r, p, host)
    BY <1>1, CoveringAppend DEF OnTrial
  <1>3. ASSUME NEW a \in host, NEW n, n = a \/ (n \in Networks /\ a \in Within[n])
        PROVE  ipCovers(n, a)
    BY <1>1, <1>3, AccessAssumption DEF ipCovers
  <1>4. r.enabled /\ r.proto # "udp" /\ p \in r.ports /\ ReachesHost(r, host)
    BY <1>2 DEF Guards
  <1>5. r.addresses = {} \/ host = {} \/ \E n \in r.addresses, a \in host : ipCovers(n, a)
    BY <1>3, <1>4 DEF ReachesHost, Names
  <1>6. hit # {} /\ hit \subseteq Nat
    <2>1. DOMAIN Protected \subseteq Nat
      BY AccessAssumption
    <2> QED
      BY <1>2, <1>4, <2>1 DEF ProtectedPorts
  <1>7. first \in hit
    <2>1. \E i \in hit : \A j \in hit : i <= j
      <3> HIDE DEF hit
      <3> QED
        BY <1>6, LeastIs
    <2> HIDE DEF hit
    <2> QED
      BY <2>1
  <1>8. Warned(d, r) = Protected[first]
    BY <1>5, <1>6 DEF Warned
  <1> HIDE DEF first
  <1>9. Protected[first] \in ProtectedPorts /\ Guards(r, Protected[first], host)
    BY <1>4, <1>7 DEF ProtectedPorts, Guards
  <1>10. Covering(Append(d.rules, r), Protected[first], host) \notin {<<>>, Covering(d.rules, Protected[first], host)}
    BY <1>1, <1>9, CoveringGrows
  <1> QED
    BY <1>8, <1>9, <1>10 DEF OnTrial

\* What the table of addresses says of bans is what the chains do.
LEMMA BansTrue ==
    ASSUME NEW a, NEW fw \in Firewalls
    PROVE  BanTold(a, fw)
  <1>1. /\ fw.method \in {"iptables", "ufw", "log", "none"} /\ fw.families \in {{"v4"}, {"v4", "v6"}}
        /\ fw.enabled \in BOOLEAN /\ fw.jumps \subseteq fw.families
    BY AccessAssumption DEF Firewalls
  <1>2. PICK chain, family : /\ Crossed(a) = <<chain, family>>
                             /\ chain = IF a \in HostAddrs THEN "INPUT" ELSE "FORWARD"
                             /\ family = IF a \in IPv6 THEN "v6" ELSE "v4"
    BY DEF Crossed
  <1>3. BanReaches(a, fw) <=>
            \/ fw.method = "iptables" /\ chain = "INPUT" /\ family \in fw.families
            \/ fw.method = "iptables" /\ chain = "FORWARD" /\ family \in fw.jumps
            \/ fw.method = "ufw" /\ chain = "INPUT"
    <2>1. CASE fw.method = "iptables"
      BY <1>1, <1>2, <2>1 DEF BanReaches, DroppedIn
    <2>2. CASE fw.method = "ufw"
      BY <1>1, <1>2, <2>2 DEF BanReaches, DroppedIn
    <2>3. CASE fw.method \in {"none", "log"}
      BY <1>1, <1>2, <2>3 DEF BanReaches, DroppedIn
    <2> QED
      BY <1>1, <2>1, <2>2, <2>3
  <1>4. PICK on, hooked : /\ on = (fw.method = "iptables" /\ fw.enabled) /\ hooked = (on /\ "v4" \in fw.jumps)
                          /\ BanWord(a, banCoverage(fw)) =
                               IF fw.method \in {"none", "log"} THEN "only logged"
                               ELSE IF a \in HostAddrs THEN "covered"
                               ELSE IF fw.method = "ufw" THEN "not covered"
                               ELSE IF hooked THEN "covered"
                               ELSE IF on THEN "not covered yet" ELSE "switched off"
    BY DEF BanWord, banCoverage
  <1>5. CASE a \in HostAddrs
    BY <1>1, <1>2, <1>3, <1>4, <1>5 DEF BanTold
  <1>6. CASE a \notin HostAddrs
    BY <1>1, <1>2, <1>3, <1>4, <1>6 DEF BanTold
  <1> QED
    BY <1>5, <1>6

\* For every answer, of any number of rules: what the page says of who reaches a
\* port is what the chains compiled from the rules of that answer do.
LEMMA ClaimsOfAnswer ==
    ASSUME page \in Answers \cup {None}
    PROVE  ClaimsHold
  <1> SUFFICES ASSUME page \in Answers PROVE ClaimsHold
    BY DEF ClaimsHold
  <1>1. \A l \in Listed(page) : TrueOf(page, l)
    BY ColumnTrue
  <1>2. \A l \in Exposed(page) : \A a \in Reached(page, l), s \in Sources :
            Admitted(page.rules, s, a, l.port, l.proto, page.follow)
    BY HeadlineTrue
  <1>3. \A a \in page.addrs, fw \in Firewalls : BanTold(a, fw)
    BY BansTrue
  <1>4. ASSUME NEW r \in Drafts
        PROVE  LET trial == OnTrial(page.rules, Append(page.rules, r), page.addrs \cap HostAddrs)
               IN trial # {} => Warned(page, r) \in trial
    BY WarningTrue
  <1> QED
    BY <1>1, <1>2, <1>3, <1>4 DEF ClaimsHold

\* What the ports screen says of who reaches a port is what the chains compiled
\* from the same rules do, for every list of rules, whatever its scopes,
\* families and order, and for every source; what it says of bans is true where
\* both families are hooked alike; and the form announces each new rule that
\* goes on trial, by one of the ports it puts there (renderPorts, rulesFor,
\* ruleHints, banWord).
THEOREM PortsHold == AccessSpec => []PortsTrue
  <1>1. SwitchesInv => PortsTrue
    <2> SUFFICES ASSUME SwitchesInv PROVE PortsTrue
      OBVIOUS
    <2>1. AccessTypeOK /\ page \in Answers \cup {None}
      BY DEF SwitchesInv, AccessTypeOK
    <2> QED
      BY <2>1, ClaimsOfAnswer, SwitchesTrue DEF PortsTrue
  <1> QED
    BY SwitchesInit, SwitchesNext, <1>1, PTL DEF AccessSpec

-----------------------------------------------------------------------------
(* Inventory: what is compared, what is shown of it and what is stored.    *)

\* What was compared and has an advisory says so.
Honest(t) == t.checked /\ t.code = "bad" => t.found # "none"
Sound(T) == \A p \in Places : T[p] # NoPlace => Honest(T[p])
\* Everything was compared, or nothing was.
Uniform(T) == \A p, q \in Places : T[p] # NoPlace /\ T[q] # NoPlace => (T[p].checked <=> T[q].checked)

\* What an answer shows.
ScanPhases == {"idle", "scanning", "checking"}
Views == [targets : Tables, phase : ScanPhases, osv : BOOLEAN, whole : BOOLEAN]
GoodViews == {v \in Views : Sound(v.targets) /\ (v.whole /\ v.phase = "idle" => Uniform(v.targets))}
GoodTargets == {t \in Targets : Honest(t)}
Overviews == [kind : {"view"}, view : GoodViews]
Sheets == [kind : {"target"}, target : GoodTargets, whole : BOOLEAN]

\* A request and its reply.
Buttons == {"scan", "check", "osv"}
GoodCalls ==
    [kind : {"load"}, place : {NoPlace}, reply : {Unserved} \cup Overviews]
    \cup [kind : {"target"}, place : Places, reply : {Unserved, Refused} \cup Sheets]
    \cup [kind : Buttons, place : {NoPlace}, reply : {Unserved, Refused} \cup Overviews]
PageTyped ==
    /\ calls \in Seq(GoodCalls) /\ Len(calls) <= MaxCalls
    /\ seen \in GoodViews \cup {NoPlace}
    /\ sheet \in [place : Places, target : GoodTargets, whole : BOOLEAN] \cup {NoPlace}

\* The places, the tables and the scan.
Jobs == [phase : ScanPhases, todo : SUBSET Places, listed : SUBSET Places, failed : BOOLEAN]
Things == [there : BOOLEAN, readable : BOOLEAN, code : {"bad", "clean"}]
Worlds == [engine : BOOLEAN, at : [Places -> Things]]
ServerTyped ==
    /\ world \in Worlds
    /\ targets \in Tables /\ stored \in Tables /\ unsaved \subseteq Places /\ whole \in BOOLEAN
    /\ osv \in BOOLEAN /\ stuck \in Nat
    /\ job \in Jobs /\ job.todo \subseteq job.listed

\* A scan has read anew what it no longer has to read, and a check is about all
\* there is; so when one has run to its end, all was compared or nothing.
ReadAnew == job.phase = "scanning" =>
    \A p \in job.listed \ job.todo : targets[p] # NoPlace /\ ~targets[p].checked
ListedAre == job.phase = "checking" => \A p \in Places : targets[p] # NoPlace <=> p \in job.listed
AlikeWhenWhole == whole /\ job.phase # "scanning" => Uniform(targets)
KeptAlways == \A p \in Places \ unsaved : stored[p] = targets[p]
StuckFew == /\ stuck + Cardinality(job.todo) <= StuckAt + Cardinality(Places) - 1
            /\ job.phase # "scanning" => job.todo = {}

TablesInv == Sound(targets) /\ Sound(stored) /\ KeptAlways
ScanInv == ReadAnew /\ ListedAre /\ AlikeWhenWhole
ServerInv == ServerTyped /\ TablesInv /\ ScanInv /\ StuckFew
SoftwareInv == ServerInv /\ PageTyped

LEMMA PlacesCounted ==
    /\ IsFiniteSet(Places) /\ Cardinality(Places) \in Nat
    /\ \A T \in SUBSET Places : IsFiniteSet(T) /\ Cardinality(T) \in Nat /\ Cardinality(T) <= Cardinality(Places)
    /\ \A T \in SUBSET Places : \A p \in T : Cardinality(T \ {p}) = Cardinality(T) - 1
    /\ Cardinality({}) = 0
  <1>1. IsFiniteSet(Places)
    BY InventoryAssumption
  <1>2. ASSUME NEW T \in SUBSET Places
        PROVE  IsFiniteSet(T) /\ Cardinality(T) \in Nat /\ Cardinality(T) <= Cardinality(Places)
    BY <1>1, FS_Subset, FS_CardinalityType
  <1>3. ASSUME NEW T \in SUBSET Places, NEW p \in T
        PROVE  Cardinality(T \ {p}) = Cardinality(T) - 1
    BY <1>2, FS_RemoveElement
  <1> QED
    BY <1>1, <1>2, <1>3, FS_CardinalityType, FS_EmptySet

LEMMA SoftwareInit ==
    ASSUME InventoryInit
    PROVE  SoftwareInv
  <1>1. PICK codes \in FirstCodes :
           world = [engine |-> TRUE, at |-> [p \in Places |-> [there |-> TRUE, readable |-> TRUE, code |-> codes[p]]]]
    BY DEF InventoryInit
  <1>2. codes \in [Places -> {"bad", "clean"}]
    BY InventoryAssumption
  <1>3. world \in Worlds
    BY <1>1, <1>2 DEF Things, Worlds
  <1>4. /\ targets = [p \in Places |-> NoPlace] /\ stored = targets /\ unsaved = {} /\ whole = TRUE
        /\ osv \in BOOLEAN /\ stuck = 0 /\ job = Idle0
    BY DEF InventoryInit
  <1>5. ServerTyped
    BY <1>3, <1>4 DEF ServerTyped, Tables, Jobs, ScanPhases, Idle0
  <1>6. TablesInv /\ ScanInv
    BY <1>4 DEF TablesInv, ScanInv, Sound, KeptAlways, ReadAnew, ListedAre, AlikeWhenWhole, Uniform, Idle0
  <1>7. StuckFew
    <2>1. stuck = 0 /\ job.todo = {}
      BY <1>4 DEF Idle0
    <2>2. Cardinality(job.todo) = 0 /\ Cardinality(Places) \in Nat /\ StuckAt \in Nat \ {0}
      BY <2>1, PlacesCounted, InventoryAssumption
    <2> QED
      BY <2>1, <2>2 DEF StuckFew
  <1>8. PageTyped
    <2>1. calls = <<[kind |-> "load", place |-> NoPlace, reply |-> Unserved]>> /\ seen = NoPlace /\ sheet = NoPlace
      BY DEF InventoryInit
    <2> PICK c : c = [kind |-> "load", place |-> NoPlace, reply |-> Unserved]
      OBVIOUS
    <2>2. c \in GoodCalls
      BY DEF GoodCalls
    <2>3. <<c>> \in Seq(GoodCalls) /\ Len(<<c>>) = 1
      BY <2>2
    <2> QED
      BY <2>1, <2>3, InventoryAssumption DEF PageTyped
  <1> QED
    BY <1>5, <1>6, <1>7, <1>8 DEF SoftwareInv, ServerInv

\* A scan or a check begins.
LEMMA ScanStarts ==
    ASSUME ServerInv, MayBegin, job' = ScanJob, UNCHANGED <<world, targets, stored, stuck, osv, unsaved, whole>>
    PROVE  ServerInv'
  <1>0. ServerTyped /\ TablesInv /\ stuck \in Nat /\ stuck < StuckAt /\ StuckAt \in Nat \ {0}
    BY InventoryAssumption DEF ServerInv, ServerTyped, MayBegin
  <1>1. ToScan \in SUBSET Places
    BY InventoryAssumption DEF ToScan
  <1>2. job' = [phase |-> "scanning", todo |-> ToScan, listed |-> ToScan, failed |-> FALSE]
    BY DEF ScanJob
  <1>3. ServerTyped'
    BY <1>0, <1>1, <1>2 DEF ServerTyped, Jobs, ScanPhases
  <1>4. TablesInv' /\ ScanInv'
    BY <1>0, <1>2 DEF TablesInv, KeptAlways, ScanInv, ReadAnew, ListedAre, AlikeWhenWhole
  <1>5. StuckFew'
    <2>1. job'.todo = ToScan /\ job'.phase = "scanning"
      BY <1>2
    <2>2. Cardinality(ToScan) \in Nat /\ Cardinality(ToScan) <= Cardinality(Places) /\ Cardinality(Places) \in Nat
      BY <1>1, PlacesCounted
    <2>3. stuck + Cardinality(ToScan) <= StuckAt + Cardinality(Places) - 1
      BY <1>0, <2>2
    <2> QED
      BY <2>1, <2>3 DEF StuckFew
  <1> QED
    BY <1>3, <1>4, <1>5 DEF ServerInv

LEMMA CheckStarts ==
    ASSUME ServerInv, MayBegin, job' = CheckJob, UNCHANGED <<world, targets, stored, stuck, osv, unsaved, whole>>
    PROVE  ServerInv'
  <1>0. ServerTyped /\ TablesInv /\ ScanInv /\ StuckFew /\ job.phase = "idle"
    BY DEF ServerInv, MayBegin
  <1>1. PICK L \in SUBSET Places : L = {p \in Places : targets[p] # NoPlace}
    OBVIOUS
  <1>2. job' = [phase |-> "checking", todo |-> {}, listed |-> L, failed |-> FALSE]
    BY <1>1 DEF CheckJob
  <1>3. ServerTyped'
    BY <1>0, <1>2 DEF ServerTyped, Jobs, ScanPhases
  <1>4. TablesInv' /\ ScanInv'
    BY <1>0, <1>1, <1>2 DEF TablesInv, KeptAlways, ScanInv, ReadAnew, ListedAre, AlikeWhenWhole
  <1>5. StuckFew'
    BY <1>0, <1>2 DEF StuckFew
  <1> QED
    BY <1>3, <1>4, <1>5 DEF ServerInv

\* Nothing is under way.
LEMMA JobEnds ==
    ASSUME ServerTyped', TablesInv', StuckFew, UNCHANGED stuck, job'.phase = "idle", job'.todo = {},
           job.todo = {}, whole' => Uniform(targets')
    PROVE  ServerInv'
  <1>1. ScanInv'
    BY DEF ScanInv, ReadAnew, ListedAre, AlikeWhenWhole
  <1>2. StuckFew'
    BY DEF StuckFew
  <1> QED
    BY <1>1, <1>2 DEF ServerInv

LEMMA ReadPlaceKeeps ==
    ASSUME ServerInv, NEW p \in Places, NEW hangs \in BOOLEAN, NEW ok \in BOOLEAN, ReadPlace(p, hangs, ok)
    PROVE  ServerInv'
  <1>0. ServerTyped /\ TablesInv /\ ScanInv /\ StuckFew /\ job.phase = "scanning" /\ p \in job.todo
    BY DEF ServerInv, ReadPlace
  <1> PICK t : t = ReadAs(p, world.at[p].readable)
    OBVIOUS
  <1>1. t \in Targets /\ ~t.checked
    <2>1. world.at[p] \in Things /\ targets[p] \in Targets \cup {NoPlace}
      BY <1>0 DEF ServerTyped, Tables, Worlds
    <2>2. world.at[p].readable \in BOOLEAN /\ world.at[p].code \in {"bad", "clean"}
      BY <2>1 DEF Things
    <2>3. PICK c \in {"none", "bad", "clean"} :
             c = IF world.at[p].readable THEN world.at[p].code ELSE IF targets[p] = NoPlace THEN "none" ELSE targets[p].code
      BY <2>1, <2>2 DEF Targets
    <2>4. t = [code |-> c, found |-> "none", checked |-> FALSE, error |-> ~world.at[p].readable]
      BY <2>3 DEF ReadAs, Read
    <2> QED
      BY <2>2, <2>4 DEF Targets
  <1>2. targets' = [targets EXCEPT ![p] = t] /\ Saved(p, t, ok) /\ job' = [job EXCEPT !.todo = @ \ {p}]
    BY DEF ReadPlace
  <1>3. job'.todo = job.todo \ {p} /\ job'.listed = job.listed /\ job'.phase = "scanning" /\ job' \in Jobs
    BY <1>0, <1>2 DEF ServerTyped, Jobs
  <1>4. /\ targets' \in Tables /\ targets'[p] = t
        /\ \A q \in Places \ {p} : targets'[q] = targets[q] /\ stored'[q] = stored[q]
        /\ stored' \in Tables /\ (stored'[p] = t \/ (stored'[p] = stored[p] /\ p \in unsaved'))
        /\ unsaved \ {p} \subseteq unsaved' /\ unsaved' \subseteq Places
    <2>1. targets' \in Tables /\ targets'[p] = t /\ \A q \in Places \ {p} : targets'[q] = targets[q]
      BY <1>0, <1>1, <1>2 DEF ServerTyped, Tables
    <2>2. CASE ok
      BY <1>0, <1>1, <1>2, <2>1, <2>2 DEF Saved, ServerTyped, Tables
    <2>3. CASE ~ok
      BY <1>0, <1>1, <1>2, <2>1, <2>3 DEF Saved, ServerTyped, Tables
    <2> QED
      BY <2>2, <2>3
  <1>5. stuck' \in {stuck, stuck + 1} /\ UNCHANGED <<world, osv, whole>>
    BY DEF ReadPlace
  <1>6. ServerTyped'
    BY <1>0, <1>3, <1>4, <1>5 DEF ServerTyped
  <1>7. TablesInv'
    <2>1. Honest(t)
      BY <1>1 DEF Honest
    <2>2. Sound(targets')
      BY <1>0, <1>4, <2>1 DEF TablesInv, Sound
    <2>3. Sound(stored')
      BY <1>0, <1>4, <2>1 DEF TablesInv, Sound
    <2>4. KeptAlways'
      BY <1>0, <1>4 DEF TablesInv, KeptAlways
    <2> QED
      BY <2>2, <2>3, <2>4 DEF TablesInv
  <1>8. ScanInv'
    <2>1. t # NoPlace
      BY <1>1, NoPlaceAssumption
    <2>2. ReadAnew'
      <3> SUFFICES ASSUME NEW q \in job'.listed \ job'.todo
                   PROVE  targets'[q] # NoPlace /\ ~targets'[q].checked
        BY DEF ReadAnew
      <3>1. q \in Places /\ (q # p => q \in job.listed \ job.todo)
        BY <1>0, <1>3 DEF ServerTyped, Jobs
      <3> QED
        BY <1>0, <1>1, <1>4, <2>1, <3>1 DEF ScanInv, ReadAnew
    <2> QED
      BY <1>3, <2>2 DEF ScanInv, ListedAre, AlikeWhenWhole
  <1>9. StuckFew'
    <2>1. job.todo \in SUBSET Places
      BY <1>0 DEF ServerTyped, Jobs
    <2>2. Cardinality(job'.todo) = Cardinality(job.todo) - 1 /\ Cardinality(job.todo) \in Nat
      BY <1>0, <1>3, <2>1, PlacesCounted
    <2>3. stuck + Cardinality(job.todo) <= StuckAt + Cardinality(Places) - 1
      BY <1>0 DEF StuckFew
    <2>4. stuck \in Nat /\ StuckAt \in Nat /\ Cardinality(Places) \in Nat
      BY <1>0, PlacesCounted, InventoryAssumption DEF ServerTyped
    <2>5. stuck' + Cardinality(job'.todo) <= StuckAt + Cardinality(Places) - 1
      BY <1>5, <2>2, <2>3, <2>4
    <2> QED
      BY <1>3, <2>5 DEF StuckFew
  <1> QED
    BY <1>6, <1>7, <1>8, <1>9 DEF ServerInv

LEMMA ScanEndsKeeps ==
    ASSUME ServerInv, NEW lost \in SUBSET Places, ScanEnds(lost)
    PROVE  ServerInv'
  <1>0. /\ ServerTyped /\ TablesInv /\ ScanInv /\ StuckFew /\ job.phase = "scanning" /\ job.todo = {}
        /\ job.listed \in SUBSET Places /\ UNCHANGED <<world, stuck, osv>> /\ whole' = TRUE
    BY DEF ServerInv, ServerTyped, Jobs, ScanEnds
  <1> PICK L \in SUBSET Places : L = job.listed
    BY <1>0
  <1>1. /\ targets' = [p \in Places |-> IF p \in L THEN targets[p] ELSE NoPlace]
        /\ stored' = [p \in Places |-> IF p \in L \cup lost THEN stored[p] ELSE NoPlace]
        /\ unsaved' = (unsaved \cap L) \cup lost
    BY DEF ScanEnds, Remaining
  <1>2. \/ job' = [phase |-> "checking", todo |-> {}, listed |-> L, failed |-> FALSE]
        \/ job' = [phase |-> "idle", todo |-> {}, listed |-> {}, failed |-> FALSE]
    BY DEF ScanEnds, CheckJob, Idle0
  <1>3. targets' \in Tables /\ stored' \in Tables
    BY <1>0, <1>1 DEF ServerTyped, Tables
  <1>4. ServerTyped'
    <2>1. job' \in Jobs /\ job'.todo \subseteq job'.listed
      <3>1. CASE job' = [phase |-> "checking", todo |-> {}, listed |-> L, failed |-> FALSE]
        BY <3>1 DEF Jobs, ScanPhases
      <3>2. CASE job' = [phase |-> "idle", todo |-> {}, listed |-> {}, failed |-> FALSE]
        BY <3>2 DEF Jobs, ScanPhases
      <3> QED
        BY <1>2, <3>1, <3>2
    <2>2. unsaved' \subseteq Places
      BY <1>1
    <2> QED
      BY <1>0, <1>3, <2>1, <2>2 DEF ServerTyped
  <1>5. TablesInv'
    <2>1. Sound(targets') /\ Sound(stored')
      BY <1>0, <1>1 DEF TablesInv, Sound
    <2>2. KeptAlways'
      BY <1>0, <1>1 DEF TablesInv, KeptAlways
    <2> QED
      BY <2>1, <2>2 DEF TablesInv
  <1>6. \A p \in Places : IF p \in L THEN targets'[p] # NoPlace /\ ~targets'[p].checked ELSE targets'[p] = NoPlace
    BY <1>0, <1>1 DEF ScanInv, ReadAnew
  <1>7. Uniform(targets')
    BY <1>6 DEF Uniform
  <1>8. ScanInv'
    BY <1>2, <1>6, <1>7 DEF ScanInv, ReadAnew, ListedAre, AlikeWhenWhole
  <1>9. StuckFew'
    BY <1>0, <1>2 DEF StuckFew
  <1> QED
    BY <1>4, <1>5, <1>8, <1>9 DEF ServerInv

LEMMA OsvAnswersKeeps ==
    ASSUME ServerInv, NEW lost \in SUBSET Places, NEW full \in BOOLEAN, OsvAnswers(full, lost)
    PROVE  ServerInv'
  <1>0. /\ ServerTyped /\ TablesInv /\ ScanInv /\ StuckFew /\ job.phase = "checking" /\ job.todo = {}
        /\ job.listed \in SUBSET Places /\ UNCHANGED <<world, stuck, osv>> /\ whole' = TRUE /\ job' = Idle0
    BY DEF ServerInv, ServerTyped, Jobs, OsvAnswers, StuckFew
  <1> PICK L \in SUBSET Places : L = job.listed
    BY <1>0
  <1>1. /\ targets' = [p \in Places |-> IF p \in L THEN Compared(targets[p], full) ELSE targets[p]]
        /\ stored' = [p \in Places |-> IF p \in L \ lost THEN targets'[p] ELSE stored[p]]
        /\ unsaved' = (unsaved \ L) \cup lost /\ lost \subseteq L
    BY DEF OsvAnswers
  <1>2. ASSUME NEW t \in Targets
        PROVE  Compared(t, full) \in Targets /\ Compared(t, full).checked /\ Honest(Compared(t, full))
    <2> PICK u : u = Compared(t, full)
      OBVIOUS
    <2>1. PICK f : f = IF t.code = "bad" THEN (IF full THEN "critical" ELSE "unrated") ELSE "none"
      OBVIOUS
    <2>2. u = [t EXCEPT !.found = f, !.checked = TRUE]
      BY <2>1 DEF Compared
    <2>3. u.code = t.code /\ u.found = f /\ u.checked = TRUE /\ u \in Targets
      BY <2>1, <2>2 DEF Targets
    <2>4. Honest(u)
      BY <2>1, <2>3 DEF Honest
    <2> QED
      BY <2>3, <2>4
  <1>3. \A p \in L : targets[p] \in Targets
    BY <1>0 DEF ServerTyped, Tables, ScanInv, ListedAre
  <1>4. \A p \in Places : targets'[p] = (IF p \in L THEN Compared(targets[p], full) ELSE targets[p])
    BY <1>1
  <1>5. \A p \in Places \ L : targets[p] = NoPlace
    BY <1>0 DEF ScanInv, ListedAre
  <1>6. targets' \in Tables
    BY <1>0, <1>1, <1>2, <1>3 DEF ServerTyped, Tables
  <1>7. stored' \in Tables
    BY <1>0, <1>1, <1>6 DEF ServerTyped, Tables
  <1>8. ServerTyped'
    BY <1>0, <1>1, <1>6, <1>7 DEF ServerTyped, Idle0, Jobs, ScanPhases
  <1>9. Sound(targets')
    BY <1>2, <1>3, <1>4, <1>5 DEF Sound
  <1>10. Sound(stored')
    BY <1>0, <1>1, <1>9 DEF TablesInv, Sound
  <1>11. KeptAlways'
    BY <1>0, <1>1, <1>4 DEF TablesInv, KeptAlways
  <1>12. Uniform(targets')
    BY <1>2, <1>3, <1>4, <1>5 DEF Uniform
  <1> QED
    BY <1>0, <1>8, <1>9, <1>10, <1>11, <1>12, JobEnds DEF TablesInv, Idle0

LEMMA OsvFailsKeeps ==
    ASSUME ServerInv, OsvFails
    PROVE  ServerInv'
  <1>0. /\ ServerTyped /\ TablesInv /\ ScanInv /\ StuckFew /\ job.phase = "checking" /\ job.todo = {}
        /\ UNCHANGED <<world, targets, stored, stuck, osv, unsaved, whole>>
    BY DEF ServerInv, OsvFails, StuckFew
  <1>1. job' = [phase |-> "idle", todo |-> {}, listed |-> {}, failed |-> TRUE]
    BY DEF OsvFails, Idle0
  <1>2. ServerTyped'
    BY <1>0, <1>1 DEF ServerTyped, Jobs, ScanPhases
  <1>3. TablesInv'
    BY <1>0 DEF TablesInv, KeptAlways
  <1>4. whole' => Uniform(targets')
    BY <1>0 DEF ScanInv, AlikeWhenWhole
  <1> QED
    BY <1>0, <1>1, <1>2, <1>3, <1>4, JobEnds

LEMMA RestartKeeps ==
    ASSUME ServerInv, Restart
    PROVE  ServerInv'
  <1>0. /\ ServerTyped /\ TablesInv /\ ScanInv /\ targets' = stored /\ stored' = stored /\ job' = Idle0
        /\ stuck' = 0 /\ unsaved' = {} /\ whole' = (whole /\ unsaved = {} /\ job.phase # "scanning")
        /\ UNCHANGED <<world, osv>>
    BY DEF ServerInv, Restart
  <1>1. job' = [phase |-> "idle", todo |-> {}, listed |-> {}, failed |-> FALSE]
    BY <1>0 DEF Idle0
  <1>2. ServerTyped'
    BY <1>0, <1>1 DEF ServerTyped, Jobs, ScanPhases
  <1>3. TablesInv'
    BY <1>0 DEF TablesInv, KeptAlways
  <1>4. whole' => Uniform(targets')
    <2> SUFFICES ASSUME whole, unsaved = {}, job.phase # "scanning" PROVE Uniform(targets')
      BY <1>0
    <2>1. \A p \in Places : stored[p] = targets[p]
      BY <1>0 DEF TablesInv, KeptAlways
    <2> QED
      BY <1>0, <2>1 DEF ScanInv, AlikeWhenWhole, Uniform
  <1>5. ScanInv'
    BY <1>1, <1>4 DEF ScanInv, ReadAnew, ListedAre, AlikeWhenWhole
  <1>6. StuckFew'
    <2>1. Cardinality({}) = 0 /\ Cardinality(Places) \in Nat /\ StuckAt \in Nat \ {0}
      BY PlacesCounted, InventoryAssumption
    <2>2. stuck' = 0 /\ job'.todo = {}
      BY <1>0, <1>1
    <2> QED
      BY <2>1, <2>2 DEF StuckFew
  <1> QED
    BY <1>2, <1>3, <1>5, <1>6 DEF ServerInv

LEMMA ChangesKeep ==
    ASSUME ServerInv, Changes
    PROVE  ServerInv'
  <1>0. ServerTyped /\ UNCHANGED <<targets, stored, job, stuck, osv, unsaved, whole>>
    BY DEF ServerInv, Changes
  <1>1. ASSUME NEW p \in Places, NEW t \in Things, Becomes(p, t)
        PROVE  world' \in Worlds
    <2>1. PICK at : at = [world.at EXCEPT ![p] = t]
      OBVIOUS
    <2>2. at \in [Places -> Things]
      BY <1>0, <2>1 DEF ServerTyped, Worlds
    <2>3. world' = [world EXCEPT !.at = at]
      BY <1>1, <2>1 DEF Becomes
    <2> QED
      BY <1>0, <2>2, <2>3 DEF ServerTyped, Worlds
  <1>2. ASSUME world' = [world EXCEPT !.engine = ~@]
        PROVE  world' \in Worlds
    BY <1>0, <1>2 DEF ServerTyped, Worlds
  <1>3. ASSUME NEW p \in Places
        PROVE  /\ [world.at[p] EXCEPT !.there = ~@] \in Things
               /\ [world.at[p] EXCEPT !.readable = ~@] \in Things
               /\ [world.at[p] EXCEPT !.code = IF @ = "bad" THEN "clean" ELSE "bad"] \in Things
    <2>1. world.at[p] \in Things
      BY <1>0 DEF ServerTyped, Worlds
    <2> QED
      BY <2>1 DEF Things
  <1>4. world' \in Worlds
    <2>1. \/ world' = [world EXCEPT !.engine = ~@]
          \/ \E p \in Places : \/ Becomes(p, [world.at[p] EXCEPT !.there = ~@])
                              \/ Becomes(p, [world.at[p] EXCEPT !.readable = ~@])
                              \/ Becomes(p, [world.at[p] EXCEPT !.code = IF @ = "bad" THEN "clean" ELSE "bad"])
      BY Zenon DEF Changes
    <2> QED
      BY <1>1, <1>2, <1>3, <2>1
  <1>5. ServerTyped'
    BY <1>0, <1>4 DEF ServerTyped
  <1>6. (TablesInv /\ ScanInv /\ StuckFew)'
    BY <1>0 DEF ServerInv, TablesInv, KeptAlways, ScanInv, ReadAnew, ListedAre, AlikeWhenWhole, StuckFew
  <1> QED
    BY <1>5, <1>6 DEF ServerInv

LEMMA ServerKept ==
    ASSUME ServerInv, UNCHANGED server_side
    PROVE  ServerInv'
  BY DEF server_side, ServerInv, ServerTyped, TablesInv, KeptAlways, ScanInv, ReadAnew, ListedAre,
     AlikeWhenWhole, StuckFew

-----------------------------------------------------------------------------
(* The page's requests, the overview and the sheet.                        *)

LEMMA PageKept ==
    ASSUME PageTyped, UNCHANGED <<calls, seen, sheet>>
    PROVE  PageTyped'
  BY DEF PageTyped

\* A request goes out.
LEMMA SendKeeps ==
    ASSUME PageTyped, NEW kind, NEW p, Send(kind, p), UNCHANGED <<seen, sheet>>,
           (kind \in Buttons \cup {"load"} /\ p = NoPlace) \/ (kind = "target" /\ p \in Places)
    PROVE  PageTyped'
  <1> PICK c : c = [kind |-> kind, place |-> p, reply |-> Unserved]
    OBVIOUS
  <1>1. c \in GoodCalls
    BY DEF GoodCalls
  <1>2. calls' = Append(calls, c) /\ Len(calls) < MaxCalls
    BY DEF Send
  <1>3. calls \in Seq(GoodCalls) /\ Len(calls) \in Nat /\ MaxCalls \in Nat
    BY InventoryAssumption DEF PageTyped
  <1>4. calls' \in Seq(GoodCalls) /\ Len(calls') = Len(calls) + 1
    BY <1>1, <1>2, <1>3, AppendProperties
  <1>5. Len(calls') <= MaxCalls
    BY <1>2, <1>3, <1>4
  <1> QED
    BY <1>4, <1>5 DEF PageTyped

LEMMA CallAt ==
    ASSUME PageTyped, NEW i \in DOMAIN calls
    PROVE  /\ calls[i] \in GoodCalls /\ i \in 1..Len(calls)
           /\ Rest(i) \in Seq(GoodCalls) /\ Len(Rest(i)) = Len(calls) - 1
           /\ Again(i) \in Seq(GoodCalls) /\ Len(Again(i)) = Len(calls)
           /\ calls \in Seq(GoodCalls) /\ Len(calls) \in Nat
  <1>1. calls \in Seq(GoodCalls) /\ Len(calls) \in Nat
    BY DEF PageTyped
  <1>2. i \in 1..Len(calls) /\ calls[i] \in GoodCalls
    BY <1>1
  <1>3. Rest(i) \in Seq(GoodCalls) /\ Len(Rest(i)) = Len(calls) - 1
    BY <1>1, OneLess DEF Rest
  <1> PICK c : c = [kind |-> "load", place |-> NoPlace, reply |-> Unserved]
    OBVIOUS
  <1>4. c \in GoodCalls /\ Again(i) = Append(Rest(i), c)
    BY DEF GoodCalls, Again
  <1>5. Again(i) \in Seq(GoodCalls) /\ Len(Again(i)) = Len(Rest(i)) + 1
    BY <1>3, <1>4, AppendProperties
  <1>6. Len(Again(i)) = Len(calls)
    BY <1>1, <1>3, <1>5
  <1> QED
    BY <1>1, <1>2, <1>3, <1>5, <1>6

\* What the server shows of itself.
LEMMA ViewIsGood ==
    ASSUME ServerInv
    PROVE  /\ View \in GoodViews /\ \A on \in BOOLEAN : [View EXCEPT !.osv = on] \in GoodViews
           /\ \A ph \in {"scanning", "checking"} : [View EXCEPT !.phase = ph] \in GoodViews
  <1>1. /\ targets \in Tables /\ job.phase \in ScanPhases /\ osv \in BOOLEAN /\ whole \in BOOLEAN
        /\ Sound(targets) /\ (whole /\ job.phase = "idle" => Uniform(targets))
    BY DEF ServerInv, ServerTyped, Jobs, TablesInv, ScanInv, AlikeWhenWhole
  <1>2. ASSUME NEW ph \in ScanPhases, NEW on \in BOOLEAN, ph = job.phase \/ ph # "idle",
               NEW v, v = [targets |-> targets, phase |-> ph, osv |-> on, whole |-> whole]
        PROVE  v \in GoodViews
    <2>1. v \in Views /\ v.targets = targets /\ v.phase = ph /\ v.whole = whole
      BY <1>1, <1>2 DEF Views
    <2> QED
      BY <1>1, <1>2, <2>1 DEF GoodViews
  <1>3. /\ View = [targets |-> targets, phase |-> job.phase, osv |-> osv, whole |-> whole]
        /\ \A on : [View EXCEPT !.osv = on] = [targets |-> targets, phase |-> job.phase, osv |-> on, whole |-> whole]
        /\ \A ph : [View EXCEPT !.phase = ph] = [targets |-> targets, phase |-> ph, osv |-> osv, whole |-> whole]
    BY DEF View
  <1> QED
    BY <1>1, <1>2, <1>3 DEF ScanPhases

LEMMA ReplyKeeps ==
    ASSUME PageTyped, NEW i \in DOMAIN calls, NEW r, Replied(i, r),
           \/ calls[i].kind = "load" /\ r \in Overviews
           \/ calls[i].kind = "target" /\ r \in {Refused} \cup Sheets
           \/ calls[i].kind \in Buttons /\ r \in {Refused} \cup Overviews
    PROVE  PageTyped'
  <1> PICK c : c = [calls[i] EXCEPT !.reply = r]
    OBVIOUS
  <1>1. calls' = [calls EXCEPT ![i] = c] /\ UNCHANGED <<seen, sheet>>
    BY DEF Replied
  <1>2. c \in GoodCalls
    BY CallAt DEF GoodCalls, Buttons
  <1>3. calls' \in Seq(GoodCalls) /\ Len(calls') = Len(calls)
    BY <1>1, <1>2, CallAt, ExceptSeq
  <1> QED
    BY <1>1, <1>3 DEF PageTyped

LEMMA ServeKeeps ==
    ASSUME ServerInv, PageTyped, NEW i \in DOMAIN calls, ServeSoftware(i)
    PROVE  ServerInv' /\ PageTyped'
  <1> PICK c : c = calls[i]
    OBVIOUS
  <1>0. c \in GoodCalls /\ UNCHANGED <<world, targets, stored, stuck, unsaved, whole>>
    BY CallAt DEF ServeSoftware, Replied, GoodCalls, Buttons
  <1>1. CASE c.kind = "load"
    <2>1. Replied(i, Shows(View)) /\ UNCHANGED <<job, osv>>
      BY <1>1 DEF ServeSoftware
    <2>2. Shows(View) \in Overviews
      BY ViewIsGood DEF Shows, Overviews
    <2> QED
      BY <1>0, <1>1, <2>1, <2>2, ReplyKeeps, ServerKept DEF server_side
  <1>2. CASE c.kind = "target"
    <2>1. UNCHANGED <<job, osv>> /\ c.place \in Places
      BY <1>0, <1>2 DEF ServeSoftware, GoodCalls, Buttons
    <2>2. CASE targets[c.place] = NoPlace
      <3>1. Replied(i, Refused)
        BY <1>2, <2>2 DEF ServeSoftware
      <3> QED
        BY <1>0, <1>2, <2>1, <3>1, ReplyKeeps, ServerKept DEF server_side
    <2>3. CASE targets[c.place] # NoPlace
      <3> PICK r : r = [kind |-> "target", target |-> targets[c.place], whole |-> whole]
        OBVIOUS
      <3>1. Replied(i, r)
        BY <1>2, <2>3 DEF ServeSoftware
      <3>2. targets[c.place] \in GoodTargets /\ whole \in BOOLEAN
        BY <2>1, <2>3 DEF ServerInv, ServerTyped, Tables, TablesInv, Sound, GoodTargets
      <3>3. r \in Sheets
        BY <3>2 DEF Sheets
      <3> QED
        BY <1>0, <1>2, <2>1, <3>1, <3>3, ReplyKeeps, ServerKept DEF server_side
    <2> QED
      BY <2>2, <2>3
  <1>3. CASE c.kind = "osv"
    <2> PICK on \in BOOLEAN : on = ~seen.osv
      OBVIOUS
    <2>1. osv' = on /\ Replied(i, Shows([View EXCEPT !.osv = on])) /\ UNCHANGED job
      BY <1>3 DEF ServeSoftware
    <2>2. Shows([View EXCEPT !.osv = on]) \in Overviews
      BY ViewIsGood DEF Shows, Overviews
    <2>3. PageTyped'
      BY <1>3, <2>1, <2>2, ReplyKeeps DEF Buttons
    <2>4. ServerInv'
      BY <1>0, <2>1 DEF ServerInv, ServerTyped, TablesInv, KeptAlways, ScanInv, ReadAnew, ListedAre,
         AlikeWhenWhole, StuckFew
    <2> QED
      BY <2>3, <2>4
  <1>4. CASE c.kind = "scan"
    <2>1. CASE MayBegin
      <3>1. job' = ScanJob /\ Replied(i, Shows([View EXCEPT !.phase = "scanning"])) /\ UNCHANGED osv
        BY <1>4, <2>1 DEF ServeSoftware
      <3>2. Shows([View EXCEPT !.phase = "scanning"]) \in Overviews
        BY ViewIsGood DEF Shows, Overviews
      <3>3. PageTyped'
        BY <1>4, <3>1, <3>2, ReplyKeeps DEF Buttons
      <3> QED
        BY <1>0, <2>1, <3>1, <3>3, ScanStarts
    <2>2. CASE ~MayBegin
      <3>1. Replied(i, Refused) /\ UNCHANGED <<job, osv>>
        BY <1>4, <2>2 DEF ServeSoftware
      <3> QED
        BY <1>0, <1>4, <3>1, ReplyKeeps, ServerKept DEF server_side, Buttons
    <2> QED
      BY <2>1, <2>2
  <1>5. CASE c.kind = "check"
    <2>1. CASE MayBegin /\ osv
      <3>1. job' = CheckJob /\ Replied(i, Shows([View EXCEPT !.phase = "checking"])) /\ UNCHANGED osv
        BY <1>5, <2>1 DEF ServeSoftware
      <3>2. Shows([View EXCEPT !.phase = "checking"]) \in Overviews
        BY ViewIsGood DEF Shows, Overviews
      <3>3. PageTyped'
        BY <1>5, <3>1, <3>2, ReplyKeeps DEF Buttons
      <3> QED
        BY <1>0, <2>1, <3>1, <3>3, CheckStarts
    <2>2. CASE ~(MayBegin /\ osv)
      <3>1. Replied(i, Refused) /\ UNCHANGED <<job, osv>>
        BY <1>5, <2>2 DEF ServeSoftware
      <3> QED
        BY <1>0, <1>5, <3>1, ReplyKeeps, ServerKept DEF server_side, Buttons
    <2> QED
      BY <2>1, <2>2
  <1> QED
    BY <1>0, <1>1, <1>2, <1>3, <1>4, <1>5 DEF GoodCalls, Buttons

LEMMA ComesKeeps ==
    ASSUME PageTyped, NEW i \in DOMAIN calls, SoftwareComes(i)
    PROVE  PageTyped'
  <1> PICK c : c = calls[i]
    OBVIOUS
  <1>0. c \in GoodCalls /\ c.reply # Unserved
    BY CallAt DEF SoftwareComes, Unserved
  <1>1. /\ calls \in Seq(GoodCalls) /\ Len(calls) \in Nat /\ Len(calls) <= MaxCalls /\ MaxCalls \in Nat
        /\ Rest(i) \in Seq(GoodCalls) /\ Len(Rest(i)) = Len(calls) - 1
        /\ Again(i) \in Seq(GoodCalls) /\ Len(Again(i)) = Len(calls)
    BY CallAt, InventoryAssumption DEF PageTyped
  <1>2. Len(Rest(i)) <= MaxCalls /\ Len(Again(i)) <= MaxCalls
    BY <1>1
  <1>3. CASE c.kind = "target"
    <2>1. /\ calls' = Rest(i) /\ UNCHANGED seen
          /\ sheet' = IF c.reply = Refused THEN sheet
                      ELSE [place |-> c.place, target |-> c.reply.target, whole |-> c.reply.whole]
      BY <1>3 DEF SoftwareComes
    <2>2. c.place \in Places /\ (c.reply = Refused \/ c.reply \in Sheets)
      BY <1>0, <1>3 DEF GoodCalls, Buttons
    <2>3. sheet' \in [place : Places, target : GoodTargets, whole : BOOLEAN] \cup {NoPlace}
      BY <2>1, <2>2 DEF PageTyped, Sheets
    <2> QED
      BY <1>1, <1>2, <2>1, <2>3 DEF PageTyped
  <1>4. CASE c.kind = "load"
    <2>1. calls' = Rest(i) /\ UNCHANGED sheet /\ seen' = c.reply.view
      BY <1>4 DEF SoftwareComes
    <2>2. c.reply \in Overviews
      BY <1>0, <1>4 DEF GoodCalls, Buttons
    <2>3. seen' \in GoodViews
      BY <2>1, <2>2 DEF Overviews
    <2> QED
      BY <1>1, <1>2, <2>1, <2>3 DEF PageTyped
  <1>5. CASE c.kind \in Buttons
    <2>1. calls' = Again(i) /\ UNCHANGED sheet /\ seen' = IF c.reply = Refused THEN seen ELSE c.reply.view
      BY <1>5 DEF SoftwareComes, Buttons
    <2>2. c.reply = Refused \/ c.reply \in Overviews
      BY <1>0, <1>5 DEF GoodCalls, Buttons
    <2>3. seen' \in GoodViews \cup {NoPlace}
      BY <2>1, <2>2 DEF Overviews, PageTyped
    <2> QED
      BY <1>1, <1>2, <2>1, <2>3 DEF PageTyped
  <1> QED
    BY <1>0, <1>3, <1>4, <1>5 DEF GoodCalls, Buttons

LEMMA FailsKeeps ==
    ASSUME PageTyped, NEW i \in DOMAIN calls, SoftwareFails(i)
    PROVE  PageTyped'
  <1>1. /\ Len(calls) \in Nat /\ Len(calls) <= MaxCalls /\ MaxCalls \in Nat
        /\ Rest(i) \in Seq(GoodCalls) /\ Len(Rest(i)) = Len(calls) - 1
        /\ Again(i) \in Seq(GoodCalls) /\ Len(Again(i)) = Len(calls)
    BY CallAt, InventoryAssumption DEF PageTyped
  <1>2. calls' \in {Rest(i), Again(i)} /\ UNCHANGED <<seen, sheet>>
    BY DEF SoftwareFails
  <1>3. calls' \in Seq(GoodCalls) /\ Len(calls') <= MaxCalls
    BY <1>1, <1>2
  <1> QED
    BY <1>2, <1>3 DEF PageTyped

LEMMA RestartForgets ==
    ASSUME PageTyped, Restart
    PROVE  PageTyped'
  <1>1. calls' = <<>> /\ UNCHANGED <<seen, sheet>>
    BY DEF Restart
  <1>2. calls' \in Seq(GoodCalls) /\ Len(calls') <= MaxCalls
    BY <1>1, InventoryAssumption
  <1> QED
    BY <1>1, <1>2 DEF PageTyped

LEMMA SoftwareStep ==
    ASSUME SoftwareInv, InventoryNext
    PROVE  SoftwareInv'
  <1> USE DEF SoftwareInv
  <1>1. ASSUME DailyScan PROVE SoftwareInv'
    BY <1>1, ScanStarts, PageKept DEF DailyScan, page_side
  <1>2. ASSUME OsvFails PROVE SoftwareInv'
    BY <1>2, OsvFailsKeeps, PageKept DEF OsvFails, page_side
  <1>3. ASSUME Restart PROVE SoftwareInv'
    BY <1>3, RestartKeeps, RestartForgets
  <1>4. ASSUME Changes PROVE SoftwareInv'
    BY <1>4, ChangesKeep, PageKept DEF Changes, page_side
  <1>5. ASSUME NEW p \in Places, NEW hangs \in BOOLEAN, NEW ok \in BOOLEAN, ReadPlace(p, hangs, ok) PROVE SoftwareInv'
    BY <1>5, ReadPlaceKeeps, PageKept DEF ReadPlace, page_side
  <1>6. ASSUME NEW lost \in SUBSET Places, ScanEnds(lost) PROVE SoftwareInv'
    BY <1>6, ScanEndsKeeps, PageKept DEF ScanEnds, page_side
  <1>7. ASSUME NEW lost \in SUBSET Places, NEW full \in BOOLEAN, OsvAnswers(full, lost) PROVE SoftwareInv'
    BY <1>7, OsvAnswersKeeps, PageKept DEF OsvAnswers, page_side
  <1>8. ASSUME LoadSoftware \/ PollFires \/ PressScan \/ PressCheck \/ SwitchOsv PROVE SoftwareInv'
    <2>1. /\ UNCHANGED <<server_side, seen, sheet>>
          /\ \E kind \in Buttons \cup {"load"} : Send(kind, NoPlace)
      BY <1>8 DEF LoadSoftware, PollFires, PressScan, PressCheck, SwitchOsv, Buttons
    <2> QED
      BY <2>1, ServerKept, SendKeeps
  <1>9. ASSUME NEW p \in Places, OpenSoftware(p) PROVE SoftwareInv'
    <2>1. UNCHANGED <<server_side, seen, sheet>> /\ Send("target", p)
      BY <1>9 DEF OpenSoftware
    <2> QED
      BY <2>1, ServerKept, SendKeeps
  <1>10. ASSUME NEW i \in DOMAIN calls, ServeSoftware(i) \/ SoftwareComes(i) \/ SoftwareFails(i) PROVE SoftwareInv'
    BY <1>10, ServeKeeps, ComesKeeps, FailsKeeps, ServerKept DEF SoftwareComes, SoftwareFails
  <1> QED
    BY <1>1, <1>2, <1>3, <1>4, <1>5, <1>6, <1>7, <1>8, <1>9, <1>10 DEF InventoryNext

LEMMA SoftwareNext == SoftwareInv /\ [InventoryNext]_inventory_vars => SoftwareInv'
  <1>1. ASSUME SoftwareInv, UNCHANGED inventory_vars PROVE SoftwareInv'
    BY <1>1, ServerKept, PageKept DEF SoftwareInv, inventory_vars, page_side
  <1> QED
    BY <1>1, SoftwareStep

\* What a page says of a good answer was compared.
LEMMA SaidOfGood ==
    ASSUME NEW d \in GoodViews, d.phase = "idle", d.whole, Headline(d) = "none known", NEW p \in Known(d)
    PROVE  d.targets[p].checked /\ (d.targets[p].code = "bad" => Row(d, d.targets[p]) = "known")
  <1>1. d.osv /\ AnyChecked(d) /\ p \in Places /\ d.targets[p] # NoPlace
    BY DEF Headline, Known
  <1>2. Sound(d.targets) /\ Uniform(d.targets)
    BY DEF GoodViews
  <1>3. d.targets[p].checked
    BY <1>1, <1>2 DEF AnyChecked, Known, Uniform
  <1>4. d.targets[p].code = "bad" => d.targets[p].found # "none"
    BY <1>1, <1>2, <1>3 DEF Sound, Honest
  <1> QED
    BY <1>1, <1>3, <1>4 DEF Row

LEMMA SoftwareInvTrue == SoftwareInv => SoftwareTrue
  <1> SUFFICES ASSUME SoftwareInv PROVE SoftwareTrue
    OBVIOUS
  <1>1. InventoryTypeOK
    <2>1. /\ targets \in Tables /\ stored \in Tables /\ osv \in BOOLEAN /\ unsaved \subseteq Places
          /\ job.phase \in ScanPhases /\ job.todo \subseteq job.listed /\ job.listed \subseteq Places
      BY DEF SoftwareInv, ServerInv, ServerTyped, Jobs
    <2>2. stuck \in 0..StuckAt + Cardinality(Places) - 1
      <3>1. job.todo \in SUBSET Places /\ stuck \in Nat
        BY DEF SoftwareInv, ServerInv, ServerTyped, Jobs
      <3>2. Cardinality(job.todo) \in Nat /\ Cardinality(Places) \in Nat
        BY <3>1, PlacesCounted
      <3>3. stuck + Cardinality(job.todo) <= StuckAt + Cardinality(Places) - 1 /\ StuckAt \in Nat
        BY InventoryAssumption DEF SoftwareInv, ServerInv, StuckFew
      <3> QED
        BY <3>1, <3>2, <3>3
    <2>3. seen = NoPlace \/ (seen.targets \in Tables /\ seen.phase \in ScanPhases)
      BY DEF SoftwareInv, PageTyped, GoodViews, Views
    <2>4. sheet = NoPlace \/ (sheet.place \in Places /\ sheet.target \in Targets)
      BY DEF SoftwareInv, PageTyped, GoodTargets
    <2>5. Len(calls) <= MaxCalls
      BY DEF SoftwareInv, PageTyped
    <2> QED
      BY <2>1, <2>2, <2>3, <2>4, <2>5 DEF InventoryTypeOK, ScanPhases
  <1>2. seen # NoPlace /\ seen.phase = "idle" /\ seen.whole /\ Headline(seen) = "none known" =>
            \A p \in Known(seen) : /\ seen.targets[p].checked
                                   /\ seen.targets[p].code = "bad" => Row(seen, seen.targets[p]) = "known"
    BY SaidOfGood DEF SoftwareInv, PageTyped
  <1>3. seen # NoPlace /\ sheet # NoPlace /\ sheet.whole /\ SheetSays = "none known" => sheet.target.code # "bad"
    <2>1. sheet # NoPlace => Honest(sheet.target)
      BY DEF SoftwareInv, PageTyped, GoodTargets
    <2> QED
      BY <2>1 DEF SheetSays, Row, Honest
  <1>4. ScansKept
    BY DEF SoftwareInv, ServerInv, TablesInv, KeptAlways, ScansKept
  <1> QED
    BY <1>1, <1>2, <1>3, <1>4 DEF SoftwareTrue, InventoryTrue, VerdictsCompared

\* The Software screen says only of places that were compared that nothing is
\* known, each place with an advisory shows it, and the database holds what is
\* in memory, through faults and restarts at any moment (inventory/manager.go).
THEOREM SoftwareHolds == InventorySpec => []SoftwareTrue
  BY SoftwareInit, SoftwareNext, SoftwareInvTrue, PTL DEF InventorySpec

-----------------------------------------------------------------------------
(* Bay: the containers screen.                                             *)

Typing == Searches \cup {Nothing}
SomeCables == [id : Ids, net : NetNames, lit : BOOLEAN, placed : BOOLEAN]
Bays == [kind : {"none", "error", "empty", "rows"}, rows : SUBSET Boxes, cables : SUBSET SomeCables]
BayTyped ==
    /\ fleet \in Fleets /\ ctData \in Fleets \cup {Absent}
    /\ asks \in Seq(Fleets \cup {Nothing}) /\ Len(asks) <= 2
    /\ engine \in Engines /\ query \in Typing /\ runningOnly \in BOOLEAN
    /\ hl \in NetNames \cup {Nothing} /\ view \in {"map", "table"}
    /\ typed \in Typing /\ waiting \in BOOLEAN
    /\ bay \in Bays /\ help \in Nat \cup {Nothing}
    /\ stage \in Engines \cup {Nothing} /\ mapQuery \in [Engines -> Typing \cup {Absent}]

\* The rows are those of the answer, the engine, the search and the filter in
\* force, unless an answer is still to come.
RowsOf(d, e, q, running) == {b \in OfEngine(d, e) : ctMatches(d, b, q, running)}
RowsNow == bay.kind = "rows" /\ asks = <<>> => bay.rows = RowsOf(ctData, engine, query, runningOnly)
\* So is what the map on the page was last told to search for.
MapNow == bay.kind = "rows" /\ query # Nothing /\ stage = engine /\ asks = <<>> => mapQuery[engine] = query
MapMade == stage \in Engines => mapQuery[stage] # Absent
HelpNow == bay.kind = "rows" /\ help # Nothing => help = Cardinality(bay.rows)
\* Every row of the last answer has its cables, the picked network's lit; they
\* have their places when the bay is on the page.
AllCables(d, rows, lit, shown) == UNION {CablesOf(d, {b}, b.engine, lit, shown) : b \in rows}
CablesNow == bay.kind = "rows" =>
    /\ ctData # Absent
    /\ \E s \in BOOLEAN : (view = "table" => s) /\ bay.cables = AllCables(ctData, bay.rows, hl, s)
BayInv == BayTyped /\ RowsNow /\ MapNow /\ MapMade /\ HelpNow /\ CablesNow

\* A container has a cable to a network that its engine has and it is on.
Runs(d, b, e, n) == n \in NetsOf(d, e) /\ ~b.locked /\ n \in d.on[b.id]

LEMMA CablesAre ==
    ASSUME NEW d, NEW rows, NEW e, NEW lit, NEW s, NEW c
    PROVE  c \in CablesOf(d, rows, e, lit, s) <=>
               \E b \in rows : \E n : Runs(d, b, e, n) /\ c = Cable(b.id, n, lit, s)
  <1>1. ASSUME NEW j \in Jacks(d, rows, e), c = Cable(j[1].id, j[2], lit, s)
        PROVE  \E b \in rows : \E n : Runs(d, b, e, n) /\ c = Cable(b.id, n, lit, s)
    BY <1>1 DEF Jacks, Runs
  <1>2. ASSUME NEW b \in rows, NEW n, Runs(d, b, e, n), c = Cable(b.id, n, lit, s)
        PROVE  \E j \in Jacks(d, rows, e) : c = Cable(j[1].id, j[2], lit, s)
    <2>1. <<b, n>> \in Jacks(d, rows, e)
      BY <1>2 DEF Jacks, Runs
    <2>2. <<b, n>>[1] = b /\ <<b, n>>[2] = n
      OBVIOUS
    <2> QED
      BY <1>2, <2>1, <2>2
  <1> QED
    BY <1>1, <1>2 DEF CablesOf, Cable

LEMMA AllCablesAre ==
    ASSUME NEW d, NEW rows, NEW lit, NEW s, NEW c
    PROVE  c \in AllCables(d, rows, lit, s) <=>
               \E b \in rows : \E n : Runs(d, b, b.engine, n) /\ c = Cable(b.id, n, lit, s)
  <1>1. c \in AllCables(d, rows, lit, s) <=> \E b \in rows : c \in CablesOf(d, {b}, b.engine, lit, s)
    BY DEF AllCables
  <1>2. ASSUME NEW b \in rows
        PROVE  c \in CablesOf(d, {b}, b.engine, lit, s) <=>
                   \E n : Runs(d, b, b.engine, n) /\ c = Cable(b.id, n, lit, s)
    BY CablesAre
  <1> QED
    BY <1>1, <1>2

\* The rows of one engine are drawn with the cables of each of them.
LEMMA OneEngine ==
    ASSUME NEW d, NEW e, NEW rows \in SUBSET OfEngine(d, e), NEW lit, NEW s
    PROVE  CablesOf(d, rows, e, lit, s) = AllCables(d, rows, lit, s)
  <1>1. \A b \in rows : b.engine = e
    BY DEF OfEngine
  <1>2. \A c : c \in CablesOf(d, rows, e, lit, s) <=> c \in AllCables(d, rows, lit, s)
    BY <1>1, CablesAre, AllCablesAre
  <1> QED
    BY <1>2

LEMMA CablesTyped ==
    ASSUME NEW d \in Fleets, NEW rows \in SUBSET Boxes, NEW lit, NEW s \in BOOLEAN
    PROVE  AllCables(d, rows, lit, s) \subseteq SomeCables
  <1> SUFFICES ASSUME NEW c \in AllCables(d, rows, lit, s)
               PROVE  c \in SomeCables
    OBVIOUS
  <1>1. PICK b \in rows : \E n : Runs(d, b, b.engine, n) /\ c = Cable(b.id, n, lit, s)
    BY AllCablesAre
  <1>2. PICK n : Runs(d, b, b.engine, n) /\ c = Cable(b.id, n, lit, s)
    BY <1>1
  <1>3. b.id \in Ids /\ n \in NetNames
    BY <1>2 DEF Ids, NetNames, Runs, NetsOf
  <1> QED
    BY <1>2, <1>3 DEF Cable, SomeCables

\* Drawn again, the same sockets and jacks are connected.
LEMMA DrawnAgain ==
    ASSUME NEW d, NEW rows, NEW l0, NEW s0, NEW lit, NEW shown, bay \in Bays,
           bay.rows = rows, bay.cables = AllCables(d, rows, l0, s0)
    PROVE  /\ Recabled(lit, shown).cables = AllCables(d, rows, lit, shown)
           /\ Recabled(lit, shown).kind = bay.kind /\ Recabled(lit, shown).rows = rows
  <1> DEFINE Redrawn(c) == Cable(c.id, c.net, lit, shown)
             R == Recabled(lit, shown)
  <1>1. R = [bay EXCEPT !.cables = {Redrawn(c) : c \in bay.cables}]
    BY DEF Recabled
  <1>2. R.cables = {Redrawn(c) : c \in bay.cables} /\ R.kind = bay.kind /\ R.rows = rows
    BY <1>1 DEF Bays
  <1>3. ASSUME NEW i, NEW n
        PROVE  Redrawn(Cable(i, n, l0, s0)) = Cable(i, n, lit, shown)
    BY DEF Cable
  <1>4. ASSUME NEW c \in AllCables(d, rows, l0, s0)
        PROVE  Redrawn(c) \in AllCables(d, rows, lit, shown)
    <2>1. PICK b \in rows : \E n : Runs(d, b, b.engine, n) /\ c = Cable(b.id, n, l0, s0)
      BY <1>4, AllCablesAre
    <2>2. PICK n : Runs(d, b, b.engine, n) /\ c = Cable(b.id, n, l0, s0)
      BY <2>1
    <2>3. Redrawn(c) = Cable(b.id, n, lit, shown)
      BY <2>2, <1>3
    <2> HIDE DEF Redrawn
    <2> QED
      BY <2>2, <2>3, AllCablesAre
  <1>5. ASSUME NEW c \in AllCables(d, rows, lit, shown)
        PROVE  \E a \in AllCables(d, rows, l0, s0) : c = Redrawn(a)
    <2>1. PICK b \in rows : \E n : Runs(d, b, b.engine, n) /\ c = Cable(b.id, n, lit, shown)
      BY <1>5, AllCablesAre
    <2>2. PICK n : Runs(d, b, b.engine, n) /\ c = Cable(b.id, n, lit, shown)
      BY <2>1
    <2>3. c = Redrawn(Cable(b.id, n, l0, s0))
      BY <2>2, <1>3
    <2>4. Cable(b.id, n, l0, s0) \in AllCables(d, rows, l0, s0)
      BY <2>2, AllCablesAre
    <2> HIDE DEF Redrawn
    <2> QED
      BY <2>3, <2>4
  <1> HIDE DEF Redrawn, R
  <1>6. {Redrawn(c) : c \in bay.cables} = AllCables(d, rows, lit, shown)
    BY <1>4, <1>5
  <1> QED
    BY <1>2, <1>6 DEF R

LEMMA RecabledTyped ==
    ASSUME NEW lit, NEW shown \in BOOLEAN, bay \in Bays
    PROVE  /\ Recabled(lit, shown).kind = bay.kind /\ Recabled(lit, shown).rows = bay.rows
           /\ Recabled(lit, shown) \in Bays
  <1>1. bay.cables \in SUBSET SomeCables
    BY DEF Bays
  <1>2. \A c \in SomeCables : Cable(c.id, c.net, lit, shown) \in SomeCables
    BY DEF Cable, SomeCables
  <1>3. PICK C \in SUBSET SomeCables : C = {Cable(c.id, c.net, lit, shown) : c \in bay.cables}
    BY <1>1, <1>2
  <1>4. Recabled(lit, shown) = [bay EXCEPT !.cables = C]
    BY <1>3 DEF Recabled
  <1> QED
    BY <1>4 DEF Bays

LEMMA RowsTyped ==
    ASSUME NEW d, NEW e, NEW q, NEW running
    PROVE  /\ RowsOf(d, e, q, running) \in SUBSET OfEngine(d, e)
           /\ RowsOf(d, e, q, running) \in SUBSET Boxes
           /\ Cardinality(RowsOf(d, e, q, running)) \in Nat
  <1>1. RowsOf(d, e, q, running) \in SUBSET OfEngine(d, e) /\ RowsOf(d, e, q, running) \in SUBSET Boxes
    BY DEF RowsOf, OfEngine
  <1> QED
    BY <1>1, BayAssumption, FS_Subset, FS_CardinalityType

LEMMA BayedIs ==
    ASSUME NEW d \in Fleets, NEW e, NEW q, NEW running, NEW lit, NEW shown \in BOOLEAN
    PROVE  /\ Bayed(d, e, q, running, lit, shown) \in Bays
           /\ Bayed(d, e, q, running, lit, shown).kind = "rows" =>
                  /\ Bayed(d, e, q, running, lit, shown).rows = RowsOf(d, e, q, running)
                  /\ Bayed(d, e, q, running, lit, shown).cables = AllCables(d, RowsOf(d, e, q, running), lit, shown)
  <1> DEFINE rows == RowsOf(d, e, q, running)
             cables == AllCables(d, rows, lit, shown)
  <1>1. rows \in SUBSET Boxes /\ cables \in SUBSET SomeCables /\ CablesOf(d, rows, e, lit, shown) = cables
    BY RowsTyped, CablesTyped, OneEngine
  <1>2. Bayed(d, e, q, running, lit, shown) \in
            {Empty("error"), Empty("empty"), [kind |-> "rows", rows |-> rows, cables |-> cables]}
    BY <1>1 DEF Bayed, RowsOf
  <1> HIDE DEF rows, cables
  <1>3. Empty("error") \in Bays /\ Empty("empty") \in Bays
    BY DEF Empty, Bays
  <1>4. Empty("error").kind # "rows" /\ Empty("empty").kind # "rows"
    BY DEF Empty
  <1>5. [kind |-> "rows", rows |-> rows, cables |-> cables] \in Bays
    BY <1>1 DEF Bays
  <1> QED
    BY <1>2, <1>3, <1>4, <1>5 DEF rows, cables

\* renderBay, whatever was drawn before.
LEMMA Rendered ==
    ASSUME BayInv, NEW d \in Fleets, NEW e, NEW q, NEW running, RenderBay(d, e, q, running)
    PROVE  /\ hl' \in NetNames \cup {Nothing} /\ bay' \in Bays
           /\ bay'.kind = "rows" =>
                  /\ bay'.rows = RowsOf(d, e, q, running)
                  /\ \E s \in BOOLEAN : (view = "table" => s) /\ bay'.cables = AllCables(d, bay'.rows, hl', s)
  <1>1. hl' = Lit(d, e, hl) /\ bay' = Bayed(d, e, q, running, hl', view = "table")
    BY DEF RenderBay
  <1>2. hl' \in NetNames \cup {Nothing}
    BY <1>1 DEF Lit, NetsOf, NetNames
  <1>3. PICK s \in BOOLEAN : s <=> view = "table"
    OBVIOUS
  <1>4. s = (view = "table")
    BY <1>3
  <1>5. bay' = Bayed(d, e, q, running, hl', s)
    BY <1>1, <1>4
  <1> QED
    BY <1>2, <1>3, <1>5, BayedIs

\* renderMap: the map of the engine is there and searches for what is typed.
LEMMA MapRendered ==
    ASSUME BayInv, NEW e \in Engines, NEW q \in Typing, RenderMap(e, q)
    PROVE  /\ stage' = e /\ mapQuery' \in [Engines -> Typing \cup {Absent}]
           /\ q # Nothing => mapQuery'[e] = q
           /\ mapQuery'[e] # Absent
  <1>1. stage' = e /\ mapQuery' = [mapQuery EXCEPT ![e] = Searched(q, mapQuery[e])]
    BY DEF RenderMap, MapQueries
  <1>2. mapQuery \in [Engines -> Typing \cup {Absent}] /\ mapQuery[e] \in Typing \cup {Absent}
    BY DEF BayInv, BayTyped
  <1>3. Searched(q, mapQuery[e]) \in Typing /\ (q # Nothing => Searched(q, mapQuery[e]) = q)
    BY <1>2 DEF Searched, Typing
  <1>4. Absent \notin Typing
    BY BayAssumption DEF Typing
  <1> QED
    BY <1>1, <1>2, <1>3, <1>4

LEMMA BayFirst ==
    ASSUME BayInit
    PROVE  BayInv
  <1>1. PICK up \in FirstUps, lost \in SUBSET Traps :
            fleet = [up |-> up, nets |-> NetNames, on |-> Plugged, alive |-> Engines, lost |-> lost]
    BY DEF BayInit
  <1>2. fleet \in Fleets
    BY <1>1, BayAssumption DEF Fleets
  <1>3. asks \in Seq(Fleets \cup {Nothing}) /\ Len(asks) = 1
    BY DEF BayInit
  <1>4. bay \in Bays /\ bay.kind = "none"
    BY DEF BayInit, Empty, Bays
  <1>5. mapQuery \in [Engines -> Typing \cup {Absent}]
    BY DEF BayInit
  <1>6. BayTyped
    <2>1. Len(asks) <= 2
      BY <1>3
    <2>3. ctData \in Fleets \cup {Absent}
      BY DEF BayInit
    <2>4. runningOnly \in BOOLEAN /\ waiting \in BOOLEAN
      BY DEF BayInit
    <2>2. /\ engine \in Engines /\ query \in Typing /\ typed \in Typing /\ hl \in NetNames \cup {Nothing}
          /\ view \in {"map", "table"} /\ help \in Nat \cup {Nothing} /\ stage \in Engines \cup {Nothing}
      BY DEF BayInit, Typing
    <2> QED
      BY <1>2, <1>3, <1>4, <1>5, <2>1, <2>2, <2>3, <2>4 DEF BayTyped
  <1>7. stage \notin Engines
    BY BayAssumption DEF BayInit
  <1> QED
    BY <1>4, <1>6, <1>7 DEF BayInv, RowsNow, MapNow, MapMade, HelpNow, CablesNow

LEMMA AskKeeps ==
    ASSUME BayInv, Ask
    PROVE  BayInv'
  <1>1. asks' = Append(asks, Nothing) /\ asks \in Seq(Fleets \cup {Nothing}) /\ Len(asks) < 2 /\ Len(asks) \in Nat
    BY DEF Ask, BayInv, BayTyped
  <1>2. asks' \in Seq(Fleets \cup {Nothing}) /\ Len(asks') = Len(asks) + 1
    BY <1>1, AppendProperties
  <1>3. Len(asks') <= 2 /\ asks' # <<>>
    BY <1>1, <1>2
  <1>4. BayTyped'
    BY <1>2, <1>3 DEF Ask, BayInv, BayTyped
  <1> QED
    BY <1>3, <1>4 DEF Ask, BayInv, RowsNow, MapNow, MapMade, HelpNow, CablesNow

LEMMA AnswerKeeps ==
    ASSUME BayInv, NEW i \in DOMAIN asks, Answer(i)
    PROVE  BayInv'
  <1>1. asks' = [asks EXCEPT ![i] = fleet] /\ asks \in Seq(Fleets \cup {Nothing}) /\ fleet \in Fleets
        /\ i \in 1..Len(asks) /\ Len(asks) \in Nat /\ Len(asks) <= 2
    BY DEF Answer, BayInv, BayTyped
  <1>2. asks' \in Seq(Fleets \cup {Nothing}) /\ Len(asks') = Len(asks)
    BY <1>1, ExceptSeq
  <1>3. Len(asks') <= 2 /\ asks' # <<>>
    BY <1>1, <1>2
  <1>4. BayTyped'
    BY <1>2, <1>3 DEF Answer, BayInv, BayTyped
  <1> QED
    BY <1>3, <1>4 DEF Answer, BayInv, RowsNow, MapNow, MapMade, HelpNow, CablesNow

LEMMA AsksLess ==
    ASSUME BayInv, NEW i \in DOMAIN asks
    PROVE  Less(asks, i) \in Seq(Fleets \cup {Nothing}) /\ Len(Less(asks, i)) <= 2
  <1>1. asks \in Seq(Fleets \cup {Nothing}) /\ Len(asks) <= 2 /\ Len(asks) \in Nat
    BY DEF BayInv, BayTyped
  <1>2. Less(asks, i) \in Seq(Fleets \cup {Nothing}) /\ Len(Less(asks, i)) = Len(asks) - 1
    BY <1>1, OneLess DEF Less
  <1> QED
    BY <1>1, <1>2

LEMMA LoadedKeeps ==
    ASSUME BayInv, NEW i \in DOMAIN asks, Loaded(i)
    PROVE  BayInv'
  <1>1. asks[i] \in Fleets /\ ctData' = asks[i]
    BY DEF Loaded, BayInv, BayTyped
  <1>2. ctData' \in Fleets /\ ctData' # Absent /\ RenderBay(ctData', engine, query, runningOnly) /\ RenderMap(engine, query)
    BY <1>1, FleetsAssumption DEF Loaded
  <1>3. engine \in Engines /\ query \in Typing
    BY DEF BayInv, BayTyped
  <1>4. /\ hl' \in NetNames \cup {Nothing} /\ bay' \in Bays
        /\ bay'.kind = "rows" =>
               /\ bay'.rows = RowsOf(ctData', engine, query, runningOnly)
               /\ \E s \in BOOLEAN : (view = "table" => s) /\ bay'.cables = AllCables(ctData', bay'.rows, hl', s)
    BY <1>2, Rendered
  <1>5. /\ stage' = engine /\ mapQuery' \in [Engines -> Typing \cup {Absent}]
        /\ query # Nothing => mapQuery'[engine] = query
        /\ mapQuery'[engine] # Absent
    BY <1>2, <1>3, MapRendered
  <1>6. asks' \in Seq(Fleets \cup {Nothing}) /\ Len(asks') <= 2
    BY AsksLess DEF Loaded
  <1>7. BayTyped'
    BY <1>2, <1>3, <1>4, <1>5, <1>6 DEF Loaded, BayInv, BayTyped
  <1>8. RowsNow' /\ CablesNow'
    BY <1>2, <1>4 DEF Loaded, RowsNow, CablesNow
  <1>9. MapNow' /\ MapMade' /\ HelpNow'
    BY <1>5 DEF Loaded, MapNow, MapMade, HelpNow
  <1> QED
    BY <1>7, <1>8, <1>9 DEF BayInv

LEMMA LoadErrorKeeps ==
    ASSUME BayInv, NEW i \in DOMAIN asks, LoadError(i)
    PROVE  BayInv'
  <1>1. asks' \in Seq(Fleets \cup {Nothing}) /\ Len(asks') <= 2
    BY AsksLess DEF LoadError
  <1>2. bay' \in Bays /\ bay'.kind = "error"
    BY DEF LoadError, Empty, Bays
  <1>3. BayTyped'
    BY <1>1, <1>2 DEF LoadError, BayInv, BayTyped
  <1> QED
    BY <1>2, <1>3 DEF LoadError, BayInv, RowsNow, MapNow, MapMade, HelpNow, CablesNow

LEMMA PickEngineTabKeeps ==
    ASSUME BayInv, NEW e \in Engines, PickEngineTab(e)
    PROVE  BayInv'
  <1>1. asks' = Append(asks, Nothing) /\ asks \in Seq(Fleets \cup {Nothing}) /\ Len(asks) < 2 /\ Len(asks) \in Nat
    BY DEF PickEngineTab, BayInv, BayTyped
  <1>2. asks' \in Seq(Fleets \cup {Nothing}) /\ Len(asks') = Len(asks) + 1
    BY <1>1, AppendProperties
  <1>3. Len(asks') <= 2 /\ asks' # <<>>
    BY <1>1, <1>2
  <1>4. BayTyped'
    BY <1>2, <1>3 DEF PickEngineTab, BayInv, BayTyped
  <1> QED
    BY <1>3, <1>4 DEF PickEngineTab, BayInv, RowsNow, MapNow, MapMade, HelpNow, CablesNow

LEMMA PickTableOrMapKeeps ==
    ASSUME BayInv, NEW v \in {"map", "table"}, PickTableOrMap(v)
    PROVE  BayInv'
  <1>1. bay \in Bays /\ engine \in Engines /\ query \in Typing
    BY DEF BayInv, BayTyped
  <1>2. /\ bay' \in Bays /\ bay'.kind = bay.kind /\ bay'.rows = bay.rows
        /\ bay'.kind = "rows" => \E s \in BOOLEAN :
               (view' = "table" => s) /\ bay'.cables = AllCables(ctData, bay.rows, hl, s)
    <2>1. CASE v # "table"
      BY <1>1, <2>1 DEF PickTableOrMap, Viewed, BayInv, CablesNow
    <2>2. CASE v = "table"
      <3>1. bay' = Recabled(hl, TRUE)
        BY <2>2 DEF PickTableOrMap, Viewed
      <3>2. /\ Recabled(hl, TRUE).kind = bay.kind /\ Recabled(hl, TRUE).rows = bay.rows
            /\ Recabled(hl, TRUE) \in Bays
        BY <1>1, RecabledTyped
      <3>3. ASSUME bay.kind = "rows"
            PROVE  bay'.cables = AllCables(ctData, bay.rows, hl, TRUE)
        <4>1. PICK s \in BOOLEAN : bay.cables = AllCables(ctData, bay.rows, hl, s)
          BY <3>3 DEF BayInv, CablesNow
        <4>2. PICK shown \in BOOLEAN : shown = TRUE
          OBVIOUS
        <4>3. Recabled(hl, shown).cables = AllCables(ctData, bay.rows, hl, shown)
          BY <1>1, <4>1, DrawnAgain
        <4> QED
          BY <3>1, <4>2, <4>3
      <3> QED
        BY <3>1, <3>2, <3>3
    <2> QED
      BY <2>1, <2>2
  <1>3. CASE v = "map" /\ ctData # Absent
    <2>1. /\ stage' = engine /\ mapQuery' \in [Engines -> Typing \cup {Absent}]
          /\ query # Nothing => mapQuery'[engine] = query
          /\ mapQuery'[engine] # Absent
      BY <1>1, <1>3, MapRendered DEF PickTableOrMap
    <2>2. BayTyped'
      BY <1>1, <1>2, <2>1 DEF PickTableOrMap, BayInv, BayTyped
    <2>3. MapNow' /\ MapMade'
      BY <2>1 DEF PickTableOrMap, MapNow, MapMade
    <2> QED
      BY <1>2, <2>2, <2>3 DEF PickTableOrMap, BayInv, RowsNow, HelpNow, CablesNow
  <1>4. CASE ~(v = "map" /\ ctData # Absent)
    <2>1. UNCHANGED <<stage, mapQuery>>
      BY <1>4 DEF PickTableOrMap
    <2>2. BayTyped'
      BY <1>1, <1>2, <2>1 DEF PickTableOrMap, BayInv, BayTyped
    <2>3. MapNow' /\ MapMade'
      BY <1>2, <2>1 DEF PickTableOrMap, BayInv, MapNow, MapMade
    <2> QED
      BY <1>2, <2>2, <2>3 DEF PickTableOrMap, BayInv, RowsNow, HelpNow, CablesNow
  <1> QED
    BY <1>3, <1>4

LEMMA PickRunningKeeps ==
    ASSUME BayInv, NEW on \in BOOLEAN, PickRunning(on)
    PROVE  BayInv'
  <1>1. ctData \in Fleets /\ ctData # Absent /\ engine \in Engines /\ query \in Typing
    BY DEF PickRunning, BayInv, BayTyped
  <1>2. RenderBay(ctData, engine, query, on) /\ RenderMap(engine, query)
    BY DEF PickRunning
  <1>3. /\ hl' \in NetNames \cup {Nothing} /\ bay' \in Bays
        /\ bay'.kind = "rows" =>
               /\ bay'.rows = RowsOf(ctData, engine, query, on)
               /\ \E s \in BOOLEAN : (view = "table" => s) /\ bay'.cables = AllCables(ctData, bay'.rows, hl', s)
    BY <1>1, <1>2, Rendered
  <1>4. /\ stage' = engine /\ mapQuery' \in [Engines -> Typing \cup {Absent}]
        /\ query # Nothing => mapQuery'[engine] = query
        /\ mapQuery'[engine] # Absent
    BY <1>1, <1>2, MapRendered
  <1>5. BayTyped'
    BY <1>1, <1>3, <1>4 DEF PickRunning, BayInv, BayTyped
  <1>6. RowsNow' /\ CablesNow'
    BY <1>1, <1>3 DEF PickRunning, RowsNow, CablesNow
  <1>7. MapNow' /\ MapMade' /\ HelpNow'
    BY <1>4 DEF PickRunning, MapNow, MapMade, HelpNow
  <1> QED
    BY <1>5, <1>6, <1>7 DEF BayInv

LEMMA SearchFiresKeeps ==
    ASSUME BayInv, SearchFires
    PROVE  BayInv'
  <1>1. engine \in Engines /\ typed \in Typing /\ bay \in Bays /\ query' = typed
    BY DEF SearchFires, BayInv, BayTyped
  <1>2. CASE ctData = Absent
    <2>1. bay.kind # "rows" /\ UNCHANGED <<hl, bay, help, mapQuery>>
      BY <1>2 DEF SearchFires, BayInv, CablesNow
    <2>2. BayTyped'
      BY <1>1, <2>1 DEF SearchFires, BayInv, BayTyped
    <2> QED
      BY <2>1, <2>2 DEF SearchFires, BayInv, RowsNow, MapNow, MapMade, HelpNow, CablesNow
  <1>3. CASE ctData # Absent
    <2>1. ctData \in Fleets /\ RenderBay(ctData, engine, typed, runningOnly)
      BY <1>3 DEF SearchFires, BayInv, BayTyped
    <2>2. /\ hl' \in NetNames \cup {Nothing} /\ bay' \in Bays
          /\ bay'.kind = "rows" =>
                 /\ bay'.rows = RowsOf(ctData, engine, typed, runningOnly)
                 /\ \E s \in BOOLEAN : (view = "table" => s) /\ bay'.cables = AllCables(ctData, bay'.rows, hl', s)
      BY <2>1, Rendered
    <2>3. help' = Counted(typed, RowsOf(ctData, engine, typed, runningOnly))
      BY <1>3 DEF SearchFires, RowsOf
    <2>4. help' \in Nat \cup {Nothing} /\ HelpNow'
      BY <2>2, <2>3, RowsTyped DEF Counted, HelpNow
    <2>5. mapQuery' = [mapQuery EXCEPT ![engine] = IF mapQuery[engine] = Absent THEN Absent ELSE typed]
      BY <1>3 DEF SearchFires
    <2>6. mapQuery \in [Engines -> Typing \cup {Absent}] /\ Absent \notin Typing
      BY BayAssumption DEF BayInv, BayTyped, Typing
    <2>7. /\ mapQuery' \in [Engines -> Typing \cup {Absent}]
          /\ mapQuery[engine] # Absent => mapQuery'[engine] = typed
          /\ \A e \in Engines : mapQuery[e] # Absent => mapQuery'[e] # Absent
      BY <1>1, <2>5, <2>6
    <2>8. BayTyped'
      BY <1>1, <2>2, <2>4, <2>7 DEF SearchFires, BayInv, BayTyped
    <2>9. MapNow' /\ MapMade'
      BY <1>1, <2>7 DEF SearchFires, BayInv, MapNow, MapMade
    <2>10. RowsNow' /\ CablesNow'
      BY <1>1, <1>3, <2>2 DEF SearchFires, RowsNow, CablesNow
    <2> QED
      BY <2>4, <2>8, <2>9, <2>10 DEF BayInv
  <1> QED
    BY <1>2, <1>3

LEMMA TypeKeeps ==
    ASSUME BayInv, NEW q \in Searches \cup {Nothing}, Type(q)
    PROVE  BayInv'
  <1>1. BayTyped'
    BY DEF Type, BayInv, BayTyped, Typing
  <1> QED
    BY <1>1 DEF Type, BayInv, RowsNow, MapNow, MapMade, HelpNow, CablesNow

LEMMA PickNetKeeps ==
    ASSUME BayInv, NEW n \in NetNames, PickNet(n)
    PROVE  BayInv'
  <1>1. PICK s \in BOOLEAN : s <=> view = "table"
    OBVIOUS
  <1>2. s = (view = "table")
    BY <1>1
  <1>3. bay' = Recabled(hl', s) /\ hl' \in NetNames \cup {Nothing}
    BY <1>2 DEF PickNet, BayInv, BayTyped
  <1>4. bay \in Bays
    BY DEF BayInv, BayTyped
  <1>5. bay' \in Bays /\ bay'.kind = bay.kind /\ bay'.rows = bay.rows
    BY <1>3, <1>4, RecabledTyped
  <1>6. ASSUME bay.kind = "rows"
        PROVE  bay'.cables = AllCables(ctData, bay.rows, hl', s)
    <2>1. PICK s0 \in BOOLEAN : bay.cables = AllCables(ctData, bay.rows, hl, s0)
      BY <1>6 DEF BayInv, CablesNow
    <2> QED
      BY <1>3, <1>4, <2>1, DrawnAgain
  <1>7. BayTyped'
    BY <1>3, <1>5 DEF PickNet, BayInv, BayTyped
  <1>8. CablesNow'
    BY <1>1, <1>5, <1>6 DEF PickNet, BayInv, CablesNow
  <1> QED
    BY <1>5, <1>7, <1>8 DEF PickNet, BayInv, RowsNow, MapNow, MapMade, HelpNow

LEMMA Flipped ==
    ASSUME NEW A, NEW S \in SUBSET A, NEW x \in A
    PROVE  Flip(S, x) \in SUBSET A
  BY DEF Flip

LEMMA HappensKeeps ==
    ASSUME BayInv, Happens
    PROVE  BayInv'
  <1>1. fleet \in Fleets
    BY DEF BayInv, BayTyped
  <1>2. ASSUME NEW b \in Boxes, fleet' = [fleet EXCEPT !.up = Flip(fleet.up, b.id)]
        PROVE  fleet' \in Fleets
    <2>1. Flip(fleet.up, b.id) \in SUBSET Ids
      BY <1>1, Flipped DEF Fleets, Ids
    <2> QED
      BY <1>1, <1>2, <2>1 DEF Fleets
  <1>3. ASSUME NEW b \in Boxes, NEW n \in Nets,
               fleet' = [fleet EXCEPT !.on = [fleet.on EXCEPT ![b.id] = Flip(fleet.on[b.id], n.name)]]
        PROVE  fleet' \in Fleets
    <2>1. fleet.on \in [Ids -> SUBSET NetNames] /\ b.id \in Ids /\ n.name \in NetNames
      BY <1>1 DEF Fleets, Ids, NetNames
    <2>2. Flip(fleet.on[b.id], n.name) \in SUBSET NetNames
      BY <2>1, Flipped
    <2>3. PICK on \in [Ids -> SUBSET NetNames] : on = [fleet.on EXCEPT ![b.id] = Flip(fleet.on[b.id], n.name)]
      BY <2>1, <2>2
    <2>4. fleet' = [fleet EXCEPT !.on = on]
      BY <1>3, <2>3
    <2> QED
      BY <1>1, <2>3, <2>4 DEF Fleets
  <1>4. ASSUME NEW n \in fleet.nets, fleet' = [fleet EXCEPT !.nets = fleet.nets \ {n}]
        PROVE  fleet' \in Fleets
    BY <1>1, <1>4 DEF Fleets
  <1>5. ASSUME NEW e \in Engines, fleet' = [fleet EXCEPT !.alive = Flip(fleet.alive, e)]
        PROVE  fleet' \in Fleets
    <2>1. Flip(fleet.alive, e) \in SUBSET Engines
      BY <1>1, Flipped DEF Fleets
    <2> QED
      BY <1>1, <1>5, <2>1 DEF Fleets
  <1>6. fleet' \in Fleets
    <2>1. CASE \E b \in Boxes : fleet' = [fleet EXCEPT !.up = Flip(fleet.up, b.id)]
      BY <1>2, <2>1
    <2>2. CASE \E b \in Boxes, n \in Nets : n.engine = b.engine /\ n.name \in fleet.nets
                   /\ fleet' = [fleet EXCEPT !.on = [fleet.on EXCEPT ![b.id] = Flip(fleet.on[b.id], n.name)]]
      BY <1>3, <2>2
    <2>3. CASE \E n \in fleet.nets : (\A i \in Ids : n \notin fleet.on[i])
                   /\ fleet' = [fleet EXCEPT !.nets = fleet.nets \ {n}]
      BY <1>4, <2>3
    <2>4. CASE \E e \in Engines : fleet' = [fleet EXCEPT !.alive = Flip(fleet.alive, e)]
      BY <1>5, <2>4
    <2> QED
      BY <2>1, <2>2, <2>3, <2>4 DEF Happens
  <1>7. BayTyped'
    BY <1>6 DEF Happens, BayInv, BayTyped
  <1> QED
    BY <1>7 DEF Happens, BayInv, RowsNow, MapNow, MapMade, HelpNow, CablesNow

LEMMA BaySteps ==
    ASSUME BayInv, [BayNext]_bay_vars
    PROVE  BayInv'
  <1>1. CASE UNCHANGED bay_vars
    <2>1. BayTyped'
      BY <1>1 DEF bay_vars, BayInv, BayTyped
    <2> QED
      BY <1>1, <2>1 DEF bay_vars, BayInv, RowsNow, MapNow, MapMade, HelpNow, CablesNow
  <1>2. CASE BayNext
    BY <1>2, AskKeeps, SearchFiresKeeps, HappensKeeps, AnswerKeeps, LoadedKeeps, LoadErrorKeeps,
       PickEngineTabKeeps, PickTableOrMapKeeps, PickRunningKeeps, TypeKeeps, PickNetKeeps DEF BayNext, Typing
  <1> QED
    BY <1>1, <1>2

\* The panels on ports say the truth of any answer.
LEMMA PortsTold ==
    ASSUME NEW d \in Fleets, NEW b \in Boxes, b.engine \in d.alive, b.id \in d.up, NEW u \in b.ports
    PROVE  /\ u.port \in HostPorts
           /\ \E o \in Owners(d, u.port) : o[1] = b /\ o[2] = u
           /\ PortState(d, u.port) \in {"in use", "conflict"}
           /\ u.port \in d.lost => \A e : Finding(d, e) = "honeypot lost"
  <1>1. u.port \in HostPorts
    BY DEF HostPorts
  <1>2. <<b, u>> \in Owners(d, u.port) /\ <<b, u>>[1] = b /\ <<b, u>>[2] = u
    BY DEF Owners
  <1>3. u.port \in Traps => Conflict(d, u.port)
    BY <1>2 DEF Conflict
  <1>4. PortState(d, u.port) \in {"in use", "conflict"}
    BY <1>2, <1>3 DEF PortState, Failed
  <1>5. ASSUME u.port \in d.lost, NEW e
        PROVE  Finding(d, e) = "honeypot lost"
    <2>1. u.port \in Traps
      BY <1>5 DEF Fleets
    <2> QED
      BY <1>1, <1>3, <1>5, <2>1 DEF Finding, Failed
  <1> QED
    BY <1>1, <1>2, <1>4, <1>5

LEMMA CoverTold ==
    ASSUME NEW d \in Fleets, NEW cov \in Covers, NEW b \in Boxes, b.engine \in d.alive, b.id \in d.up,
           NEW u \in b.ports, u.ip = Everywhere, Exposure(d, cov) = "covered"
    PROVE  BanStops(b, cov)
  <1>1. PICK o \in Owners(d, u.port) : o[1] = b /\ o[2] = u
    BY PortsTold
  <1>2. u.port \in OpenPorts(d)
    BY <1>1, PortsTold DEF OpenPorts
  <1>3. b.engine = "docker" => \E p \in OpenPorts(d) : \E q \in Owners(d, p) : q[1].engine = "docker"
    BY <1>1, <1>2
  <1>4. cov.method \in {"iptables", "ufw", "log", "none"} /\ cov.chain \in BOOLEAN /\ cov.covered \in BOOLEAN
    BY BayAssumption
  <1>5. cov.method \notin {"none", "log"}
    BY <1>2 DEF Exposure
  <1>6. b.engine = "docker" => cov.method # "ufw" /\ (cov.chain => cov.covered)
    BY <1>2, <1>3, <1>4, <1>5 DEF Exposure
  <1> QED
    BY <1>4, <1>5, <1>6 DEF BanStops

LEMMA BayInvTrue ==
    ASSUME BayInv
    PROVE  ContainersTrue
  <1>1. BayTypeOK
    <2>1. \A i \in DOMAIN asks : asks[i] \in Fleets \/ asks[i] = Nothing
      BY DEF BayInv, BayTyped
    <2>2. bay.kind \in {"none", "error", "empty", "rows"} /\ bay.rows \subseteq Boxes
          /\ bay.cables \subseteq [id : Ids, net : NetNames, lit : BOOLEAN, placed : BOOLEAN]
      BY DEF BayInv, BayTyped, Bays, SomeCables
    <2>3. \A e \in Engines : mapQuery[e] \in Searches \cup {Nothing, Absent}
      BY DEF BayInv, BayTyped, Typing
    <2> QED
      BY <2>1, <2>2, <2>3 DEF BayTypeOK, BayInv, BayTyped, Typing
  <1>2. bay.kind = "rows" /\ query # Nothing /\ stage = engine /\ asks = <<>> =>
            bay.rows = Bright(ctData, engine, runningOnly, mapQuery[engine])
    <2> SUFFICES ASSUME bay.kind = "rows", query # Nothing, stage = engine, asks = <<>>
                 PROVE  bay.rows = Bright(ctData, engine, runningOnly, mapQuery[engine])
      OBVIOUS
    <2>1. bay.rows = RowsOf(ctData, engine, query, runningOnly) /\ mapQuery[engine] = query
      BY DEF BayInv, RowsNow, MapNow
    <2>2. RowsOf(ctData, engine, query, runningOnly) = Bright(ctData, engine, runningOnly, query)
      BY DEF RowsOf, Bright, OnMap, ctMatches
    <2> QED
      BY <2>1, <2>2
  <1>3. bay.kind = "rows" /\ view = "table" =>
            bay.cables = UNION {CablesOf(ctData, {b}, b.engine, hl, TRUE) : b \in bay.rows}
    <2> SUFFICES ASSUME bay.kind = "rows", view = "table"
                 PROVE  bay.cables = AllCables(ctData, bay.rows, hl, TRUE)
      BY DEF AllCables
    <2>1. PICK s \in BOOLEAN : s /\ bay.cables = AllCables(ctData, bay.rows, hl, s)
      BY DEF BayInv, CablesNow
    <2>2. s = TRUE
      BY <2>1
    <2> QED
      BY <2>1, <2>2
  <1>4. ListsAgree
    BY <1>2, <1>3 DEF BayInv, HelpNow, ListsAgree
  <1>5. PortsPanelTrue
    <2> SUFFICES ASSUME ctData \in Fleets
                 PROVE  PortsPanelTrue
      BY DEF BayInv, BayTyped, PortsPanelTrue
    <2>1. ASSUME NEW cov \in Covers, NEW b \in Boxes, b.engine \in ctData.alive, b.id \in ctData.up,
                 NEW u \in b.ports, u.ip = Everywhere, Exposure(ctData, cov) = "covered"
          PROVE  BanStops(b, cov)
      BY <2>1, CoverTold
    <2> QED
      BY <2>1, PortsTold DEF PortsPanelTrue
  <1> QED
    BY <1>1, <1>4, <1>5 DEF ContainersTrue

\* The containers screen shows in both views the rows that the engine, the
\* search and the filter in force select, with the cables of each, and its
\* panels on ports claim no cover or free port that there is not (app.js,
\* topology.js, server/containers.go).
THEOREM ContainersHold == BaySpec => []ContainersTrue
  BY BayFirst, BaySteps, BayInvTrue, PTL DEF BaySpec

-----------------------------------------------------------------------------
(* Sums.  SumFunction adds one value after the other, in an order that it  *)
(* chooses: a function on the parts of the domain, defined by recursion.   *)
(* It exists, the order does not matter, and a sum may be made class by    *)
(* class; by induction over the number of values.                          *)

\* g is what SumFunction has for each part s of S.
Picked(s) == CHOOSE x \in s : TRUE
IsSum(g, f, S) == g = [s \in SUBSET S |-> IF s = {} THEN 0 ELSE f[Picked(s)] + g[s \ {Picked(s)}]]

LEMMA PickedIn == \A s : s # {} => Picked(s) \in s
  BY DEF Picked

LEMMA SumExists ==
    ASSUME NEW S, IsFiniteSet(S), NEW f
    PROVE  \E g : IsSum(g, f, S)
  <1> DEFINE Small(n) == {s \in SUBSET S : Cardinality(s) <= n}
             Upto(g, n) == g = [s \in Small(n) |-> IF s = {} THEN 0 ELSE f[Picked(s)] + g[s \ {Picked(s)}]]
             N == {n \in Nat : \E g : Upto(g, n)}
  <1>1. \A s \in SUBSET S : IsFiniteSet(s) /\ Cardinality(s) \in Nat
    BY FS_Subset, FS_CardinalityType
  <1>2. 0 \in N
    <2>1. \A s \in Small(0) : s = {}
      BY <1>1, FS_EmptySet
    <2>2. Upto([s \in Small(0) |-> 0], 0)
      BY <2>1
    <2> QED
      BY <2>2
  <1>3. ASSUME NEW n \in Nat, n \in N PROVE n + 1 \in N
    <2>1. PICK g : Upto(g, n)
      BY <1>3
    <2> DEFINE h == [s \in Small(n + 1) |-> IF s = {} THEN 0 ELSE f[Picked(s)] + g[s \ {Picked(s)}]]
    <2>2. ASSUME NEW s \in Small(n + 1), s # {} PROVE s \ {Picked(s)} \in Small(n)
      <3>1. Picked(s) \in s
        BY <2>2, PickedIn
      <3>2. Cardinality(s \ {Picked(s)}) = Cardinality(s) - 1
        BY <1>1, <3>1, FS_RemoveElement
      <3> QED
        BY <1>1, <3>2
    <2>3. \A s \in Small(n) : s \in Small(n + 1) /\ h[s] = g[s]
      <3>1. \A s \in Small(n) : s \in Small(n + 1)
        BY <1>1
      <3>2. \A s \in Small(n) : g[s] = IF s = {} THEN 0 ELSE f[Picked(s)] + g[s \ {Picked(s)}]
        BY <2>1
      <3> QED
        BY <3>1, <3>2
    <2>4. ASSUME NEW s \in Small(n + 1)
          PROVE  h[s] = IF s = {} THEN 0 ELSE f[Picked(s)] + h[s \ {Picked(s)}]
      BY <2>2, <2>3
    <2>5. Upto(h, n + 1)
      <3>1. h = [s \in Small(n + 1) |-> h[s]]
        OBVIOUS
      <3> HIDE DEF h, Small
      <3> QED
        BY <2>4, <3>1
    <2>6. \E e : Upto(e, n + 1)
      <3> HIDE DEF h, Upto
      <3> QED
        BY <2>5
    <2> HIDE DEF Upto
    <2> QED
      BY <2>6
  <1>4. Nat \subseteq N
    <2> HIDE DEF N
    <2> QED
      BY <1>2, <1>3, Induction
  <1>5. PICK g : Upto(g, Cardinality(S))
    BY <1>1, <1>4
  <1>6. Small(Cardinality(S)) = SUBSET S
    BY <1>1, FS_Subset
  <1> QED
    BY <1>5, <1>6 DEF IsSum

LEMMA SumOf ==
    ASSUME NEW f, IsFiniteSet(DOMAIN f)
    PROVE  \E g : IsSum(g, f, DOMAIN f) /\ SumFunction(f) = g[DOMAIN f]
  <1> DEFINE G(g) == g = [s \in SUBSET DOMAIN f |-> IF s = {} THEN 0
                          ELSE f[CHOOSE x \in s : TRUE] + g[s \ {CHOOSE x \in s : TRUE}]]
  <1>1. SumFunction(f) = (CHOOSE g : G(g))[DOMAIN f]
    BY DEF SumFunction, SumFunctionOnSet, FoldFunctionOnSet, MapThenFoldSet
  <1>2. \A g : G(g) <=> IsSum(g, f, DOMAIN f)
    BY DEF IsSum, Picked
  <1>3. \E g : G(g)
    <2> HIDE DEF G
    <2> QED
      BY <1>2, SumExists
  <1> HIDE DEF G
  <1> QED
    BY <1>1, <1>2, <1>3

\* Two sums have the same for a part on which their functions agree.
LEMMA SumAlike ==
    ASSUME NEW S, IsFiniteSet(S), NEW R \in SUBSET S, NEW f, NEW e, NEW g, NEW h,
           IsSum(g, f, S), IsSum(h, e, R), \A x \in R : f[x] = e[x]
    PROVE  g[R] = h[R]
  <1> DEFINE N == {n \in Nat : \A s \in SUBSET R : Cardinality(s) = n => g[s] = h[s]}
  <1>1. \A s \in SUBSET R : IsFiniteSet(s) /\ Cardinality(s) \in Nat
    BY FS_Subset, FS_CardinalityType
  <1>2. \A s \in SUBSET R : s # {} => /\ g[s] = f[Picked(s)] + g[s \ {Picked(s)}]
                                      /\ h[s] = e[Picked(s)] + h[s \ {Picked(s)}]
    BY DEF IsSum
  <1>3. g[{}] = 0 /\ h[{}] = 0
    BY DEF IsSum
  <1>4. 0 \in N
    BY <1>1, <1>3, FS_EmptySet
  <1>5. ASSUME NEW n \in Nat, n \in N PROVE n + 1 \in N
    <2>1. ASSUME NEW s \in SUBSET R, Cardinality(s) = n + 1 PROVE g[s] = h[s]
      <3>1. s # {}
        BY <2>1, FS_EmptySet
      <3>2. Picked(s) \in s
        BY <3>1, PickedIn
      <3>3. Cardinality(s \ {Picked(s)}) = n
        BY <1>1, <2>1, <3>2, FS_RemoveElement
      <3>4. g[s \ {Picked(s)}] = h[s \ {Picked(s)}]
        BY <1>5, <3>3
      <3> QED
        BY <1>2, <3>1, <3>2, <3>4
    <2> QED
      BY <2>1
  <1>6. Nat \subseteq N
    <2> HIDE DEF N
    <2> QED
      BY <1>4, <1>5, Induction
  <1> QED
    BY <1>1, <1>6

LEMMA SumEmpty == ASSUME NEW f, DOMAIN f = {} PROVE SumFunction(f) = 0
  <1>1. PICK g : IsSum(g, f, {}) /\ SumFunction(f) = g[{}]
    BY SumOf, FS_EmptySet
  <1> QED
    BY <1>1 DEF IsSum

LEMMA SumSome ==
    ASSUME NEW f, IsFiniteSet(DOMAIN f), DOMAIN f # {}
    PROVE  \E x \in DOMAIN f : SumFunction(f) = f[x] + SumFunction(Restrict(f, DOMAIN f \ {x}))
  <1> DEFINE S == DOMAIN f
             x == Picked(S)
             e == Restrict(f, S \ {x})
  <1>1. x \in S
    BY PickedIn
  <1>2. DOMAIN e = S \ {x} /\ \A y \in S \ {x} : e[y] = f[y]
    BY DEF Restrict
  <1>3. IsFiniteSet(S \ {x})
    BY FS_RemoveElement
  <1>4. PICK g : IsSum(g, f, S) /\ SumFunction(f) = g[S]
    BY SumOf
  <1>5. PICK h : IsSum(h, e, S \ {x}) /\ SumFunction(e) = h[S \ {x}]
    BY <1>2, <1>3, SumOf
  <1>6. g[S \ {x}] = h[S \ {x}]
    <2> HIDE DEF e, x
    <2> QED
      BY <1>2, <1>4, <1>5, SumAlike
  <1>7. g[S] = f[x] + g[S \ {x}]
    BY <1>4 DEF IsSum
  <1> QED
    BY <1>1, <1>4, <1>5, <1>6, <1>7

\* The order does not matter: any value may come first.
LEMMA SumAny ==
    ASSUME NEW S, IsFiniteSet(S), NEW f \in [S -> Int]
    PROVE  /\ SumFunction(f) \in Int
           /\ \A x \in S : SumFunction(f) = f[x] + SumFunction(Restrict(f, S \ {x}))
  <1> DEFINE Others(e, x) == Restrict(e, DOMAIN e \ {x})
             Good(e) == /\ SumFunction(e) \in Int
                        /\ \A x \in DOMAIN e : SumFunction(e) = e[x] + SumFunction(Others(e, x))
             N == {n \in Nat : \A s \in SUBSET S : Cardinality(s) <= n => Good(Restrict(f, s))}
  <1>1. \A s \in SUBSET S : IsFiniteSet(s) /\ Cardinality(s) \in Nat
    BY FS_Subset, FS_CardinalityType
  <1>2. \A s \in SUBSET S : DOMAIN Restrict(f, s) = s /\ \A y \in s : Restrict(f, s)[y] = f[y] /\ f[y] \in Int
    BY DEF Restrict
  <1>3. \A s \in SUBSET S : \A x \in s : Others(Restrict(f, s), x) = Restrict(f, s \ {x})
    BY DEF Restrict
  <1>4. 0 \in N
    <2>1. ASSUME NEW s \in SUBSET S, Cardinality(s) <= 0 PROVE Good(Restrict(f, s))
      <3>1. s = {}
        BY <1>1, <2>1, FS_EmptySet
      <3>2. SumFunction(Restrict(f, s)) = 0
        BY <1>2, <3>1, SumEmpty
      <3> QED
        BY <1>2, <3>1, <3>2
    <2> QED
      BY <2>1
  <1>5. ASSUME NEW n \in Nat, n \in N PROVE n + 1 \in N
    <2>1. ASSUME NEW s \in SUBSET S, Cardinality(s) = n + 1 PROVE Good(Restrict(f, s))
      <3> DEFINE On(t) == SumFunction(Restrict(f, t))
      <3>1. s # {}
        BY <2>1, FS_EmptySet
      <3>2. PICK z \in s : On(s) = f[z] + On(s \ {z})
        <4>1. PICK z \in s : On(s) = Restrict(f, s)[z] + SumFunction(Others(Restrict(f, s), z))
          BY <1>1, <1>2, <3>1, SumSome
        <4> QED
          BY <1>2, <1>3, <4>1
      <3>3. ASSUME NEW x \in s
            PROVE  /\ On(s \ {x}) \in Int
                   /\ \A y \in s \ {x} : On(s \ {x}) = f[y] + On((s \ {x}) \ {y})
        <4>1. Cardinality(s \ {x}) = n
          BY <1>1, <2>1, FS_RemoveElement
        <4>2. Good(Restrict(f, s \ {x}))
          <5> HIDE DEF Good
          <5> QED
            BY <1>5, <4>1
        <4> QED
          BY <1>2, <1>3, <4>2
      <3>4. ASSUME NEW x \in s PROVE On(s) = f[x] + On(s \ {x})
        <4>1. CASE x = z
          BY <3>2, <4>1
        <4>2. CASE x # z
          <5>1. /\ On(s \ {z}) = f[x] + On((s \ {z}) \ {x})
                /\ On(s \ {x}) = f[z] + On((s \ {x}) \ {z})
            BY <3>2, <3>3, <4>2
          <5>2. (s \ {z}) \ {x} = (s \ {x}) \ {z}
            OBVIOUS
          <5>3. f[x] \in Int /\ f[z] \in Int
            BY <1>2, <3>2
          <5>4. On((s \ {x}) \ {z}) \in Int
            <6>1. Cardinality((s \ {x}) \ {z}) <= n
              <7>1. Cardinality(s \ {x}) = n
                BY <1>1, <2>1, FS_RemoveElement
              <7>2. Cardinality((s \ {x}) \ {z}) = n - 1
                BY <1>1, <3>2, <4>2, <7>1, FS_RemoveElement
              <7> QED
                BY <7>2
            <6>2. Good(Restrict(f, (s \ {x}) \ {z}))
              BY <1>5, <6>1
            <6> QED
              BY <6>2
          <5>5. On((s \ {z}) \ {x}) = On((s \ {x}) \ {z})
            BY <5>2
          <5> HIDE DEF On
          <5> QED
            BY <3>2, <5>1, <5>3, <5>4, <5>5
        <4> QED
          BY <4>1, <4>2
      <3>5. On(s) \in Int
        <4>1. f[z] \in Int /\ On(s \ {z}) \in Int
          BY <1>2, <3>3
        <4> HIDE DEF On
        <4> QED
          BY <3>2, <4>1
      <3>6. DOMAIN Restrict(f, s) = s
        BY <1>2
      <3>7. ASSUME NEW x \in s
            PROVE  SumFunction(Restrict(f, s)) = Restrict(f, s)[x] + SumFunction(Others(Restrict(f, s), x))
        <4>1. Restrict(f, s)[x] = f[x] /\ Others(Restrict(f, s), x) = Restrict(f, s \ {x})
          BY <1>2, <1>3
        <4> HIDE DEF Others
        <4> QED
          BY <3>4, <4>1
      <3> HIDE DEF Others
      <3> QED
        BY <3>5, <3>6, <3>7
    <2> QED
      BY <1>1, <1>5, <2>1
  <1>6. Nat \subseteq N
    <2> HIDE DEF N
    <2> QED
      BY <1>4, <1>5, Induction
  <1>7. Good(Restrict(f, S))
    <2>1. S \in SUBSET S /\ Cardinality(S) \in N
      BY <1>1, <1>6
    <2> HIDE DEF Good
    <2> QED
      BY <1>1, <2>1
  <1>8. Restrict(f, S) = f
    BY DEF Restrict
  <1> QED
    BY <1>7, <1>8

LEMMA OneFewer ==
    ASSUME NEW S, IsFiniteSet(S), NEW n \in Nat, Cardinality(S) = n + 1
    PROVE  S # {} /\ \A x \in S : Cardinality(S \ {x}) = n
  <1>1. S # {}
    BY FS_EmptySet
  <1>2. ASSUME NEW x \in S PROVE Cardinality(S \ {x}) = n
    BY FS_RemoveElement
  <1> QED
    BY <1>1, <1>2

LEMMA SumNat ==
    ASSUME NEW S, IsFiniteSet(S), NEW f \in [S -> Nat]
    PROVE  SumFunction(f) \in Nat /\ \A x \in S : f[x] <= SumFunction(f)
  <1> DEFINE N == {n \in Nat : \A s \in SUBSET S : Cardinality(s) = n => SumFunction(Restrict(f, s)) \in Nat}
  <1>1. \A s \in SUBSET S : IsFiniteSet(s) /\ Cardinality(s) \in Nat
    BY FS_Subset, FS_CardinalityType
  <1>2. \A s \in SUBSET S : Restrict(f, s) \in [s -> Int]
    BY DEF Restrict
  <1>3. ASSUME NEW s \in SUBSET S, NEW x \in s
        PROVE  SumFunction(Restrict(f, s)) = f[x] + SumFunction(Restrict(f, s \ {x}))
    <2>1. SumFunction(Restrict(f, s)) = Restrict(f, s)[x] + SumFunction(Restrict(Restrict(f, s), s \ {x}))
      BY <1>1, <1>2, SumAny
    <2>2. Restrict(f, s)[x] = f[x] /\ Restrict(Restrict(f, s), s \ {x}) = Restrict(f, s \ {x})
      BY DEF Restrict
    <2> QED
      BY <2>1, <2>2
  <1>4. 0 \in N
    <2>1. ASSUME NEW s \in SUBSET S, Cardinality(s) = 0 PROVE SumFunction(Restrict(f, s)) \in Nat
      <3>1. s = {}
        BY <1>1, <2>1, FS_EmptySet
      <3>2. DOMAIN Restrict(f, s) = {}
        BY <3>1 DEF Restrict
      <3> QED
        BY <3>2, SumEmpty
    <2> QED
      BY <2>1
  <1>5. ASSUME NEW n \in Nat, n \in N PROVE n + 1 \in N
    <2>1. ASSUME NEW s \in SUBSET S, Cardinality(s) = n + 1 PROVE SumFunction(Restrict(f, s)) \in Nat
      <3>1. PICK x \in s : TRUE
        BY <1>1, <2>1, OneFewer
      <3>2. Cardinality(s \ {x}) = n
        BY <1>1, <2>1, OneFewer
      <3>3. SumFunction(Restrict(f, s \ {x})) \in Nat
        BY <1>5, <3>2
      <3> QED
        BY <1>3, <3>3
    <2> QED
      BY <2>1
  <1>6. Nat \subseteq N
    <2> HIDE DEF N
    <2> QED
      BY <1>4, <1>5, Induction
  <1>7. \A s \in SUBSET S : SumFunction(Restrict(f, s)) \in Nat
    BY <1>1, <1>6
  <1>8. Restrict(f, S) = f
    BY DEF Restrict
  <1>9. ASSUME NEW x \in S PROVE f[x] <= SumFunction(f)
    <2>1. SumFunction(Restrict(f, S \ {x})) \in Nat /\ f[x] \in Nat
      BY <1>7
    <2>2. SumFunction(f) = f[x] + SumFunction(Restrict(f, S \ {x}))
      BY <1>3, <1>8
    <2> QED
      BY <2>1, <2>2
  <1> QED
    BY <1>7, <1>8, <1>9

\* Values of zero may be left out.
LEMMA SumDrops ==
    ASSUME NEW S, IsFiniteSet(S), NEW f \in [S -> Int], NEW R \in SUBSET S, \A x \in S \ R : f[x] = 0
    PROVE  SumFunction(f) = SumFunction(Restrict(f, R))
  <1> DEFINE On(s) == SumFunction(Restrict(f, s))
             N == {n \in Nat : \A s \in SUBSET S : R \subseteq s /\ Cardinality(s) = n => On(s) = On(R)}
  <1>1. \A s \in SUBSET S : IsFiniteSet(s) /\ Cardinality(s) \in Nat
    BY FS_Subset, FS_CardinalityType
  <1>2. \A s \in SUBSET S : Restrict(f, s) \in [s -> Int]
    BY DEF Restrict
  <1>3. ASSUME NEW s \in SUBSET S, NEW x \in s
        PROVE  On(s) = f[x] + On(s \ {x}) /\ On(s \ {x}) \in Int
    <2>1. /\ SumFunction(Restrict(f, s)) = Restrict(f, s)[x] + SumFunction(Restrict(Restrict(f, s), s \ {x}))
          /\ SumFunction(Restrict(f, s \ {x})) \in Int
      BY <1>1, <1>2, SumAny
    <2>2. Restrict(f, s)[x] = f[x] /\ Restrict(Restrict(f, s), s \ {x}) = Restrict(f, s \ {x})
      BY DEF Restrict
    <2> QED
      BY <2>1, <2>2
  <1>4. 0 \in N
    <2>1. ASSUME NEW s \in SUBSET S, R \subseteq s, Cardinality(s) = 0 PROVE On(s) = On(R)
      <3>1. s = {}
        BY <1>1, <2>1, FS_EmptySet
      <3>2. s = R
        BY <2>1, <3>1
      <3> QED
        BY <3>2
    <2> HIDE DEF On
    <2> QED
      BY <2>1
  <1>5. ASSUME NEW n \in Nat, n \in N PROVE n + 1 \in N
    <2>1. ASSUME NEW s \in SUBSET S, R \subseteq s, Cardinality(s) = n + 1, s # R PROVE On(s) = On(R)
      <3>1. PICK x \in s : x \notin R
        BY <2>1
      <3>2. Cardinality(s \ {x}) = n
        BY <1>1, <2>1, OneFewer
      <3>3. On(s \ {x}) = On(R)
        <4> HIDE DEF On
        <4> QED
          BY <1>5, <2>1, <3>1, <3>2
      <3>4. On(s) = f[x] + On(s \ {x}) /\ On(s \ {x}) \in Int /\ f[x] = 0
        BY <1>3, <3>1
      <3> HIDE DEF On
      <3> QED
        BY <3>3, <3>4
    <2> HIDE DEF On
    <2> QED
      BY <2>1
  <1>6. Nat \subseteq N
    <2> HIDE DEF N
    <2> QED
      BY <1>4, <1>5, Induction
  <1>7. On(S) = On(R)
    <2>1. Cardinality(S) \in N
      BY <1>1, <1>6
    <2> HIDE DEF On
    <2> QED
      BY <2>1
  <1>8. Restrict(f, S) = f
    BY DEF Restrict
  <1> QED
    BY <1>7, <1>8

\* A sum may be made class by class.
ClassSums(f, c, T) == [t \in T |-> SumFunction(Restrict(f, {x \in DOMAIN f : c[x] = t}))]
LEMMA SumByClass ==
    ASSUME NEW S, IsFiniteSet(S), NEW f \in [S -> Int], NEW T, IsFiniteSet(T), NEW c \in [S -> T]
    PROVE  SumFunction(f) = SumFunction(ClassSums(f, c, T))
  <1> DEFINE On(s) == SumFunction(Restrict(f, s))
             In(s, t) == {x \in s : c[x] = t}
             G(s) == [t \in T |-> On(In(s, t))]
             N == {n \in Nat : \A s \in SUBSET S : Cardinality(s) = n => On(s) = SumFunction(G(s))}
  <1>1. \A s \in SUBSET S : IsFiniteSet(s) /\ Cardinality(s) \in Nat
    BY FS_Subset, FS_CardinalityType
  <1>2. \A s \in SUBSET S : Restrict(f, s) \in [s -> Int] /\ On(s) \in Int
    <2>1. \A s \in SUBSET S : Restrict(f, s) \in [s -> Int]
      BY DEF Restrict
    <2> QED
      BY <1>1, <2>1, SumAny
  <1>3. ASSUME NEW s \in SUBSET S, NEW x \in s
        PROVE  On(s) = f[x] + On(s \ {x})
    <2>1. SumFunction(Restrict(f, s)) = Restrict(f, s)[x] + SumFunction(Restrict(Restrict(f, s), s \ {x}))
      BY <1>1, <1>2, SumAny
    <2>2. Restrict(f, s)[x] = f[x] /\ Restrict(Restrict(f, s), s \ {x}) = Restrict(f, s \ {x})
      BY DEF Restrict
    <2> QED
      BY <2>1, <2>2
  <1>4. \A s \in SUBSET S : G(s) \in [T -> Int]
    <2>1. \A s \in SUBSET S, t \in T : In(s, t) \in SUBSET S
      OBVIOUS
    <2> HIDE DEF On, In
    <2> QED
      BY <1>2, <2>1
  <1>5. 0 \in N
    <2>1. ASSUME NEW s \in SUBSET S, Cardinality(s) = 0 PROVE On(s) = SumFunction(G(s))
      <3>1. s = {}
        BY <1>1, <2>1, FS_EmptySet
      <3>2. On({}) = 0
        <4>1. DOMAIN Restrict(f, {}) = {}
          BY DEF Restrict
        <4> QED
          BY <4>1, SumEmpty
      <3>3. \A t \in T : G(s)[t] = 0
        <4>1. \A t \in T : In(s, t) = {}
          BY <3>1
        <4> HIDE DEF On, In
        <4> QED
          BY <3>2, <4>1
      <3>4. SumFunction(G(s)) = SumFunction(Restrict(G(s), {}))
        <4> HIDE DEF G
        <4> QED
          BY <1>4, <3>3, SumDrops
      <3>5. SumFunction(Restrict(G(s), {})) = 0
        <4>1. DOMAIN Restrict(G(s), {}) = {}
          BY DEF Restrict
        <4> QED
          BY <4>1, SumEmpty
      <3> HIDE DEF On, G
      <3> QED
        BY <3>1, <3>2, <3>4, <3>5
    <2> HIDE DEF On, G
    <2> QED
      BY <2>1
  <1>6. ASSUME NEW n \in Nat, n \in N PROVE n + 1 \in N
    <2>1. ASSUME NEW s \in SUBSET S, Cardinality(s) = n + 1 PROVE On(s) = SumFunction(G(s))
      <3>1. PICK x \in s : TRUE
        BY <1>1, <2>1, OneFewer
      <3> DEFINE r == s \ {x}
                 t == c[x]
      <3>2. Cardinality(r) = n /\ r \in SUBSET S /\ t \in T /\ f[x] \in Int
        BY <1>1, <2>1, OneFewer
      <3>3. On(r) = SumFunction(G(r))
        <4> HIDE DEF On, G, r
        <4> QED
          BY <1>6, <3>2
      <3>4. G(s)[t] = f[x] + G(r)[t]
        <4>1. In(s, t) \in SUBSET S /\ x \in In(s, t) /\ In(s, t) \ {x} = In(r, t)
          OBVIOUS
        <4>2. On(In(s, t)) = f[x] + On(In(r, t))
          <5> HIDE DEF On, In, r, t
          <5> QED
            BY <1>3, <4>1
        <4> HIDE DEF On, In, r, t
        <4> QED
          BY <3>2, <4>2
      <3>5. Restrict(G(s), T \ {t}) = Restrict(G(r), T \ {t})
        <4>1. \A u \in T \ {t} : In(s, u) = In(r, u)
          OBVIOUS
        <4> HIDE DEF On, In, r, t
        <4> QED
          BY <4>1 DEF Restrict
      <3> HIDE DEF On, G, r, t
      <3>6. /\ SumFunction(G(s)) = G(s)[t] + SumFunction(Restrict(G(s), T \ {t}))
            /\ SumFunction(G(r)) = G(r)[t] + SumFunction(Restrict(G(r), T \ {t}))
        BY <1>4, <3>2, SumAny
      <3>7. SumFunction(Restrict(G(r), T \ {t})) \in Int /\ G(r)[t] \in Int
        <4>1. Restrict(G(r), T \ {t}) \in [T \ {t} -> Int] /\ IsFiniteSet(T \ {t})
          BY <1>4, <3>2, FS_RemoveElement DEF Restrict
        <4> QED
          BY <1>4, <3>2, <4>1, SumAny
      <3>8. On(s) = f[x] + On(r)
        BY <1>3, <3>1 DEF r
      <3> QED
        BY <3>2, <3>3, <3>4, <3>5, <3>6, <3>7, <3>8
    <2> HIDE DEF On, G
    <2> QED
      BY <2>1
  <1>7. Nat \subseteq N
    <2> HIDE DEF N
    <2> QED
      BY <1>5, <1>6, Induction
  <1>8. On(S) = SumFunction(G(S))
    <2>1. Cardinality(S) \in N
      BY <1>1, <1>7
    <2> HIDE DEF On, G
    <2> QED
      BY <2>1
  <1>9. Restrict(f, S) = f /\ G(S) = ClassSums(f, c, T)
    BY DEF Restrict, ClassSums
  <1> QED
    BY <1>8, <1>9

-----------------------------------------------------------------------------
(* Numbers: whole parts and rests, the greatest, the least and the value   *)
(* that stands at an index of a sorted list.                               *)

LEMMA Parts ==
    ASSUME NEW a \in Int, NEW d \in Nat \ {0}
    PROVE  a \div d \in Int /\ a % d \in 0..(d - 1) /\ a = d * (a \div d) + (a % d)
  OBVIOUS

LEMMA Multiples ==
    ASSUME NEW d \in Nat \ {0}, NEW p \in Int, NEW q \in Int, p < q
    PROVE  d * p + d <= d * q
  <1>1. d * (q - p - 1) >= 0
    <2>1. q - p - 1 \in Nat
      OBVIOUS
    <2> DEFINE k == q - p - 1
    <2>2. k \in Nat
      BY <2>1
    <2> HIDE DEF k
    <2>3. d * k >= 0
      BY <2>2
    <2> QED
      BY <2>3 DEF k
  <1>2. d * (q - p - 1) = d * q - d * p - d
    OBVIOUS
  <1> QED
    BY <1>1, <1>2

\* Hours with the same part differ by days.
LEMMA SameParts ==
    ASSUME NEW d \in Nat \ {0}, NEW a \in Int, NEW b \in Int, a % d = b % d, b - a < d, a - b < d
    PROVE  a = b
  <1> DEFINE p == a \div d
             q == b \div d
  <1>1. p \in Int /\ q \in Int /\ b - a = d * q - d * p
    <2>1. a = d * p + (a % d) /\ b = d * q + (b % d) /\ p \in Int /\ q \in Int /\ a % d \in Int
      BY Parts
    <2> HIDE DEF p, q
    <2> QED
      BY <2>1
  <1> HIDE DEF p, q
  <1>2. ~(p < q) /\ ~(q < p)
    BY <1>1, Multiples
  <1> QED
    BY <1>1, <1>2

LEMMA DivKeeps ==
    ASSUME NEW d \in Nat \ {0}, NEW a \in Int, NEW b \in Int, a <= b
    PROVE  a \div d <= b \div d
  <1> DEFINE p == a \div d
             q == b \div d
  <1>1. a = d * p + (a % d) /\ b = d * q + (b % d) /\ p \in Int /\ q \in Int /\ a % d \in 0..(d - 1) /\ b % d \in 0..(d - 1)
    BY Parts
  <1> HIDE DEF p, q
  <1>2. ~(q < p)
    BY <1>1, Multiples
  <1>3. p <= q
    BY <1>1, <1>2
  <1> QED
    BY <1>3 DEF p, q

LEMMA DivIs ==
    ASSUME NEW d \in Nat \ {0}, NEW a \in Int, NEW q \in Int, d * q <= a, a < d * q + d
    PROVE  a \div d = q
  <1> DEFINE p == a \div d
  <1>1. a = d * p + (a % d) /\ p \in Int /\ a % d \in 0..(d - 1)
    BY Parts
  <1> HIDE DEF p
  <1>2. ~(q < p) /\ ~(p < q)
    BY <1>1, Multiples
  <1>3. p = q
    BY <1>1, <1>2
  <1> QED
    BY <1>3 DEF p

LEMMA GreatestIs ==
    ASSUME NEW S \in SUBSET Int, IsFiniteSet(S), S # {}
    PROVE  Max(S) \in S /\ \A x \in S : x <= Max(S)
  <1> DEFINE N == {n \in Nat : \A s \in SUBSET S : Cardinality(s) = n /\ s # {} => \E m \in s : \A x \in s : x <= m}
  <1>1. \A s \in SUBSET S : IsFiniteSet(s) /\ Cardinality(s) \in Nat
    BY FS_Subset, FS_CardinalityType
  <1>2. 0 \in N
    BY <1>1, FS_EmptySet
  <1>3. ASSUME NEW n \in Nat, n \in N PROVE n + 1 \in N
    <2>1. ASSUME NEW s \in SUBSET S, Cardinality(s) = n + 1, s # {} PROVE \E m \in s : \A x \in s : x <= m
      <3>1. PICK y \in s : TRUE
        BY <2>1
      <3>2. CASE s \ {y} = {}
        BY <3>1, <3>2
      <3>3. CASE s \ {y} # {}
        <4>1. Cardinality(s \ {y}) = n /\ s \ {y} \in SUBSET S
          BY <1>1, <2>1, OneFewer
        <4>2. PICK m \in s \ {y} : \A x \in s \ {y} : x <= m
          BY <1>3, <3>3, <4>1
        <4>3. \A x \in s : x <= (IF m <= y THEN y ELSE m)
          BY <4>2
        <4> QED
          BY <3>1, <4>2, <4>3
      <3> QED
        BY <3>2, <3>3
    <2> QED
      BY <2>1
  <1>4. Nat \subseteq N
    <2> HIDE DEF N
    <2> QED
      BY <1>2, <1>3, Induction
  <1>5. \E m \in S : \A x \in S : x <= m
    <2>1. Cardinality(S) \in N
      BY <1>1, <1>4
    <2> QED
      BY <2>1
  <1>6. \E m \in S : \A x \in S : m >= x
    BY <1>5
  <1> QED
    BY <1>6 DEF Max

LEMMA SmallestIs ==
    ASSUME NEW S \in SUBSET Int, IsFiniteSet(S), S # {}
    PROVE  Min(S) \in S /\ \A x \in S : Min(S) <= x
  <1> DEFINE T == {-x : x \in S}
  <1>1. T \in SUBSET Int /\ T # {}
    <2>1. PICK x \in S : TRUE
      OBVIOUS
    <2>2. -x \in T
      OBVIOUS
    <2>3. T \in SUBSET Int
      OBVIOUS
    <2> QED
      BY <2>2, <2>3
  <1>2. IsFiniteSet(T)
    <2> DEFINE f == [x \in S |-> -x]
    <2>1. f \in Surjection(S, T)
      BY DEF Surjection
    <2> QED
      BY <2>1, FS_Surjection
  <1>3. Max(T) \in T /\ \A x \in T : x <= Max(T)
    <2> HIDE DEF T
    <2> QED
      BY <1>1, <1>2, GreatestIs
  <1>4. PICK m \in S : Max(T) = -m
    BY <1>3
  <1>5. \A x \in S : m <= x
    BY <1>3, <1>4
  <1>6. \E y \in S : \A x \in S : x >= y
    BY <1>5
  <1> QED
    BY <1>6 DEF Min

\* The set of the values of a function on a finite set is finite.
LEMMA ValuesFinite ==
    ASSUME NEW f, IsFiniteSet(DOMAIN f)
    PROVE  IsFiniteSet(Range(f)) /\ \A x \in DOMAIN f : f[x] \in Range(f)
  <1> DEFINE g == [x \in DOMAIN f |-> f[x]]
  <1>1. g \in Surjection(DOMAIN f, Range(f))
    BY DEF Surjection, Range
  <1> QED
    BY <1>1, FS_Surjection DEF Range

LEMMA NthIs ==
    ASSUME NEW S, IsFiniteSet(S), NEW f \in [S -> Int], NEW k \in Int, k < Cardinality(S)
    PROVE  S # {} => Nth(f, k) \in Range(f) /\ Cardinality({x \in S : f[x] <= Nth(f, k)}) > k
  <1> SUFFICES ASSUME S # {} PROVE Nth(f, k) \in Range(f) /\ Cardinality({x \in S : f[x] <= Nth(f, k)}) > k
    OBVIOUS
  <1> DEFINE V == {v \in Range(f) : Cardinality({x \in DOMAIN f : f[x] <= v}) > k}
  <1>1. Range(f) \in SUBSET Int /\ Range(f) # {} /\ IsFiniteSet(Range(f))
    BY ValuesFinite DEF Range
  <1>2. Max(Range(f)) \in V
    <2>1. Max(Range(f)) \in Range(f) /\ \A v \in Range(f) : v <= Max(Range(f))
      BY <1>1, GreatestIs
    <2>2. {x \in DOMAIN f : f[x] <= Max(Range(f))} = S
      BY <2>1 DEF Range
    <2>3. Cardinality(S) > k
      BY FS_CardinalityType
    <2> QED
      BY <2>1, <2>2, <2>3
  <1>3. V \in SUBSET Int /\ V # {} /\ IsFiniteSet(V)
    BY <1>1, <1>2, FS_Subset
  <1>4. Min(V) \in V
    <2> HIDE DEF V
    <2> QED
      BY <1>3, SmallestIs
  <1> QED
    BY <1>4 DEF Nth


-----------------------------------------------------------------------------
(* Figures: the overview, the chart and the week are sums over the log.    *)

Window(from, to, src) == {i \in DOMAIN log : log[i].at >= from /\ log[i].at < to /\ log[i].src \in src}
Made(s) == [i \in s |-> log[i].n]

LEMMA LogIs ==
    ASSUME FiguresTypeOK
    PROVE  /\ IsFiniteSet(DOMAIN log)
           /\ \A i \in DOMAIN log : log[i].at \in 0..now /\ log[i].src \in Attackers /\ log[i].n \in Nat
           /\ \A s \in SUBSET DOMAIN log : Made(s) \in [s -> Nat] /\ IsFiniteSet(s)
           /\ now \in Nat
  <1>1. /\ log \in Seq([at : 0..now, src : Attackers, n : Bursts]) /\ now \in Nat
    BY FiguresAssumption DEF FiguresTypeOK
  <1>2. DOMAIN log = 1..Len(log) /\ Len(log) \in Nat
    BY <1>1
  <1>3. IsFiniteSet(DOMAIN log)
    BY <1>2, FS_Interval
  <1>4. ASSUME NEW i \in DOMAIN log
        PROVE  log[i].at \in 0..now /\ log[i].src \in Attackers /\ log[i].n \in Nat
    <2> DEFINE S == [at : 0..now, src : Attackers, n : Bursts]
    <2>1. log[i] \in S
      <3>1. log \in Seq(S)
        BY <1>1
      <3> HIDE DEF S
      <3> QED
        BY <3>1
    <2> QED
      BY <2>1, FiguresAssumption
  <1>5. \A s \in SUBSET DOMAIN log : Made(s) \in [s -> Nat] /\ IsFiniteSet(s)
    BY <1>3, <1>4, FS_Subset DEF Made
  <1> QED
    BY <1>1, <1>3, <1>4, <1>5

LEMMA CountIs ==
    ASSUME NEW from, NEW to, NEW src
    PROVE  CountIn(log, from, to, src) = SumFunction(Made(Window(from, to, src)))
  BY DEF CountIn, Made, Window

\* What is counted at all is counted class by class.
LEMMA CountByClass ==
    ASSUME FiguresTypeOK, NEW from, NEW to, NEW src, NEW T, IsFiniteSet(T),
           NEW c \in [Window(from, to, src) -> T]
    PROVE  CountIn(log, from, to, src)
             = SumFunction([t \in T |-> SumFunction(Made({i \in Window(from, to, src) : c[i] = t}))])
  <1> DEFINE W == Window(from, to, src)
             f == Made(W)
  <1>1. W \in SUBSET DOMAIN log
    BY DEF Window
  <1>2. f \in [W -> Int] /\ IsFiniteSet(W)
    BY <1>1, LogIs
  <1>3. SumFunction(f) = SumFunction(ClassSums(f, c, T))
    <2> HIDE DEF f, W
    <2> QED
      BY <1>2, SumByClass DEF W
  <1>4. ASSUME NEW t \in T PROVE Restrict(f, {x \in DOMAIN f : c[x] = t}) = Made({i \in W : c[i] = t})
    BY DEF Restrict, Made
  <1>5. ClassSums(f, c, T) = [t \in T |-> SumFunction(Made({i \in W : c[i] = t}))]
    <2> HIDE DEF f, W
    <2> QED
      BY <1>4 DEF ClassSums
  <1> QED
    BY <1>3, <1>5, CountIs

LEMMA CountNat ==
    ASSUME FiguresTypeOK, NEW from, NEW to, NEW src
    PROVE  CountIn(log, from, to, src) \in Nat
  <1>1. Window(from, to, src) \in SUBSET DOMAIN log
    BY DEF Window
  <1> QED
    BY <1>1, LogIs, CountIs, SumNat

Hour == now \div HourTicks
Width(range) == IF range = "24h" THEN DayHours ELSE WeekDays * DayHours

LEMMA WindowIs ==
    ASSUME FiguresTypeOK, NEW range \in Ranges7
    PROVE  /\ Hour \in Int /\ Width(range) \in Nat \ {0}
           /\ Until(now) = 2 * (Hour + 1) /\ Span(range) = 2 * Width(range)
  <1>1. now \in Nat
    BY LogIs
  <1>2. DayHours \in Nat \ {0} /\ WeekDays \in Nat \ {0}
    BY FiguresAssumption
  <1>3. WeekDays * DayHours \in Nat \ {0}
    BY <1>2
  <1> DEFINE k == WeekDays * DayHours
  <1>4. k \in Nat \ {0} /\ Span(range) = IF range = "24h" THEN DayHours * 2 ELSE k * 2
    BY <1>3 DEF Span, HourTicks
  <1> HIDE DEF k
  <1> QED
    BY <1>1, <1>2, <1>4 DEF Hour, Width, Until, HourTicks, k

LEMMA BucketsAre ==
    ASSUME FiguresTypeOK, NEW range \in Ranges7
    PROVE  Buckets(range) = [h \in (Hour + 1 - Width(range))..Hour |-> CountIn(log, 2 * h, 2 * h + 2, Attackers)]
  <1> DEFINE to == Until(now)
             from == to - Span(range)
             w == Width(range)
  <1>1. Hour \in Int /\ w \in Nat \ {0} /\ to = 2 * (Hour + 1) /\ from = 2 * (Hour + 1 - w)
    BY WindowIs
  <1> HIDE DEF to, from, w
  <1>2. Hours(from, to) = (Hour + 1 - w)..Hour
    <2>1. from \div 2 = Hour + 1 - w /\ (to - 1) \div 2 = Hour
      BY <1>1
    <2> QED
      BY <2>1 DEF Hours, HourTicks
  <1>3. ASSUME NEW h \in Hours(from, to) PROVE Min({to, (h + 1) * HourTicks}) = 2 * h + 2
    <2>1. h \in Int /\ h <= Hour /\ (h + 1) * HourTicks = 2 * h + 2 /\ 2 * h + 2 <= to /\ to \in Int
      BY <1>1, <1>2, <1>3 DEF HourTicks
    <2>2. \A y \in {to, 2 * h + 2} : y >= 2 * h + 2
      BY <2>1
    <2>3. \A x \in {to, 2 * h + 2} : (\A y \in {to, 2 * h + 2} : y >= x) => x = 2 * h + 2
      BY <2>1
    <2> QED
      BY <2>1, <2>2, <2>3 DEF Min
  <1>4. \A h \in Hours(from, to) : h * HourTicks = 2 * h
    BY <1>1, <1>2 DEF HourTicks
  <1>5. Series(from, to) = [h \in Hours(from, to) |-> CountIn(log, 2 * h, 2 * h + 2, Attackers)]
    BY <1>3, <1>4 DEF Series
  <1> QED
    BY <1>2, <1>5 DEF Buckets, from, to, w

LEMMA Interval ==
    ASSUME NEW a \in Int, NEW b \in Int, a <= b
    PROVE  IsFiniteSet(a..b) /\ Cardinality(a..b) = b - a + 1
  <1>1. ~(a > b)
    OBVIOUS
  <1>2. Cardinality(a..b) = IF a > b THEN 0 ELSE b - a + 1
    BY FS_Interval
  <1> QED
    BY <1>1, <1>2, FS_Interval

LEMMA BucketsType ==
    ASSUME FiguresTypeOK, NEW range \in Ranges7
    PROVE  /\ Buckets(range) \in [(Hour + 1 - Width(range))..Hour -> Nat]
           /\ IsFiniteSet((Hour + 1 - Width(range))..Hour)
           /\ Cardinality((Hour + 1 - Width(range))..Hour) = Width(range)
           /\ Hour \in (Hour + 1 - Width(range))..Hour
           /\ (Hour + 1 - Width(range))..Hour \subseteq Int
  <1>1. Hour \in Int /\ Width(range) \in Nat \ {0}
    BY WindowIs
  <1>2. Buckets(range) \in [(Hour + 1 - Width(range))..Hour -> Nat]
    BY BucketsAre, CountNat
  <1>3. /\ IsFiniteSet((Hour + 1 - Width(range))..Hour)
        /\ Cardinality((Hour + 1 - Width(range))..Hour) = Width(range)
    <2> DEFINE a == Hour + 1 - Width(range)
    <2>1. a \in Int /\ a <= Hour /\ Hour - a + 1 = Width(range)
      BY <1>1
    <2> HIDE DEF a
    <2>2. IsFiniteSet(a..Hour) /\ Cardinality(a..Hour) = Hour - a + 1
      BY <1>1, <2>1, Interval
    <2> QED
      BY <2>1, <2>2 DEF a
  <1> QED
    BY <1>1, <1>2, <1>3

LEMMA BucketsAdd ==
    ASSUME FiguresTypeOK, NEW range \in Ranges7
    PROVE  SumFunction(Buckets(range)) = Connections(range)
  <1> DEFINE w == Width(range)
             D == (Hour + 1 - w)..Hour
             to == Until(now)
             from == to - Span(range)
             W == Window(from, to, Attackers)
             c == [i \in W |-> log[i].at \div 2]
  <1>1. Hour \in Int /\ w \in Nat \ {0} /\ to = 2 * (Hour + 1) /\ from = 2 * (Hour + 1 - w)
    BY WindowIs
  <1>2. \A i \in W : log[i].at \in Int /\ log[i].at >= from /\ log[i].at < to
    BY LogIs DEF Window
  <1> HIDE DEF to, from, w
  <1>3. c \in [W -> D]
    BY <1>1, <1>2
  <1>4. IsFiniteSet(D)
    BY <1>1, FS_Interval
  <1>5. ASSUME NEW h \in D PROVE Window(2 * h, 2 * h + 2, Attackers) = {i \in W : c[i] = h}
    BY <1>1, <1>5, LogIs DEF Window
  <1>6. CountIn(log, from, to, Attackers) = SumFunction([h \in D |-> SumFunction(Made({i \in W : c[i] = h}))])
    <2> HIDE DEF D, W, c
    <2> QED
      BY <1>3, <1>4, CountByClass DEF W
  <1>7. Buckets(range) = [h \in D |-> SumFunction(Made({i \in W : c[i] = h}))]
    <2> HIDE DEF W, c, D
    <2>1. \A h \in D : CountIn(log, 2 * h, 2 * h + 2, Attackers) = SumFunction(Made({i \in W : c[i] = h}))
      BY <1>5, CountIs
    <2>2. Buckets(range) = [h \in D |-> CountIn(log, 2 * h, 2 * h + 2, Attackers)]
      BY BucketsAre DEF w, D
    <2> QED
      BY <2>1, <2>2
  <1> QED
    BY <1>6, <1>7 DEF Connections, from, to

\* The flow and the sources share out the connections.
LEMMA FlowAdds ==
    ASSUME FiguresTypeOK, NEW range
    PROVE  SumFunction(Flow(range)) = Connections(range)
  <1> DEFINE to == Until(now)
             from == to - Span(range)
             W == Window(from, to, Attackers)
             T == Range(OutcomeOf)
             c == [i \in W |-> OutcomeOf[log[i].src]]
             all == [o \in T |-> Outcome(range, o)]
             shown == {o \in T : Outcome(range, o) > 0}
  <1>1. IsFiniteSet(T) /\ \A s \in Attackers : OutcomeOf[s] \in T
    <2>1. DOMAIN OutcomeOf = Attackers /\ IsFiniteSet(Attackers)
      BY FiguresAssumption
    <2> QED
      BY <2>1, ValuesFinite
  <1>2. c \in [W -> T]
    BY <1>1 DEF Window
  <1>3. CountIn(log, from, to, Attackers) = SumFunction([o \in T |-> SumFunction(Made({i \in W : c[i] = o}))])
    <2> HIDE DEF T, W, c
    <2> QED
      BY <1>1, <1>2, CountByClass DEF W
  <1>4. ASSUME NEW o \in T PROVE Outcome(range, o) = SumFunction(Made({i \in W : c[i] = o}))
    <2> DEFINE src == {s \in Attackers : OutcomeOf[s] = o}
    <2>1. Window(from, to, src) = {i \in W : c[i] = o}
      BY DEF Window
    <2>2. Outcome(range, o) = CountIn(log, from, to, src)
      BY DEF Outcome
    <2> HIDE DEF src, from, to, W, c
    <2> QED
      BY <2>1, <2>2, CountIs
  <1>5. Connections(range) = SumFunction(all)
    BY <1>3, <1>4 DEF Connections
  <1>6. all \in [T -> Int] /\ shown \in SUBSET T /\ \A o \in T \ shown : all[o] = 0
    BY CountNat DEF Outcome
  <1>7. SumFunction(all) = SumFunction(Restrict(all, shown))
    <2> HIDE DEF all, shown, T
    <2> QED
      BY <1>1, <1>6, SumDrops
  <1>8. Flow(range) = Restrict(all, shown)
    BY DEF Flow, Restrict
  <1> QED
    BY <1>5, <1>7, <1>8

LEMMA SourcesAdd ==
    ASSUME FiguresTypeOK, NEW range
    PROVE  /\ SumFunction([s \in Ranked(range) |-> Of(range, s)]) = Connections(range)
           /\ \A s \in Attackers : Of(range, s) \in Nat /\ Of(range, s) <= Connections(range)
  <1> DEFINE to == Until(now)
             from == to - Span(range)
             W == Window(from, to, Attackers)
             c == [i \in W |-> log[i].src]
             all == [s \in Attackers |-> Of(range, s)]
  <1>1. IsFiniteSet(Attackers)
    BY FiguresAssumption
  <1>2. c \in [W -> Attackers]
    BY DEF Window
  <1>3. CountIn(log, from, to, Attackers)
          = SumFunction([s \in Attackers |-> SumFunction(Made({i \in W : c[i] = s}))])
    <2> HIDE DEF W, c
    <2> QED
      BY <1>1, <1>2, CountByClass DEF W
  <1>4. ASSUME NEW s \in Attackers PROVE Of(range, s) = SumFunction(Made({i \in W : c[i] = s}))
    <2>1. Window(from, to, {s}) = {i \in W : c[i] = s}
      BY DEF Window
    <2> QED
      BY <2>1, CountIs DEF Of
  <1>5. Connections(range) = SumFunction(all)
    BY <1>3, <1>4 DEF Connections
  <1>6. all \in [Attackers -> Nat] /\ Ranked(range) \in SUBSET Attackers
        /\ \A s \in Attackers \ Ranked(range) : all[s] = 0
    BY CountNat DEF Of, Ranked
  <1>7. SumFunction(all) = SumFunction(Restrict(all, Ranked(range))) /\ \A s \in Attackers : all[s] <= SumFunction(all)
    <2> HIDE DEF all
    <2>1. all \in [Attackers -> Int]
      BY <1>6
    <2> QED
      BY <1>1, <1>6, <2>1, SumDrops, SumNat
  <1>8. [s \in Ranked(range) |-> Of(range, s)] = Restrict(all, Ranked(range))
    BY DEF Restrict, Ranked
  <1> QED
    BY <1>5, <1>6, <1>7, <1>8

LEMMA Highest ==
    ASSUME NEW v \in Nat \ {0}, NEW all \in SUBSET Nat, v \in all, \A x \in all : x <= v
    PROVE  Max({1} \cup all) = v
  <1>1. v \in {1} \cup all /\ \A x \in {1} \cup all : v >= x
    OBVIOUS
  <1>2. ASSUME NEW x \in {1} \cup all, \A y \in {1} \cup all : x >= y PROVE x = v
    <2>1. x >= v /\ v >= x /\ x \in Int
      BY <1>1, <1>2
    <2> QED
      BY <2>1
  <1> QED
    BY <1>1, <1>2 DEF Max

LEMMA FullBar ==
    ASSUME NEW v \in Nat \ {0}, NEW all \in SUBSET Nat, v \in all, \A x \in all : x <= v
    PROVE  Bar(v, all) = 1000
  <1>1. Max({1} \cup all) = v
    BY Highest
  <1>2. (2000 * v + v) \div (2 * v) = 1000
    <2>1. PICK d \in Nat \ {0}, a \in Int : d = 2 * v /\ a = 2000 * v + v
      OBVIOUS
    <2>2. d * 1000 <= a /\ a < d * 1000 + d
      BY <2>1
    <2>3. a \div d = 1000
      BY <2>2, DivIs
    <2> QED
      BY <2>1, <2>3
  <1> QED
    BY <1>1, <1>2 DEF Bar

LEMMA OverviewHolds ==
    ASSUME FiguresTypeOK, NEW range \in Ranges7
    PROVE  OverviewAgrees(range)
  <1> DEFINE made == Connections(range)
             before == Previous(range)
  <1>1. made \in Nat /\ before \in Nat
    BY CountNat DEF Connections, Previous
  <1>2. Total(Buckets(range)) = made /\ Total(Flow(range)) = made
    BY BucketsAdd, FlowAdds DEF Total
  <1>3. before + Delta(made, before).signed = made /\ (Delta(made, before).word \in {"new", "none"} => before = 0)
    BY <1>1 DEF Delta
  <1> QED
    BY <1>2, <1>3 DEF OverviewAgrees

LEMMA PeakIs ==
    ASSUME NEW S \in SUBSET Int, IsFiniteSet(S), S # {}, NEW f \in [S -> Nat]
    PROVE  /\ Peak(f) \in Nat /\ \A h \in S : f[h] <= Peak(f)
           /\ FirstPeak(f) \in S /\ f[FirstPeak(f)] = Peak(f)
  <1>1. {f[h] : h \in DOMAIN f} = Range(f) /\ Range(f) \in SUBSET Nat /\ Range(f) # {} /\ IsFiniteSet(Range(f))
    BY ValuesFinite DEF Range
  <1>2. Peak(f) \in Range(f) /\ \A v \in Range(f) : v <= Peak(f)
    BY <1>1, GreatestIs DEF Peak
  <1> DEFINE T == {h \in DOMAIN f : f[h] = Peak(f)}
  <1>3. T \in SUBSET Int /\ T # {} /\ IsFiniteSet(T)
    BY <1>2, FS_Subset DEF Range
  <1>4. Min(T) \in T
    <2> HIDE DEF T
    <2> QED
      BY <1>3, SmallestIs
  <1> QED
    BY <1>1, <1>2, <1>4 DEF FirstPeak, Range

LEMMA HourParts ==
    ASSUME NEW h \in Int
    PROVE  /\ DayOf(h) \in Int /\ HourOf(h) \in 0..(DayHours - 1)
           /\ h + Zone = DayHours * DayOf(h) + HourOf(h) /\ Zone \in Int /\ DayHours \in Nat \ {0}
  <1> DEFINE a == h + Zone
  <1>1. Zone \in Int /\ DayHours \in Nat \ {0} /\ a \in Int
    BY FiguresAssumption
  <1>2. DayOf(h) = a \div DayHours /\ HourOf(h) = a % DayHours
    BY DEF DayOf, HourOf
  <1> HIDE DEF a
  <1>3. /\ a \div DayHours \in Int /\ a % DayHours \in 0..(DayHours - 1)
        /\ a = DayHours * (a \div DayHours) + (a % DayHours)
    BY <1>1, Parts
  <1> QED
    BY <1>1, <1>2, <1>3 DEF a

LEMMA SameTime ==
    ASSUME NEW h \in Int, NEW g \in Int
    PROVE  /\ DayOf(h) = DayOf(g) /\ HourOf(h) = HourOf(g) => h = g
           /\ HourOf(h) = HourOf(g) /\ h - g < DayHours /\ g - h < DayHours => h = g
  <1>1. DayOf(h) = DayOf(g) /\ HourOf(h) = HourOf(g) => h = g
    <2> DEFINE k == DayHours * DayOf(h)
    <2>1. DayOf(h) = DayOf(g) => g + Zone = k + HourOf(g)
      BY HourParts
    <2>2. h + Zone = k + HourOf(h) /\ HourOf(h) \in Int /\ Zone \in Int
      BY HourParts
    <2> HIDE DEF k
    <2> QED
      BY <2>1, <2>2
  <1>2. ASSUME HourOf(h) = HourOf(g), h - g < DayHours, g - h < DayHours PROVE h = g
    <2>1. Zone \in Int /\ DayHours \in Nat \ {0} /\ (h + Zone) % DayHours = (g + Zone) % DayHours
      BY <1>2, HourParts DEF HourOf
    <2>2. h + Zone = g + Zone
      <3> DEFINE a == h + Zone
                 b == g + Zone
      <3>1. a \in Int /\ b \in Int /\ b - a < DayHours /\ a - b < DayHours /\ a % DayHours = b % DayHours
        BY <1>2, <2>1
      <3> HIDE DEF a, b
      <3>2. a = b
        BY <2>1, <3>1, SameParts
      <3> QED
        BY <3>2 DEF a, b
    <2> QED
      BY <2>1, <2>2
  <1> QED
    BY <1>1, <1>2

LEMMA PeakHolds ==
    ASSUME FiguresTypeOK, NEW range \in Ranges7
    PROVE  PeakTold(range)
  <1> DEFINE f == Buckets(range)
             w == Width(range)
             D == (Hour + 1 - w)..Hour
             m == Median(f)
  <1>1. /\ f \in [D -> Nat] /\ IsFiniteSet(D) /\ Cardinality(D) = w /\ D # {} /\ D \in SUBSET Int
        /\ Hour \in Int /\ w \in Nat \ {0}
    BY BucketsType, WindowIs
  <1>2. \A h \in D, g \in D : h - g < w /\ g - h < w
    BY <1>1
  <1> HIDE DEF f, D, w
  <1> SUFFICES ASSUME NEW p \in Named(f)
               PROVE  /\ \A h \in DOMAIN f : f[h] <= f[p]
                      /\ 2 * Cardinality({h \in DOMAIN f : 3 * f[h] < f[p]}) > Cardinality(DOMAIN f)
                      /\ \A h \in DOMAIN f \ {p} : Label(range, h) # Label(range, p)
    BY DEF PeakTold, f
  <1>3. /\ p \in D /\ f[p] = Peak(f) /\ \A h \in D : f[h] <= f[p]
        /\ f[p] > 3 * Max({1, m}) /\ f[p] \in Nat
    BY <1>1, PeakIs DEF Named
  <1>4. 2 * Cardinality({h \in DOMAIN f : 3 * f[h] < f[p]}) > Cardinality(DOMAIN f)
    <2> DEFINE low == {h \in D : f[h] <= m}
               far == {h \in D : 3 * f[h] < f[p]}
    <2>1. m \in Range(f) /\ Cardinality(low) > w \div 2
      <3> DEFINE k == w \div 2
      <3>1. k \in Int /\ k < Cardinality(D) /\ f \in [D -> Int] /\ m = Nth(f, k)
        BY <1>1 DEF Median
      <3> HIDE DEF k, m
      <3>2. Nth(f, k) \in Range(f) /\ Cardinality({x \in D : f[x] <= Nth(f, k)}) > k
        BY <1>1, <3>1, NthIs
      <3>3. m \in Range(f) /\ Cardinality(low) > k
        BY <3>1, <3>2
      <3> QED
        BY <3>3 DEF k
    <2>2. m \in Nat
      BY <1>1, <2>1 DEF Range
    <2>3. m <= Max({1, m})
      <3>1. {1, m} \in SUBSET Int /\ IsFiniteSet({1, m})
        <4>1. IsFiniteSet({1}) /\ {1, m} = {1} \cup {m}
          BY FS_Singleton
        <4> QED
          BY <2>2, <4>1, FS_AddElement
      <3> HIDE DEF m
      <3> QED
        BY <3>1, GreatestIs
    <2>4. Max({1, m}) \in Int
      <3>1. \A x \in {1, m} : x \in Int
        BY <2>2
      <3>2. \E x \in {1, m} : \A y \in {1, m} : x >= y
        <4>1. CASE m <= 1
          BY <2>2, <4>1
        <4>2. CASE m > 1
          BY <2>2, <4>2
        <4> QED
          BY <2>2, <4>1, <4>2
      <3> HIDE DEF m
      <3> QED
        BY <3>1, <3>2 DEF Max
    <2>5. low \subseteq far
      <3>1. ASSUME NEW h \in low PROVE 3 * f[h] < f[p]
        <4>1. f[h] \in Nat /\ f[h] <= m
          BY <1>1, <3>1
        <4> HIDE DEF m
        <4> QED
          BY <1>3, <2>2, <2>3, <2>4, <4>1
      <3> QED
        BY <3>1
    <2>6. Cardinality(low) <= Cardinality(far) /\ Cardinality(far) \in Nat /\ Cardinality(low) \in Nat
      <3>1. IsFiniteSet(far) /\ IsFiniteSet(low)
        BY <1>1, FS_Subset
      <3> HIDE DEF low, far
      <3> QED
        BY <2>5, <3>1, FS_Subset, FS_CardinalityType
    <2>7. far = {h \in DOMAIN f : 3 * f[h] < f[p]} /\ Cardinality(DOMAIN f) = w
      BY <1>1
    <2> HIDE DEF low, far
    <2>8. 2 * Cardinality(far) > w
      BY <1>1, <2>1, <2>6
    <2> QED
      BY <2>7, <2>8
  <1>5. ASSUME NEW h \in D \ {p} PROVE Label(range, h) # Label(range, p)
    <2>1. h \in Int /\ p \in Int /\ h # p
      BY <1>1, <1>3
    <2>2. CASE range = "24h"
      <3>1. h - p < DayHours /\ p - h < DayHours
        BY <1>2, <1>3, <2>2 DEF w, Width
      <3>2. HourOf(h) # HourOf(p)
        BY <2>1, <3>1, SameTime
      <3> QED
        BY <2>2, <3>2 DEF Label
    <2>3. CASE range # "24h"
      <3>1. DayOf(h) # DayOf(p) \/ HourOf(h) # HourOf(p)
        BY <2>1, SameTime
      <3>2. HourOf(h) \in Nat /\ HourOf(p) \in Nat
        BY <2>1, HourParts
      <3> QED
        BY <2>3, <3>1, <3>2 DEF Label
    <2> QED
      BY <2>2, <2>3
  <1> QED
    BY <1>1, <1>3, <1>4, <1>5

LEMMA LesserIs ==
    ASSUME NEW a \in Int, NEW b \in Int
    PROVE  Min({a, b}) = IF a <= b THEN a ELSE b
  <1> DEFINE m == IF a <= b THEN a ELSE b
  <1>1. m \in {a, b} /\ m \in Int /\ \A y \in {a, b} : y >= m
    OBVIOUS
  <1>2. ASSUME NEW x \in {a, b}, \A y \in {a, b} : y >= x PROVE x = m
    <2>1. m >= x /\ x >= m /\ x \in Int
      BY <1>1, <1>2
    <2> HIDE DEF m
    <2> QED
      BY <1>1, <2>1
  <1> HIDE DEF m
  <1>3. Min({a, b}) = m
    BY <1>1, <1>2 DEF Min
  <1> QED
    BY <1>3 DEF m

LEMMA ClockIs == Zone \in Int /\ DayHours \in Nat \ {0} /\ WeekDays \in Nat \ {0}
  BY FiguresAssumption

LEMMA DaysAre ==
    ASSUME FiguresTypeOK
    PROVE  LET f == Buckets("7d") IN
           /\ Rows(f) = (Today - WeekDays + 1)..Today
           /\ Today = DayOf(Hour) /\ Today \in Int /\ WeekDays \in Nat \ {0}
           /\ \A h \in DOMAIN f : DayOf(h) \in Int /\ DayOf(h) <= Today
  <1> DEFINE f == Buckets("7d")
             D == (Hour + 1 - WeekDays * DayHours)..Hour
             drawnDays == DaysOf(f)
  <1>1. /\ DOMAIN f = D /\ IsFiniteSet(D) /\ Hour \in D /\ D \subseteq Int /\ Hour \in Int
        /\ WeekDays \in Nat \ {0}
    BY BucketsType, WindowIs, FiguresAssumption DEF Width, Ranges7
  <1>2. Today = DayOf(Hour) /\ Today \in Int
    BY <1>1, HourParts DEF Today, Hour
  <1>3. ASSUME NEW h \in D PROVE DayOf(h) \in Int /\ DayOf(h) <= Today
    <2>1. h \in Int /\ h <= Hour /\ h + Zone <= Hour + Zone /\ DayHours \in Nat \ {0}
          /\ h + Zone \in Int /\ Hour + Zone \in Int
      BY <1>1, ClockIs
    <2> QED
      BY <1>2, <2>1, HourParts, DivKeeps DEF DayOf
  <1>4. drawnDays \in SUBSET Int /\ Today \in drawnDays /\ IsFiniteSet(drawnDays)
    <2> DEFINE g == [h \in D |-> DayOf(h)]
    <2>1. g \in Surjection(D, drawnDays)
      BY <1>1 DEF Surjection, DaysOf
    <2>2. IsFiniteSet(drawnDays)
      <3> HIDE DEF g, D, drawnDays
      <3> QED
        BY <1>1, <2>1, FS_Surjection
    <2> QED
      BY <1>1, <1>2, <1>3, <2>2 DEF DaysOf
  <1>5. Max(drawnDays) = Today
    <2>1. Max(drawnDays) \in drawnDays /\ Today <= Max(drawnDays)
      <3> HIDE DEF drawnDays
      <3> QED
        BY <1>4, GreatestIs
    <2>2. Max(drawnDays) <= Today /\ Max(drawnDays) \in Int
      BY <1>1, <1>3, <1>4, <2>1 DEF DaysOf
    <2> QED
      BY <1>2, <2>1, <2>2
  <1>6. ASSUME NEW d \in (Today - WeekDays + 1)..Today PROVE d \in drawnDays
    <2> DEFINE h == DayHours * d - Zone
               k == DayHours * Today
               e == DayHours * d
               w == DayHours * WeekDays
    <2>1. DayHours \in Nat \ {0} /\ Zone \in Int /\ d \in Int /\ Hour + Zone = k + HourOf(Hour)
          /\ HourOf(Hour) \in 0..(DayHours - 1) /\ k \in Int /\ e \in Int /\ w \in Int
      <3>1. DayHours \in Nat \ {0} /\ Zone \in Int /\ d \in Int /\ k \in Int /\ e \in Int /\ w \in Int
        BY <1>1, <1>2, ClockIs
      <3>2. Hour + Zone = DayHours * DayOf(Hour) + HourOf(Hour) /\ HourOf(Hour) \in 0..(DayHours - 1)
        <4> DEFINE t == Hour
        <4>1. t \in Int
          BY <1>1
        <4> HIDE DEF t
        <4>2. t + Zone = DayHours * DayOf(t) + HourOf(t) /\ HourOf(t) \in 0..(DayHours - 1)
          BY <4>1, HourParts
        <4> QED
          BY <4>2 DEF t
      <3> HIDE DEF e, w
      <3> QED
        BY <1>2, <3>1, <3>2
    <2>2. e <= k
      <3>1. d = Today \/ d < Today
        BY <1>2
      <3>2. d < Today => e + DayHours <= k
        BY <1>2, <2>1, Multiples
      <3> HIDE DEF e, k
      <3>3. d = Today => e = k
        BY DEF e, k
      <3> QED
        BY <2>1, <3>1, <3>2, <3>3
    <2>3. k - w + DayHours <= e
      <3>1. Today - WeekDays < d /\ Today - WeekDays \in Int
        BY <1>1, <1>2
      <3>2. DayHours * (Today - WeekDays) + DayHours <= DayHours * d
        BY <2>1, <3>1, Multiples
      <3>3. DayHours * (Today - WeekDays) = DayHours * Today - DayHours * WeekDays
        BY <1>1, <1>2, <2>1
      <3> QED
        BY <2>1, <3>2, <3>3
    <2>4. h \in Int /\ h <= Hour /\ Hour + 1 - w <= h /\ w = WeekDays * DayHours
      <3>1. h = e - Zone /\ w = WeekDays * DayHours
        BY <1>1, <2>1
      <3> HIDE DEF e, k, w, h
      <3> QED
        BY <1>1, <2>1, <2>2, <2>3, <3>1
    <2>5. h \in D
      <3> HIDE DEF h, w
      <3> QED
        BY <1>1, <2>1, <2>4
    <2>6. DayOf(h) = d
      <3>1. h + Zone = e
        BY <2>1
      <3>2. e \div DayHours = d
        BY <2>1, DivIs
      <3> HIDE DEF h, e
      <3> QED
        BY <3>1, <3>2 DEF DayOf
    <2> QED
      BY <1>1, <2>5, <2>6 DEF DaysOf
  <1>7. \A d \in drawnDays : d \in Int /\ d <= Today
    BY <1>1, <1>3 DEF DaysOf
  <1>8. Rows(f) = (Today - WeekDays + 1)..Today
    <2> HIDE DEF f
    <2>1. Rows(f) = {d \in drawnDays : d > Today - WeekDays}
      BY <1>5 DEF Rows
    <2> HIDE DEF drawnDays
    <2> QED
      BY <1>1, <1>2, <1>6, <1>7, <2>1
  <1> QED
    BY <1>1, <1>2, <1>3, <1>8

\* The cells of the week hold what the bars of those drawnDays hold.
LEMMA GridIs ==
    ASSUME FiguresTypeOK
    PROVE  LET f == Buckets("7d")
               cells == Rows(f) \X (0..(DayHours - 1))
           IN /\ Grid(f) \in [cells -> Nat] /\ IsFiniteSet(cells)
              /\ SumFunction(Grid(f)) = SumFunction(Restrict(f, {h \in DOMAIN f : DayOf(h) \in Rows(f)}))
              /\ \A c \in cells : isFuture(c[1], c[2]) => Grid(f)[c] = 0
  <1> DEFINE f == Buckets("7d")
             D == DOMAIN f
             rows == Rows(f)
             cells == rows \X (0..(DayHours - 1))
             S == {h \in D : DayOf(h) \in rows}
             g == Restrict(f, S)
             c == [h \in S |-> <<DayOf(h), HourOf(h)>>]
             Those(d, hr) == {h \in D : DayOf(h) = d /\ HourOf(h) = hr}
  <1>1. f \in [D -> Nat] /\ IsFiniteSet(D) /\ D \subseteq Int /\ \A h \in D : h <= Hour
    <2> DEFINE W == (Hour + 1 - Width("7d"))..Hour
    <2>1. f \in [W -> Nat] /\ IsFiniteSet(W) /\ W \subseteq Int /\ Hour \in Int
      BY BucketsType, WindowIs DEF Ranges7
    <2>2. \A h \in W : h <= Hour
      BY <2>1
    <2> HIDE DEF f, W
    <2> QED
      BY <2>1, <2>2
  <1>2. rows = (Today - WeekDays + 1)..Today /\ Today \in Int /\ WeekDays \in Nat \ {0}
        /\ Today = DayOf(Hour) /\ Hour \in Int /\ DayHours \in Nat \ {0}
    BY DaysAre, WindowIs, FiguresAssumption DEF Ranges7
  <1> HIDE DEF f, rows
  <1>3. IsFiniteSet(cells)
    <2>1. IsFiniteSet(rows) /\ IsFiniteSet(0..(DayHours - 1))
      BY <1>2, FS_Interval
    <2> QED
      BY <2>1, FS_Product
  <1>4. c \in [S -> cells]
    BY <1>1, HourParts
  <1>5. g \in [S -> Int] /\ IsFiniteSet(S) /\ DOMAIN g = S
    BY <1>1, FS_Subset DEF Restrict
  <1>6. SumFunction(g) = SumFunction(ClassSums(g, c, cells))
    <2> HIDE DEF g, c, cells, S
    <2> QED
      BY <1>3, <1>4, <1>5, SumByClass
  <1>7. ASSUME NEW x \in cells
        PROVE  Restrict(g, {h \in S : c[h] = x}) = Restrict(f, Those(x[1], x[2]))
    <2>1. {h \in S : c[h] = x} = Those(x[1], x[2])
      <3>1. x[1] \in rows /\ x = <<x[1], x[2]>>
        BY <1>7
      <3>2. \A h \in S : c[h] = x <=> DayOf(h) = x[1] /\ HourOf(h) = x[2]
        BY <3>1
      <3> HIDE DEF c
      <3> QED
        BY <3>1, <3>2
    <2>2. \A h \in {h \in S : c[h] = x} : g[h] = f[h]
      BY DEF Restrict
    <2> HIDE DEF g, c, S, Those
    <2> QED
      BY <2>1, <2>2 DEF Restrict
  <1>8. Grid(f) = ClassSums(g, c, cells)
    <2>1. \A x \in cells : Cell(f, x[1], x[2]) = SumFunction(Restrict(f, Those(x[1], x[2])))
      BY DEF Cell, Total
    <2>2. DayHours - 1 \in Int /\ Grid(f) = [x \in cells |-> Cell(f, x[1], x[2])]
      BY <1>2 DEF Grid, rows
    <2>3. ClassSums(g, c, cells) = [x \in cells |-> SumFunction(Restrict(g, {h \in S : c[h] = x}))]
      BY <1>5 DEF ClassSums
    <2> HIDE DEF g, c, cells, S, Those
    <2> QED
      BY <1>7, <2>1, <2>2, <2>3
  <1>9. ASSUME NEW x \in cells
        PROVE  /\ Grid(f)[x] \in Nat
               /\ isFuture(x[1], x[2]) => Grid(f)[x] = 0
    <2>1. Grid(f)[x] = SumFunction(Restrict(f, Those(x[1], x[2])))
      BY DEF Grid, Cell, Total, rows
    <2>2. Restrict(f, Those(x[1], x[2])) \in [Those(x[1], x[2]) -> Nat] /\ IsFiniteSet(Those(x[1], x[2]))
      BY <1>1, FS_Subset DEF Restrict
    <2>3. ASSUME isFuture(x[1], x[2]) PROVE Those(x[1], x[2]) = {}
      <3>1. ASSUME NEW h \in Those(x[1], x[2]) PROVE FALSE
        <4> DEFINE k == DayHours * DayOf(h)
        <4>1. h \in Int /\ h <= Hour /\ DayOf(h) = DayOf(Hour) /\ HourOf(h) > HourOf(Hour)
          BY <1>1, <1>2, <2>3, <3>1 DEF isFuture, Thishour, Hour
        <4>2. /\ h + Zone = k + HourOf(h) /\ Hour + Zone = k + HourOf(Hour)
              /\ Zone \in Int /\ HourOf(h) \in Int /\ HourOf(Hour) \in Int /\ k \in Int
          <5> DEFINE t == Hour
          <5>1. t \in Int /\ DayOf(h) = DayOf(t) /\ h \in Int
            BY <1>2, <4>1
          <5> HIDE DEF t
          <5>2. h + Zone = DayHours * DayOf(h) + HourOf(h) /\ HourOf(h) \in Int /\ DayOf(h) \in Int
            BY <5>1, HourParts
          <5>3. t + Zone = DayHours * DayOf(t) + HourOf(t) /\ HourOf(t) \in Int
            BY <5>1, HourParts
          <5>4. k \in Int
            BY <5>2, ClockIs
          <5>5. t + Zone = k + HourOf(t)
            BY <5>1, <5>3
          <5> QED
            BY <5>2, <5>3, <5>4, <5>5, ClockIs DEF t
        <4> HIDE DEF k
        <4> QED
          BY <1>2, <4>1, <4>2
      <3> QED
        BY <3>1
    <2>4. ASSUME isFuture(x[1], x[2]) PROVE Grid(f)[x] = 0
      <3>1. DOMAIN Restrict(f, Those(x[1], x[2])) = {}
        BY <2>3, <2>4 DEF Restrict
      <3> QED
        BY <2>1, <3>1, SumEmpty
    <2>5. SumFunction(Restrict(f, Those(x[1], x[2]))) \in Nat
      <3> DEFINE e == Restrict(f, Those(x[1], x[2]))
      <3>1. IsFiniteSet(Those(x[1], x[2])) /\ e \in [Those(x[1], x[2]) -> Nat]
        BY <2>2
      <3> HIDE DEF e, Those
      <3>2. SumFunction(e) \in Nat
        BY <3>1, SumNat
      <3> QED
        BY <3>2 DEF e
    <2> QED
      BY <2>1, <2>4, <2>5
  <1>10. Grid(f) \in [cells -> Nat]
    <2>1. Grid(f) = [x \in cells |-> Grid(f)[x]]
      BY DEF Grid, rows
    <2> HIDE DEF cells
    <2> QED
      BY <1>9, <2>1
  <1> HIDE DEF cells
  <1>11. SumFunction(Grid(f)) = SumFunction(g)
    BY <1>6, <1>8
  <1> QED
    BY <1>3, <1>9, <1>10, <1>11 DEF f, rows, cells

LEMMA ScaleIs ==
    ASSUME NEW K, IsFiniteSet(K), NEW grid \in [K -> Nat]
    PROVE  Scale(grid) \in Nat \ {0}
  <1> DEFINE B == {c \in K : grid[c] > 0}
             busy == Restrict(grid, B)
             n == Cardinality(B)
             k == Min({n - 1, (n * 95) \div 100})
  <1>1. IsFiniteSet(B) /\ n \in Nat
    BY FS_Subset, FS_CardinalityType
  <1>2. busy \in [B -> Nat \ {0}] /\ DOMAIN busy = B /\ DOMAIN grid = K
    BY DEF Restrict
  <1>3. Scale(grid) = IF n = 0 THEN 1 ELSE Nth(busy, k)
    BY <1>2 DEF Scale
  <1>4. ASSUME n # 0 PROVE Nth(busy, k) \in Range(busy)
    <2>1. B # {}
      BY <1>4, FS_EmptySet
    <2>2. n - 1 \in Int /\ (n * 95) \div 100 \in Int
      BY <1>1
    <2>3. k \in Int /\ k < n
      BY <1>1, <2>2, LesserIs
    <2>4. busy \in [B -> Int]
      BY <1>2
    <2> HIDE DEF k, busy, B
    <2> QED
      BY <1>1, <2>1, <2>3, <2>4, NthIs
  <1>5. \A v \in Range(busy) : v \in Nat \ {0}
    BY <1>2 DEF Range
  <1> QED
    BY <1>3, <1>4, <1>5

LEMMA ShadesKeepOrder ==
    ASSUME NEW v \in Nat, NEW u \in Nat, NEW top \in Nat \ {0}
    PROVE  /\ v > 0 <=> Fill(v, top) >= 0
           /\ v <= u => Fill(v, top) <= Fill(u, top)
  <1> DEFINE Low(x) == IF x <= top THEN x ELSE top
             q(x) == (4999 * Low(x)) \div (1000 * top)
  <1>1. \A x \in Nat : Fill(x, top) = IF x = 0 THEN -1 ELSE IF 4 <= q(x) THEN 4 ELSE q(x)
    <2>1. \A x \in Nat : Low(x) \in Nat /\ q(x) \in Int
      OBVIOUS
    <2>2. \A x \in Nat : Min({x, top}) = Low(x)
      BY LesserIs
    <2>3. \A x \in Nat : Min({4, q(x)}) = IF 4 <= q(x) THEN 4 ELSE q(x)
      <3> HIDE DEF q
      <3> QED
        BY <2>1, LesserIs
    <2> QED
      BY <2>2, <2>3 DEF Fill
  <1>2. \A x \in Nat : q(x) \in Nat
    <2>1. ASSUME NEW x \in Nat PROVE q(x) \in Nat
      <3>1. 4999 * Low(x) \in Nat /\ 1000 * top \in Nat \ {0}
        OBVIOUS
      <3>2. 0 \div (1000 * top) = 0
        BY <3>1, DivIs
      <3> DEFINE a == 4999 * Low(x)
                 d == 1000 * top
      <3>3. a \in Nat /\ d \in Nat \ {0} /\ 0 \div d = 0
        BY <3>1, <3>2
      <3> HIDE DEF a, d
      <3>4. a \div d \in Int /\ 0 \div d <= a \div d
        BY <3>3, DivKeeps, Parts
      <3>5. a \div d \in Nat
        BY <3>3, <3>4
      <3> QED
        BY <3>5 DEF a, d
    <2> QED
      BY <2>1
  <1>3. v <= u => q(v) <= q(u)
    <2> DEFINE a == 4999 * Low(v)
               b == 4999 * Low(u)
               d == 1000 * top
    <2>1. a \in Int /\ b \in Int /\ d \in Nat \ {0} /\ (v <= u => a <= b)
      OBVIOUS
    <2> HIDE DEF a, b, d
    <2>2. v <= u => a \div d <= b \div d
      BY <2>1, DivKeeps
    <2> QED
      BY <2>2 DEF a, b, d
  <1> HIDE DEF q
  <1>4. Fill(v, top) = (IF v = 0 THEN -1 ELSE IF 4 <= q(v) THEN 4 ELSE q(v))
        /\ Fill(u, top) = (IF u = 0 THEN -1 ELSE IF 4 <= q(u) THEN 4 ELSE q(u))
        /\ q(v) \in Nat /\ q(u) \in Nat
    BY <1>1, <1>2
  <1> QED
    BY <1>3, <1>4

LEMMA WeekHolds ==
    ASSUME FiguresTypeOK
    PROVE  WeekTold
  <1> DEFINE f == Buckets("7d")
             rows == Rows(f)
             cells == rows \X (0..(DayHours - 1))
             grid == Grid(f)
             top == Scale(grid)
             shade == [c \in DOMAIN grid |-> Fill(grid[c], top)]
             past == {c \in DOMAIN grid : ~isFuture(c[1], c[2])}
  <1>1. /\ grid \in [cells -> Nat] /\ IsFiniteSet(cells)
        /\ SumFunction(grid) = SumFunction(Restrict(f, {h \in DOMAIN f : DayOf(h) \in rows}))
        /\ \A c \in cells : isFuture(c[1], c[2]) => grid[c] = 0
    BY GridIs
  <1>2. Cardinality(rows) = WeekDays /\ Today \in rows
    <2> DEFINE a == Today - WeekDays + 1
    <2>1. rows = a..Today /\ a \in Int /\ Today \in Int /\ a <= Today /\ Today - a + 1 = WeekDays
      BY DaysAre
    <2> HIDE DEF a, rows
    <2> QED
      BY <2>1, Interval
  <1>3. top \in Nat \ {0}
    <2> HIDE DEF grid, cells
    <2> QED
      BY <1>1, ScaleIs
  <1> HIDE DEF f, rows, grid, cells, top
  <1>4. SumFunction(Restrict(grid, past)) = SumFunction(grid)
    <2>1. past \in SUBSET cells /\ \A c \in cells \ past : grid[c] = 0
      BY <1>1
    <2>2. grid \in [cells -> Int]
      BY <1>1
    <2> HIDE DEF past
    <2> QED
      BY <1>1, <2>1, <2>2, SumDrops
  <1>5. \A c \in DOMAIN grid : (grid[c] > 0 <=> shade[c] >= 0)
    BY <1>1, <1>3, ShadesKeepOrder
  <1>6. \A c, o \in DOMAIN grid : grid[c] <= grid[o] => shade[c] <= shade[o]
    BY <1>1, <1>3, ShadesKeepOrder
  <1>7. \A h \in UnderAxis(f) : Label("7d", h) = [day |-> DayOf(h), hour |-> -1]
    BY DEF UnderAxis, Label
  <1>8. Total(Restrict(grid, past)) = Total(Restrict(f, {h \in DOMAIN f : DayOf(h) \in rows}))
    BY <1>1, <1>4 DEF Total
  <1> QED
    BY <1>2, <1>5, <1>6, <1>7, <1>8 DEF WeekTold, f, rows, grid, top

-----------------------------------------------------------------------------
(* Figures: the busiest sources.                                           *)

LEMMA SumOne ==
    ASSUME NEW x, NEW f \in [{x} -> Int]
    PROVE  SumFunction(f) = f[x]
  <1>1. DOMAIN f = {x} /\ IsFiniteSet({x})
    BY FS_Singleton
  <1>2. SumFunction(f) = f[x] + SumFunction(Restrict(f, {x} \ {x}))
    BY <1>1, SumSome
  <1>3. SumFunction(Restrict(f, {x} \ {x})) = 0
    <2>1. DOMAIN Restrict(f, {x} \ {x}) = {}
      BY DEF Restrict
    <2> QED
      BY <2>1, SumEmpty
  <1>4. f[x] \in Int
    OBVIOUS
  <1> QED
    BY <1>2, <1>3, <1>4

\* A part of a sum is no more than the sum.
LEMMA SumPart ==
    ASSUME NEW S, IsFiniteSet(S), NEW f \in [S -> Nat], NEW R \in SUBSET S
    PROVE  SumFunction(Restrict(f, R)) <= SumFunction(f)
  <1> DEFINE c == [x \in S |-> x \in R]
             g == ClassSums(f, c, BOOLEAN)
  <1>1. IsFiniteSet(BOOLEAN)
    <2>1. BOOLEAN = {TRUE} \cup {FALSE}
      OBVIOUS
    <2>2. IsFiniteSet({TRUE})
      BY FS_Singleton
    <2>3. IsFiniteSet({TRUE} \cup {FALSE})
      BY <2>2, FS_AddElement, Zenon
    <2> QED
      BY <2>1, <2>3, Zenon
  <1>2. SumFunction(f) = SumFunction(g)
    <2>1. f \in [S -> Int] /\ c \in [S -> BOOLEAN]
      OBVIOUS
    <2> HIDE DEF c, g
    <2> QED
      BY <1>1, <2>1, SumByClass DEF g
  <1>3. g \in [BOOLEAN -> Nat]
    <2>1. ASSUME NEW t \in BOOLEAN PROVE SumFunction(Restrict(f, {x \in DOMAIN f : c[x] = t})) \in Nat
      <3> DEFINE s == {x \in DOMAIN f : c[x] = t}
      <3>1. IsFiniteSet(s) /\ Restrict(f, s) \in [s -> Nat]
        BY FS_Subset DEF Restrict
      <3> HIDE DEF s
      <3> QED
        BY <3>1, SumNat DEF s
    <2> HIDE DEF c
    <2> QED
      BY <2>1 DEF ClassSums
  <1>4. g[TRUE] = SumFunction(Restrict(f, R))
    <2>1. {x \in DOMAIN f : c[x] = TRUE} = R
      OBVIOUS
    <2> HIDE DEF c
    <2> QED
      BY <2>1 DEF ClassSums
  <1>5. g[TRUE] <= SumFunction(g)
    <2> HIDE DEF g
    <2> QED
      BY <1>1, <1>3, SumNat
  <1> QED
    BY <1>2, <1>4, <1>5

\* The rows of a list without repetition add up to what its members have.
LEMMA SumListed ==
    ASSUME NEW n \in Nat, NEW S, NEW rows \in [1..n -> S], NEW f \in [S -> Int],
           \A i, j \in 1..n : i < j => rows[i] # rows[j]
    PROVE  SumFunction([i \in 1..n |-> f[rows[i]]]) = SumFunction(Restrict(f, Range(rows)))
  <1> DEFINE g == [i \in 1..n |-> f[rows[i]]]
             T == Range(rows)
  <1>1. IsFiniteSet(1..n) /\ IsFiniteSet(T) /\ \A i \in 1..n : rows[i] \in T
    BY FS_Interval, ValuesFinite
  <1>2. g \in [1..n -> Int] /\ rows \in [1..n -> T] /\ T \subseteq S
    BY <1>1 DEF Range
  <1>3. SumFunction(g) = SumFunction(ClassSums(g, rows, T))
    <2> HIDE DEF g, T
    <2> QED
      BY <1>1, <1>2, SumByClass
  <1>4. ASSUME NEW t \in T PROVE SumFunction(Restrict(g, {x \in DOMAIN g : rows[x] = t})) = f[t]
    <2>1. PICK k \in 1..n : rows[k] = t
      BY DEF Range
    <2>2. \A x \in 1..n : rows[x] = t => x = k
      <3>1. ASSUME NEW x \in 1..n, rows[x] = t, x # k PROVE FALSE
        BY <2>1, <3>1
      <3> QED
        BY <3>1
    <2>3. {x \in DOMAIN g : rows[x] = t} = {k}
      BY <2>1, <2>2
    <2>4. Restrict(g, {k}) \in [{k} -> Int] /\ Restrict(g, {k})[k] = f[t]
      BY <1>2, <2>1 DEF Restrict
    <2> HIDE DEF g
    <2> QED
      BY <2>3, <2>4, SumOne
  <1>5. ClassSums(g, rows, T) = Restrict(f, T)
    <2> HIDE DEF g
    <2>1. DOMAIN Restrict(f, T) = T
      BY <1>2 DEF Restrict
    <2>2. ClassSums(g, rows, T) = [t \in T |-> f[t]]
      BY <1>4 DEF ClassSums
    <2>3. Restrict(f, T) = [t \in T |-> f[t]]
      BY <1>2 DEF Restrict
    <2> QED
      BY <2>2, <2>3
  <1> QED
    BY <1>3, <1>5

\* What a list that may be sent is.
Sent(range, n, top) ==
    /\ n \in 0..TopSent /\ Len(top) = n /\ DOMAIN top = 1..n /\ \A i \in 1..n : top[i] \in Ranked(range)
    /\ \A i, j \in 1..n : i < j => top[i] # top[j] /\ ~Busier(range, top[j], top[i])
    /\ \A s \in Ranked(range) : s \notin Range(top) => n = TopSent /\ \A i \in 1..n : ~Busier(range, s, top[i])

LEMMA SentIs ==
    ASSUME NEW range, NEW top \in TopLists(range)
    PROVE  \E n : Sent(range, n, top)
  <1>1. PICK n \in 0..TopSent : top \in [1..n -> Ranked(range)]
    BY DEF TopLists
  <1>2. Len(top) = n /\ DOMAIN top = 1..n /\ \A i \in 1..n : top[i] \in Ranked(range)
    <2>1. top \in Seq(Ranked(range))
      BY <1>1, FiguresAssumption
    <2> QED
      BY <1>1, <2>1, LenProperties
  <1>3. /\ \A i, j \in DOMAIN top : i < j => top[i] # top[j] /\ ~Busier(range, top[j], top[i])
        /\ \A s \in Ranked(range) \ Range(top) : Len(top) = TopSent /\ \A o \in Range(top) : ~Busier(range, s, o)
    BY DEF TopLists
  <1>4. \A i \in 1..n : top[i] \in Range(top)
    BY <1>2 DEF Range
  <1>5. Sent(range, n, top)
    BY <1>2, <1>3, <1>4 DEF Sent
  <1> QED
    BY <1>5

\* Sources with more connections come first, in the list and before the rest.
LEMMA SentOrder ==
    ASSUME FiguresTypeOK, NEW range, NEW n, NEW top, Sent(range, n, top)
    PROVE  /\ \A s \in Attackers : Of(range, s) \in Nat
           /\ \A i, j \in 1..n : i < j => Of(range, top[j]) <= Of(range, top[i])
           /\ \A s \in Attackers, i \in 1..n : s \notin Range(top) => Of(range, s) <= Of(range, top[i])
  <1>1. \A s \in Attackers : Of(range, s) \in Nat
    BY SourcesAdd
  <1>2. \A i \in 1..n : top[i] \in Attackers
    BY DEF Sent, Ranked
  <1>3. \A s, o \in Attackers : ~Busier(range, s, o) => Of(range, s) <= Of(range, o)
    BY <1>1 DEF Busier
  <1>4. \A i, j \in 1..n : i < j => Of(range, top[j]) <= Of(range, top[i])
    BY <1>2, <1>3 DEF Sent
  <1>5. ASSUME NEW s \in Attackers, NEW i \in 1..n, s \notin Range(top) PROVE Of(range, s) <= Of(range, top[i])
    <2>1. CASE s \in Ranked(range)
      BY <1>2, <1>3, <1>5, <2>1 DEF Sent
    <2>2. CASE s \notin Ranked(range)
      <3>1. ~(Of(range, s) > 0)
        BY <2>2 DEF Ranked
      <3> QED
        BY <1>1, <1>2, <3>1
    <2> QED
      BY <2>1, <2>2
  <1> QED
    BY <1>1, <1>4, <1>5

\* The first is the busiest of all.
LEMMA SentFirst ==
    ASSUME FiguresTypeOK, NEW range, NEW n, NEW top, Sent(range, n, top), Connections(range) # 0
    PROVE  /\ top # <<>> /\ 1 \in 1..n
           /\ Of(range, top[1]) \in 1..Connections(range)
           /\ \A s \in Attackers : Of(range, s) <= Of(range, top[1])
  <1>1. Ranked(range) # {}
    <2>1. CASE Ranked(range) = {}
      <3>1. SumFunction([s \in Ranked(range) |-> Of(range, s)]) = 0
        BY <2>1, SumEmpty
      <3> QED
        BY <3>1, SourcesAdd
    <2> QED
      BY <2>1
  <1>2. n # 0
    <2>1. CASE n = 0
      <3>1. Range(top) = {}
        BY <2>1 DEF Sent, Range
      <3>2. TopSent = 0
        BY <1>1, <2>1, <3>1 DEF Sent
      <3> QED
        BY <3>2, FiguresAssumption
    <2> QED
      BY <2>1
  <1>3. n \in Nat /\ 1 \in 1..n /\ top # <<>>
    <2>1. n \in Nat /\ DOMAIN top = 1..n
      BY FiguresAssumption DEF Sent
    <2> QED
      BY <1>2, <2>1
  <1>4. top[1] \in Attackers /\ Of(range, top[1]) > 0 /\ Of(range, top[1]) \in Nat
        /\ Of(range, top[1]) <= Connections(range) /\ Connections(range) \in Nat
    <2>1. top[1] \in Attackers /\ Of(range, top[1]) > 0
      BY <1>3 DEF Sent, Ranked
    <2> QED
      BY <2>1, SourcesAdd, CountNat DEF Connections
  <1>5. ASSUME NEW s \in Attackers PROVE Of(range, s) <= Of(range, top[1])
    <2>1. CASE s \in Range(top)
      <3>1. PICK j \in 1..n : top[j] = s
        BY <2>1 DEF Sent, Range
      <3>2. j = 1 \/ 1 < j
        BY <1>3
      <3> QED
        BY <1>3, <1>4, <3>1, <3>2, SentOrder
    <2>2. CASE s \notin Range(top)
      BY <1>3, <2>2, SentOrder
    <2> QED
      BY <2>1, <2>2
  <1> QED
    BY <1>3, <1>4, <1>5

\* The rows are the first of the list.
RowsFrom(n, m, top, rows) ==
    /\ m \in Nat /\ rows = [i \in 1..m |-> top[i]] /\ Len(rows) = m
    /\ m <= n /\ m <= TopShown /\ (m = TopShown \/ m = n)

LEMMA RowsAre ==
    ASSUME NEW range, NEW n, NEW top, Sent(range, n, top)
    PROVE  \E m : RowsFrom(n, m, top, SourceRows(top))
  <1>1. n \in Nat /\ Len(top) = n /\ TopShown \in Nat
    BY FiguresAssumption DEF Sent
  <1>2. PICK m : m = IF TopShown <= n THEN TopShown ELSE n
    OBVIOUS
  <1>3. Min({TopShown, Len(top)}) = m
    BY <1>1, <1>2, LesserIs
  <1>4. m \in Nat /\ SourceRows(top) = [i \in 1..m |-> top[i]]
    BY <1>1, <1>2, <1>3 DEF SourceRows
  <1>5. Len([i \in 1..m |-> top[i]]) = m
    BY <1>4
  <1>6. RowsFrom(n, m, top, SourceRows(top))
    BY <1>1, <1>2, <1>4, <1>5 DEF RowsFrom
  <1> QED
    BY <1>6

\* The rows add up to the headline figure, or the list is full.
RowSum(range, rows) == Total([i \in DOMAIN rows |-> Of(range, rows[i])])
LEMMA RowsAdd ==
    ASSUME FiguresTypeOK, NEW range, NEW n, NEW top, Sent(range, n, top), NEW m, NEW rows, RowsFrom(n, m, top, rows)
    PROVE  /\ RowSum(range, rows) <= Connections(range)
           /\ RowSum(range, rows) < Connections(range) => m = TopShown
  <1> DEFINE all == [s \in Attackers |-> Of(range, s)]
             T == Range(rows)
  <1>1. m \in Nat /\ n \in Nat /\ m <= n /\ DOMAIN rows = 1..m /\ \A i \in 1..m : rows[i] = top[i] /\ i \in 1..n
    BY FiguresAssumption DEF RowsFrom, Sent
  <1>2. rows \in [1..m -> Attackers] /\ \A i, j \in 1..m : i < j => rows[i] # rows[j]
    <2>1. \A i \in 1..m : rows[i] \in Attackers
      BY <1>1 DEF Sent, Ranked
    <2>2. rows = [i \in 1..m |-> rows[i]]
      BY <1>1 DEF RowsFrom
    <2>3. \A i, j \in 1..m : i < j => rows[i] # rows[j]
      BY <1>1 DEF Sent
    <2> QED
      BY <2>1, <2>2, <2>3
  <1>3. IsFiniteSet(Attackers) /\ all \in [Attackers -> Nat] /\ T \in SUBSET Attackers
    BY <1>2, FiguresAssumption, SourcesAdd DEF Range
  <1>4. RowSum(range, rows) = SumFunction(Restrict(all, T))
    <2>1. [i \in DOMAIN rows |-> Of(range, rows[i])] = [i \in 1..m |-> all[rows[i]]]
      BY <1>1, <1>2
    <2>2. all \in [Attackers -> Int]
      BY <1>3
    <2> HIDE DEF all
    <2>3. SumFunction([i \in 1..m |-> all[rows[i]]]) = SumFunction(Restrict(all, T))
      <3>1. m \in Nat /\ rows \in [1..m -> Attackers] /\ \A i, j \in 1..m : i < j => rows[i] # rows[j]
        BY <1>1, <1>2
      <3> QED
        BY <2>2, <3>1, SumListed, Zenon
    <2> QED
      BY <2>1, <2>3 DEF RowSum, Total
  <1>5. SumFunction(all) = Connections(range)
    <2>1. all \in [Attackers -> Int] /\ Ranked(range) \in SUBSET Attackers /\ \A s \in Attackers \ Ranked(range) : all[s] = 0
      BY <1>3 DEF Ranked
    <2>2. Restrict(all, Ranked(range)) = [s \in Ranked(range) |-> Of(range, s)]
      BY DEF Restrict, Ranked
    <2> HIDE DEF all
    <2> QED
      BY <1>3, <2>1, <2>2, SumDrops, SourcesAdd
  <1>6. RowSum(range, rows) <= Connections(range)
    <2> HIDE DEF all, T
    <2> QED
      BY <1>3, <1>4, <1>5, SumPart
  <1>7. ASSUME RowSum(range, rows) < Connections(range), m # TopShown PROVE FALSE
    <2>1. m = n /\ T = Range(top)
      <3>1. m = n
        BY <1>7 DEF RowsFrom
      <3>2. DOMAIN top = 1..n
        BY DEF Sent
      <3> QED
        BY <1>1, <3>1, <3>2 DEF Range
    <2>2. n # TopSent
      <3>1. m <= TopShown /\ TopShown \in Nat /\ TopSent \in Nat /\ TopShown <= TopSent
        BY FiguresAssumption DEF RowsFrom
      <3> QED
        BY <1>1, <1>7, <2>1, <3>1
    <2>3. \A s \in Attackers \ T : all[s] = 0
      <3>1. \A s \in Attackers \ T : s \notin Ranked(range)
        BY <2>1, <2>2 DEF Sent
      <3> QED
        BY <1>3, <3>1 DEF Ranked
    <2>4. SumFunction(all) = SumFunction(Restrict(all, T))
      <3>1. all \in [Attackers -> Int]
        BY <1>3
      <3> HIDE DEF all, T
      <3> QED
        BY <1>3, <2>3, <3>1, SumDrops
    <2>5. RowSum(range, rows) = Connections(range) /\ Connections(range) \in Nat
      BY <1>4, <1>5, <2>4, CountNat DEF Connections
    <2> HIDE DEF all, T
    <2> QED
      BY <1>7, <2>5
  <1> QED
    BY <1>6, <1>7

LEMMA BarKeeps ==
    ASSUME NEW v \in Nat \ {0}, NEW all \in SUBSET Nat, v \in all, \A x \in all : x <= v,
           NEW a \in Nat, NEW b \in Nat, a <= b
    PROVE  Bar(a, all) <= Bar(b, all)
  <1>1. Max({1} \cup all) = v
    BY Highest
  <1>2. (2000 * a + v) \div (2 * v) <= (2000 * b + v) \div (2 * v)
    <2>1. 2 * v \in Nat \ {0} /\ 2000 * a + v \in Int /\ 2000 * b + v \in Int /\ 2000 * a + v <= 2000 * b + v
      OBVIOUS
    <2> QED
      BY <2>1, DivKeeps
  <1> QED
    BY <1>1, <1>2 DEF Bar

\* Some list is always sent: sources are found one by one, each among the busiest
\* of those that are left.
Found(range, n, top) ==
    /\ DOMAIN top = 1..n /\ top \in [1..n -> Ranked(range)]
    /\ \A i, j \in 1..n : i < j => top[i] # top[j] /\ ~Busier(range, top[j], top[i])
    /\ \A s \in Ranked(range) : s \notin Range(top) => \A i \in 1..n : ~Busier(range, s, top[i])

LEMMA BusiestExists ==
    ASSUME FiguresTypeOK, NEW range, NEW R \in SUBSET Ranked(range), R # {}
    PROVE  \E s \in R : \A o \in R : ~Busier(range, o, s)
  <1> DEFINE of == [s \in R |-> Of(range, s)]
             P == {s \in R : of[s] = Max(Range(of))}
             last == [s \in P |-> LastSeen(range, s)]
  <1>1. IsFiniteSet(R) /\ of \in [R -> Int]
    <2>1. IsFiniteSet(Attackers) /\ R \in SUBSET Attackers
      BY FiguresAssumption DEF Ranked
    <2>2. IsFiniteSet(R)
      BY <2>1, FS_Subset
    <2>3. \A s \in Attackers : Of(range, s) \in Nat
      BY SourcesAdd
    <2> QED
      BY <2>1, <2>2, <2>3
  <1>2. Max(Range(of)) \in Range(of) /\ \A x \in Range(of) : x <= Max(Range(of))
    <2>1. Range(of) \in SUBSET Int /\ Range(of) # {} /\ IsFiniteSet(Range(of))
      <3> HIDE DEF of
      <3> QED
        BY <1>1, ValuesFinite DEF Range
    <2> HIDE DEF of
    <2> QED
      BY <2>1, GreatestIs
  <1>3. P # {} /\ IsFiniteSet(P) /\ \A s \in P, o \in R : Of(range, o) <= Of(range, s)
    <2>1. \A s \in R : of[s] \in Range(of) /\ of[s] = Of(range, s)
      BY DEF Range
    <2>2. \E s \in R : of[s] = Max(Range(of))
      <3> HIDE DEF of
      <3> QED
        BY <1>1, <1>2 DEF Range
    <2>3. IsFiniteSet(P)
      BY <1>1, FS_Subset
    <2> HIDE DEF of
    <2> QED
      BY <1>2, <2>1, <2>2, <2>3
  <1>4. last \in [P -> Int]
    <2>1. ASSUME NEW s \in P PROVE LastSeen(range, s) \in Int
      <3> DEFINE I == {i \in DOMAIN log : log[i].src = s /\ log[i].at < Until(now)}
                 f == [i \in I |-> log[i].at]
      <3>1. s \in Attackers /\ Of(range, s) > 0
        BY DEF Ranked
      <3>2. Window(Until(now) - Span(range), Until(now), {s}) # {}
        <4>1. CASE Window(Until(now) - Span(range), Until(now), {s}) = {}
          <5>1. DOMAIN Made({}) = {}
            BY DEF Made
          <5>2. SumFunction(Made({})) = 0
            BY <5>1, SumEmpty
          <5>3. Of(range, s) = 0
            BY <4>1, <5>2, CountIs DEF Of
          <5> QED
            BY <3>1, <5>3
        <4> QED
          BY <4>1
      <3>3. I # {} /\ IsFiniteSet(I) /\ \A i \in I : log[i].at \in Int
        <4>1. IsFiniteSet(DOMAIN log) /\ \A i \in DOMAIN log : log[i].at \in Int
          BY LogIs
        <4> QED
          BY <3>2, <4>1, FS_Subset DEF Window
      <3>4. Range(f) \in SUBSET Int /\ Range(f) # {} /\ IsFiniteSet(Range(f))
        <4>1. f \in [I -> Int]
          BY <3>3
        <4> HIDE DEF I, f
        <4> QED
          BY <3>3, <4>1, ValuesFinite DEF Range
      <3>5. LastSeen(range, s) = Max(Range(f))
        <4>1. {log[i].at : i \in I} = Range(f)
          BY DEF Range
        <4> QED
          BY <4>1 DEF LastSeen
      <3> HIDE DEF f
      <3> QED
        BY <3>4, <3>5, GreatestIs
    <2> HIDE DEF P
    <2> QED
      BY <2>1
  <1>5. PICK s \in P : \A o \in P : last[o] <= last[s]
    <2> HIDE DEF P, last
    <2>1. Range(last) \in SUBSET Int /\ Range(last) # {} /\ IsFiniteSet(Range(last))
      BY <1>3, <1>4, ValuesFinite DEF Range
    <2>2. PICK m \in Range(last) : \A x \in Range(last) : x <= m
      BY <2>1, GreatestIs
    <2>3. PICK s \in P : last[s] = m
      BY <1>4, <2>2 DEF Range
    <2>4. \A o \in P : last[o] \in Range(last)
      BY <1>4 DEF Range
    <2> QED
      BY <2>2, <2>3, <2>4
  <1>6. ASSUME NEW o \in R PROVE ~Busier(range, o, s)
    <2>1. Of(range, o) <= Of(range, s) /\ Of(range, o) \in Int /\ Of(range, s) \in Int
      BY <1>1, <1>3, <1>5
    <2>2. CASE Of(range, o) = Of(range, s)
      <3>1. o \in P
        BY <1>5, <2>2
      <3>2. LastSeen(range, o) <= LastSeen(range, s) /\ LastSeen(range, o) \in Int /\ LastSeen(range, s) \in Int
        BY <1>4, <1>5, <3>1
      <3> QED
        BY <2>1, <3>2 DEF Busier
    <2>3. CASE Of(range, o) # Of(range, s)
      BY <2>1, <2>3 DEF Busier
    <2> QED
      BY <2>2, <2>3
  <1> QED
    BY <1>5, <1>6

LEMMA FoundNext ==
    ASSUME FiguresTypeOK, NEW range, NEW n \in Nat, NEW top, Found(range, n, top), ~(Ranked(range) \subseteq Range(top))
    PROVE  \E next : Found(range, n + 1, next)
  <1> DEFINE R == Ranked(range) \ Range(top)
  <1>1. PICK s \in R : \A o \in R : ~Busier(range, o, s)
    <2>1. R \in SUBSET Ranked(range) /\ R # {}
      OBVIOUS
    <2> HIDE DEF R
    <2> QED
      BY <2>1, BusiestExists
  <1> DEFINE next == [i \in 1..(n + 1) |-> IF i = n + 1 THEN s ELSE top[i]]
  <1>2. \A i \in 1..n : i \in 1..(n + 1) /\ i # n + 1 /\ next[i] = top[i] /\ top[i] \in Ranked(range) /\ top[i] \in Range(top)
    BY DEF Found, Range
  <1>3. next[n + 1] = s /\ \A i \in 1..(n + 1) : i \in 1..n \/ i = n + 1
    OBVIOUS
  <1>4. next \in [1..(n + 1) -> Ranked(range)] /\ DOMAIN next = 1..(n + 1)
    BY <1>2, <1>3
  <1>5. ASSUME NEW i \in 1..(n + 1), NEW j \in 1..(n + 1), i < j
        PROVE  next[i] # next[j] /\ ~Busier(range, next[j], next[i])
    <2>1. i \in 1..n
      BY <1>5
    <2>2. CASE j \in 1..n
      <3>1. top[i] # top[j] /\ ~Busier(range, top[j], top[i])
        BY <1>5, <2>1, <2>2 DEF Found
      <3> QED
        BY <1>2, <2>1, <2>2, <3>1
    <2>3. CASE j = n + 1
      <3>1. ~Busier(range, s, top[i]) /\ top[i] # s
        BY <1>2, <2>1 DEF Found
      <3> HIDE DEF next
      <3> QED
        BY <1>2, <1>3, <2>1, <2>3, <3>1
    <2> QED
      BY <1>3, <2>2, <2>3
  <1>6. ASSUME NEW o \in Ranked(range), o \notin Range(next), NEW i \in 1..(n + 1)
        PROVE  ~Busier(range, o, next[i])
    <2>1. o \notin Range(top)
      <3>1. ASSUME o \in Range(top) PROVE FALSE
        <4>1. PICK k \in 1..n : top[k] = o
          BY <3>1 DEF Found, Range
        <4>2. next[k] = o /\ k \in DOMAIN next
          BY <1>2, <4>1
        <4> QED
          BY <1>6, <4>2 DEF Range
      <3> QED
        BY <3>1
    <2>2. CASE i \in 1..n
      BY <1>2, <2>1, <2>2 DEF Found
    <2>3. CASE i = n + 1
      BY <1>1, <1>3, <2>1, <2>3
    <2> QED
      BY <1>3, <2>2, <2>3
  <1>7. Found(range, n + 1, next)
    <2> HIDE DEF next
    <2> QED
      BY <1>4, <1>5, <1>6 DEF Found
  <1> QED
    BY <1>7

LEMMA SomeListIsSent ==
    ASSUME FiguresTypeOK, NEW range
    PROVE  TopLists(range) # {}
  <1> DEFINE Done(n, top) == Found(range, n, top) /\ Ranked(range) \subseteq Range(top)
             N == {n \in Nat : (\E top : Found(range, n, top)) \/ \E m \in 0..n : \E top : Done(m, top)}
  <1>1. 0 \in N
    <2>1. Found(range, 0, <<>>)
      <3>1. <<>> \in [1..0 -> Ranked(range)] /\ DOMAIN <<>> = 1..0 /\ \A i \in 1..0 : FALSE
        OBVIOUS
      <3> QED
        BY <3>1 DEF Found
    <2> QED
      BY <2>1
  <1>2. ASSUME NEW n \in Nat, n \in N PROVE n + 1 \in N
    <2>1. CASE \E m \in 0..n : \E top : Done(m, top)
      <3>1. PICK m \in 0..n : \E top : Done(m, top)
        BY <2>1
      <3>2. m \in 0..(n + 1)
        OBVIOUS
      <3> HIDE DEF Done
      <3> QED
        BY <3>1, <3>2
    <2>2. CASE \E top : Found(range, n, top)
      <3>1. PICK top : Found(range, n, top)
        BY <2>2
      <3>2. CASE Ranked(range) \subseteq Range(top)
        <4>1. Done(n, top) /\ n \in 0..(n + 1)
          BY <3>1, <3>2
        <4> HIDE DEF Done
        <4> QED
          BY <4>1
      <3>3. CASE ~(Ranked(range) \subseteq Range(top))
        BY <3>1, <3>3, FoundNext
      <3> QED
        BY <3>2, <3>3
    <2> QED
      BY <1>2, <2>1, <2>2
  <1>3. TopSent \in N
    <2>1. TopSent \in Nat
      BY FiguresAssumption
    <2> HIDE DEF N
    <2> QED
      BY <1>1, <1>2, <2>1, Induction
  <1>4. PICK m \in 0..TopSent : \E top : Found(range, m, top) /\ (m = TopSent \/ Ranked(range) \subseteq Range(top))
    <2>1. TopSent \in 0..TopSent
      BY FiguresAssumption
    <2> QED
      BY <1>3, <2>1
  <1>5. PICK top : Found(range, m, top) /\ (m = TopSent \/ Ranked(range) \subseteq Range(top))
    BY <1>4
  <1>6. Len(top) = m /\ DOMAIN top = 1..m /\ top \in [1..m -> Ranked(range)]
    <2>1. m \in Nat /\ top \in [1..m -> Ranked(range)] /\ DOMAIN top = 1..m
      BY <1>5, FiguresAssumption DEF Found
    <2>2. top \in Seq(Ranked(range))
      BY <2>1
    <2> QED
      BY <2>1, <2>2, LenProperties
  <1>7. \A s \in Ranked(range) \ Range(top) : Len(top) = TopSent /\ \A o \in Range(top) : ~Busier(range, s, o)
    BY <1>5, <1>6 DEF Found, Range
  <1>8. top \in TopLists(range)
    <2>1. top \in UNION {[1..n -> Ranked(range)] : n \in 0..TopSent}
      BY <1>6
    <2>2. \A i, j \in DOMAIN top : i < j => top[i] # top[j] /\ ~Busier(range, top[j], top[i])
      BY <1>5, <1>6 DEF Found
    <2> QED
      BY <1>7, <2>1, <2>2 DEF TopLists
  <1> QED
    BY <1>8

LEMMA SourcesHold ==
    ASSUME FiguresTypeOK, NEW range, NEW top \in TopLists(range)
    PROVE  SourcesTold(range, top)
  <1> DEFINE made == Connections(range)
             busiest == Busiest(range, top)
             rows == SourceRows(top)
             bar(i) == Bar(Of(range, rows[i]), {Of(range, s) : s \in Range(top)})
  <1>1. PICK n : Sent(range, n, top)
    BY SentIs
  <1>2. PICK m : RowsFrom(n, m, top, rows)
    BY <1>1, RowsAre
  <1>3. /\ m \in Nat /\ n \in Nat /\ DOMAIN rows = 1..m /\ Len(rows) = m
        /\ \A i \in 1..m : rows[i] = top[i] /\ i \in 1..n /\ top[i] \in Attackers /\ Of(range, top[i]) > 0
    BY <1>1, <1>2, FiguresAssumption DEF RowsFrom, Sent, Ranked
  <1>4. made \in Nat
    BY CountNat DEF Connections
  <1>5. busiest.kind = "busiest" <=> made > 0
    <2>1. CASE made = 0
      BY <2>1 DEF Busiest
    <2>2. CASE made # 0
      <3>1. top # <<>>
        BY <1>1, <2>2, SentFirst
      <3> QED
        BY <1>4, <2>2, <3>1 DEF Busiest
    <2> QED
      BY <2>1, <2>2
  <1>6. ASSUME made > 0 PROVE busiest.made \in 1..made /\ \A s \in Attackers : Of(range, s) <= busiest.made
    <2>1. made # 0
      BY <1>4, <1>6
    <2>2. top # <<>> /\ Of(range, top[1]) \in 1..made /\ \A s \in Attackers : Of(range, s) <= Of(range, top[1])
      BY <1>1, <2>1, SentFirst
    <2>3. busiest.made = Of(range, top[1])
      BY <2>1, <2>2 DEF Busiest
    <2> QED
      BY <2>2, <2>3
  <1>7. RowSum(range, rows) <= made /\ (RowSum(range, rows) < made => Len(rows) = TopShown)
    BY <1>1, <1>2, <1>3, RowsAdd
  <1>8. ASSUME NEW s \in Attackers \ Range(rows), NEW o \in Range(rows) PROVE Of(range, s) <= Of(range, o)
    <2>1. PICK i \in 1..m : o = top[i]
      BY <1>3 DEF Range
    <2>2. CASE s \in Range(top)
      <3>1. PICK j \in 1..n : s = top[j]
        BY <1>1, <2>2 DEF Range, Sent
      <3>2. j \notin 1..m
        BY <1>3, <3>1 DEF Range
      <3>3. i < j
        BY <1>3, <3>2
      <3> QED
        BY <1>1, <1>3, <2>1, <3>1, <3>3, SentOrder
    <2>3. CASE s \notin Range(top)
      BY <1>1, <1>3, <2>1, <2>3, SentOrder
    <2> QED
      BY <2>2, <2>3
  <1>9. ASSUME rows # <<>>
        PROVE  bar(1) = 1000 /\ \A i, j \in DOMAIN rows : i < j => bar(j) <= bar(i)
    <2> DEFINE all == {Of(range, s) : s \in Range(top)}
               v == Of(range, top[1])
    <2>1. 1 \in 1..m
      <3>1. m # 0
        <4>1. CASE m = 0
          <5>1. rows = [i \in 1..0 |-> top[i]]
            BY <1>2, <4>1 DEF RowsFrom
          <5> QED
            BY <1>9, <5>1
        <4> QED
          BY <4>1
      <3> QED
        BY <1>3, <3>1
    <2>2. \A i \in 1..n : top[i] \in Attackers /\ Of(range, top[i]) \in Nat /\ (i = 1 \/ 1 < i)
      <3>1. \A i \in 1..n : top[i] \in Attackers
        BY <1>1 DEF Sent, Ranked
      <3>2. \A s \in Attackers : Of(range, s) \in Nat
        BY <1>1, SentOrder
      <3> QED
        BY <1>3, <3>1, <3>2
    <2>3. v \in Nat \ {0} /\ v \in all
      BY <1>1, <1>3, <2>1, <2>2 DEF Range, Sent
    <2>4. \A i \in 1..n : Of(range, top[i]) <= v
      BY <1>1, <1>3, <2>1, <2>2, SentOrder
    <2>5. all \in SUBSET Nat /\ \A x \in all : x <= v
      BY <1>1, <2>2, <2>4 DEF Range, Sent
    <2>6. Bar(v, all) = 1000
      <3> HIDE DEF all, v
      <3> QED
        BY <2>3, <2>5, FullBar
    <2>7. ASSUME NEW i \in 1..m, NEW j \in 1..m, i < j PROVE Bar(Of(range, rows[j]), all) <= Bar(Of(range, rows[i]), all)
      <3>1. PICK a, b : a = Of(range, rows[j]) /\ b = Of(range, rows[i])
        OBVIOUS
      <3>2. a \in Nat /\ b \in Nat /\ a <= b
        BY <1>1, <1>3, <2>2, <2>7, <3>1, SentOrder
      <3>3. Bar(a, all) <= Bar(b, all)
        <4> HIDE DEF all, v
        <4> QED
          BY <2>3, <2>5, <3>2, BarKeeps
      <3> QED
        BY <3>1, <3>3
    <2>8. bar(1) = 1000
      BY <1>3, <2>1, <2>6
    <2> HIDE DEF all, v, rows
    <2> QED
      BY <1>3, <2>7, <2>8 DEF all
  <1>10. ASSUME NEW i \in DOMAIN rows, NEW j \in DOMAIN rows, i < j PROVE bar(j) <= bar(i)
    <2>1. rows # <<>>
      BY <1>10
    <2> HIDE DEF rows
    <2> QED
      BY <1>9, <1>10, <2>1
  <1> HIDE DEF made, busiest, rows
  <1> QED
    BY <1>5, <1>6, <1>7, <1>8, <1>9, <1>10 DEF SourcesTold, RowSum, made, busiest, rows

LEMMA FiguresTyped ==
    ASSUME FiguresTypeOK, [FiguresNext]_figures_vars
    PROVE  FiguresTypeOK'
  <1> DEFINE R(t) == [at : 0..t, src : Attackers, n : Bursts]
  <1>1. log \in Seq(R(now)) /\ Len(log) <= MaxLog /\ now \in 0..LastTick /\ LastTick \in Nat
    BY FiguresAssumption DEF FiguresTypeOK
  <1>2. CASE HalfHour
    <2>1. R(now) \subseteq R(now + 1) /\ now + 1 \in 0..LastTick /\ now' = now + 1 /\ log' = log
      BY <1>1, <1>2 DEF HalfHour
    <2>2. log \in Seq(R(now + 1))
      <3> HIDE DEF R
      <3> QED
        BY <1>1, <2>1
    <2> QED
      BY <1>1, <2>1, <2>2 DEF FiguresTypeOK
  <1>3. ASSUME NEW s \in Attackers, NEW n \in Bursts, Burst(s, n) PROVE FiguresTypeOK'
    <2> DEFINE b == [at |-> now, src |-> s, n |-> n]
    <2>1. b \in R(now) /\ now' = now /\ log' = Append(log, b) /\ Len(log) < MaxLog
      BY <1>1, <1>3 DEF Burst
    <2>2. Append(log, b) \in Seq(R(now)) /\ Len(Append(log, b)) = Len(log) + 1 /\ Len(log) \in Nat
      <3> HIDE DEF R, b
      <3> QED
        BY <1>1, <2>1
    <2>3. MaxLog \in Nat
      BY FiguresAssumption
    <2> QED
      BY <1>1, <2>1, <2>2, <2>3 DEF FiguresTypeOK
  <1>4. CASE UNCHANGED figures_vars
    BY <1>4 DEF figures_vars, FiguresTypeOK
  <1> QED
    BY <1>2, <1>3, <1>4 DEF FiguresNext

LEMMA FiguresStart == FiguresInit => FiguresTypeOK
  BY FiguresAssumption DEF FiguresInit, FiguresTypeOK

LEMMA FiguresSound == FiguresTypeOK => FiguresTrue
  BY OverviewHolds, PeakHolds, SourcesHold, WeekHolds DEF FiguresTrue

\* Whatever comes when, and in whatever zone: the bars and the flow add up to the
\* headline figure, the listed sources are the busiest and short of it only when
\* the list is full, a peak that is named is one, and the week shows each
\* connection of its days once, in a shade that keeps the order (handlers.go,
\* analytics.go, app.js, charts.js).
THEOREM FiguresHold == FiguresSpec => [](FiguresTypeOK /\ FiguresTrue)
  BY FiguresStart, FiguresTyped, FiguresSound, PTL DEF FiguresSpec

-----------------------------------------------------------------------------
(* MapView: sorting, and what is defined step by step.                     *)

\* Sorting.
LEMMA Sorts ==
    ASSUME NEW S, IsFiniteSet(S), NEW before,
           \A i \in S : <<i, i>> \notin before,
           \A i, j, k \in S : <<i, j>> \in before /\ <<j, k>> \in before => <<i, k>> \in before,
           \A i, j \in S : i # j => <<i, j>> \in before \/ <<j, i>> \in before
    PROVE  /\ Cardinality(S) \in Nat /\ InOrder(S, before) \in [1..Cardinality(S) -> S]
           /\ \A k, l \in 1..Cardinality(S) : k < l => <<InOrder(S, before)[k], InOrder(S, before)[l]>> \in before
           /\ \A i \in S : \E k \in 1..Cardinality(S) : InOrder(S, before)[k] = i
  <1> DEFINE N == Cardinality(S)
             s == InOrder(S, before)
             P(i) == {j \in S : <<j, i>> \in before}
             R == [i \in S |-> Cardinality(P(i)) + 1]
  <1>1. N \in Nat
    BY FS_CardinalityType
  <1>2. ASSUME NEW i \in S PROVE IsFiniteSet(P(i)) /\ Cardinality(P(i)) \in Nat /\ R[i] = Cardinality(P(i)) + 1 /\ R[i] \in 1..N
    <2>1. P(i) \in SUBSET S /\ P(i) # S
      OBVIOUS
    <2>2. IsFiniteSet(P(i)) /\ Cardinality(P(i)) <= N /\ Cardinality(P(i)) # N
      <3> HIDE DEF P
      <3> QED
        BY <2>1, FS_Subset
    <2>3. Cardinality(P(i)) \in Nat
      BY <2>2, FS_CardinalityType
    <2>4. R[i] = Cardinality(P(i)) + 1
      OBVIOUS
    <2> HIDE DEF P, R
    <2> QED
      BY <1>1, <2>2, <2>3, <2>4
  <1>3. ASSUME NEW i \in S, NEW j \in S, <<i, j>> \in before PROVE R[i] < R[j]
    <2>1. P(i) \in SUBSET P(j) /\ i \in P(j) /\ i \notin P(i)
      BY <1>3
    <2>2. Cardinality(P(i)) <= Cardinality(P(j)) /\ Cardinality(P(i)) # Cardinality(P(j))
      <3>1. P(i) # P(j)
        BY <2>1
      <3> HIDE DEF P, R
      <3> QED
        BY <1>2, <2>1, <3>1, FS_Subset
    <2> HIDE DEF P, R
    <2> QED
      BY <1>2, <2>2
  <1>4. ASSUME NEW i \in S, NEW j \in S, i # j PROVE R[i] # R[j]
    <2> HIDE DEF P, R
    <2>1. R[i] < R[j] \/ R[j] < R[i]
      BY <1>3, <1>4
    <2> QED
      BY <1>2, <2>1
  <1>5. R \in Injection(S, 1..N)
    <2>1. R \in [S -> 1..N]
      <3>1. R = [i \in S |-> R[i]]
        OBVIOUS
      <3> HIDE DEF R
      <3> QED
        BY <1>2, <3>1
    <2> HIDE DEF R
    <2> QED
      BY <1>4, <2>1 DEF Injection, IsInjective
  <1>6. R \in Surjection(S, 1..N)
    <2>1. IsFiniteSet(1..N) /\ Cardinality(1..N) = N
      BY <1>1, FS_Interval
    <2> HIDE DEF R
    <2> QED
      BY <1>5, <2>1, FS_Injection
  <1>7. \A k \in 1..N : \E i \in S : R[i] = k
    <2> HIDE DEF R
    <2> QED
      BY <1>6 DEF Surjection
  <1>8. ASSUME NEW k \in 1..N PROVE s[k] \in S /\ R[s[k]] = k
    <2> DEFINE C(n) == CHOOSE i \in S : Cardinality(P(i)) = n - 1
    <2>4. s = [n \in 1..N |-> C(n)]
      BY DEF InOrder
    <2>1. s[k] = CHOOSE i \in S : Cardinality(P(i)) = k - 1
      <3>1. s[k] = C(k)
        <4> HIDE DEF C, s, P, R
        <4> QED
          BY <2>4
      <3> QED
        BY <3>1
    <2>2. \E i \in S : Cardinality(P(i)) = k - 1
      <3>1. PICK i \in S : R[i] = k
        BY <1>7
      <3> HIDE DEF P, R
      <3> QED
        BY <1>2, <3>1
    <2>3. s[k] \in S /\ Cardinality(P(s[k])) = k - 1
      <3> HIDE DEF P, R, s
      <3> QED
        BY <2>1, <2>2, Zenon
    <2> HIDE DEF P, R, s
    <2> QED
      BY <1>2, <2>3
  <1>9. s = [k \in 1..N |-> s[k]]
    <2> DEFINE C(n) == CHOOSE i \in S : Cardinality(P(i)) = n - 1
    <2>1. s = [n \in 1..N |-> C(n)]
      BY DEF InOrder
    <2> HIDE DEF C, s, P, R
    <2> QED
      BY <2>1
  <1> HIDE DEF P, R, s, N
  <1>10. s \in [1..N -> S]
    BY <1>8, <1>9
  <1>11. ASSUME NEW k \in 1..N, NEW l \in 1..N, k < l PROVE <<s[k], s[l]>> \in before
    <2>1. s[k] \in S /\ s[l] \in S /\ R[s[k]] = k /\ R[s[l]] = l
      BY <1>8
    <2>2. s[k] # s[l] /\ ~(R[s[l]] < R[s[k]])
      BY <1>1, <1>11, <2>1
    <2>3. <<s[l], s[k]>> \notin before
      BY <1>3, <2>1, <2>2
    <2> QED
      BY <2>1, <2>2, <2>3
  <1>12. ASSUME NEW i \in S PROVE \E k \in 1..N : s[k] = i
    <2>1. R[i] \in 1..N
      BY <1>2
    <2>2. s[R[i]] \in S /\ R[s[R[i]]] = R[i]
      BY <1>8, <2>1
    <2>3. s[R[i]] = i
      BY <1>4, <2>2
    <2> QED
      BY <2>1, <2>3
  <1> QED
    BY <1>1, <1>10, <1>11, <1>12 DEF N, s

\* A function that is defined step by step.
Iterates(N, V, z, F) == {f \in [0..N -> V] : f[0] = z /\ \A n \in 1..N : f[n] = F[n][f[n - 1]]}
LEMMA Repeats ==
    ASSUME NEW N \in Nat, NEW V, NEW z \in V, NEW F, F \in [1..N -> [V -> V]]
    PROVE  Iterates(N, V, z, F) # {}
  <1> DEFINE T == {m \in Nat : m <= N => \E f \in [0..m -> V] : f[0] = z /\ \A n \in 1..m : f[n] = F[n][f[n - 1]]}
  <1>1. 0 \in T
    <2> DEFINE f == [n \in 0..0 |-> z]
    <2>1. f \in [0..0 -> V] /\ f[0] = z /\ \A n \in 1..0 : f[n] = F[n][f[n - 1]]
      OBVIOUS
    <2> QED
      BY <2>1
  <1>2. ASSUME NEW m \in Nat, m \in T PROVE m + 1 \in T
    <2> SUFFICES ASSUME m + 1 <= N PROVE \E g \in [0..(m + 1) -> V] : g[0] = z /\ \A n \in 1..(m + 1) : g[n] = F[n][g[n - 1]]
      OBVIOUS
    <2>1. PICK f \in [0..m -> V] : f[0] = z /\ \A n \in 1..m : f[n] = F[n][f[n - 1]]
      BY <1>2
    <2> DEFINE g == [n \in 0..(m + 1) |-> IF n <= m THEN f[n] ELSE F[m + 1][f[m]]]
    <2>2. f[m] \in V /\ F[m + 1] \in [V -> V]
      BY <2>1
    <2>3. F[m + 1][f[m]] \in V
      BY <2>2
    <2>4. \A n \in 0..m : g[n] = f[n]
      OBVIOUS
    <2>5. g[m + 1] = F[m + 1][f[m]] /\ g \in [0..(m + 1) -> V]
      BY <2>1, <2>3
    <2> HIDE DEF g
    <2>6. ASSUME NEW n \in 1..(m + 1) PROVE g[n] = F[n][g[n - 1]]
      <3>1. CASE n = m + 1
        BY <2>4, <2>5, <3>1
      <3>2. CASE n \in 1..m
        <4>1. n \in 0..m /\ n - 1 \in 0..m
          BY <3>2
        <4> QED
          BY <2>1, <2>4, <3>2, <4>1
      <3> QED
        BY <3>1, <3>2
    <2>7. g[0] = z
      BY <2>1, <2>4
    <2> QED
      BY <2>5, <2>6, <2>7
  <1> HIDE DEF T
  <1>3. N \in T
    BY <1>1, <1>2, Induction
  <1> QED
    BY <1>3 DEF T, Iterates

-----------------------------------------------------------------------------
(* MapView: fractions.                                                     *)

\* A product with a positive factor.
LEMMA Products ==
    ASSUME NEW a \in Int, NEW b \in Int, NEW e \in Int, e # 0, a * e = b * e
    PROVE  a = b
  <1>1. (a - b) * e = 0
    OBVIOUS
  <1> QED
    BY <1>1

LEMMA Signs ==
    ASSUME NEW a \in Int, NEW b \in Int, b > 0
    PROVE  /\ a * b > 0 <=> a > 0
           /\ a * b >= 0 <=> a >= 0
  <1>1. CASE a > 0
    <2>1. a * b > 0
      BY <1>1
    <2> QED
      BY <1>1, <2>1
  <1>2. CASE a = 0
    BY <1>2
  <1>3. CASE a < 0
    <2>1. (-a) * b > 0
      BY <1>3
    <2>2. a * b = -((-a) * b)
      OBVIOUS
    <2> QED
      BY <1>3, <2>1, <2>2
  <1> QED
    BY <1>1, <1>2, <1>3

\* What divides a natural number, and a pair of them.
Divs(a) == {e \in Nat \ {0} : \E k \in Int : a = e * k}
Shared(p) == Divs(p[1]) \cap Divs(p[2])
IsGcd(g) == g = [p \in Nat \X Nat |-> IF p[2] = 0 THEN p[1] ELSE g[<<p[2], p[1] % p[2]>>]]

LEMMA DivsSmall ==
    ASSUME NEW a \in Nat \ {0}, NEW e \in Divs(a)
    PROVE  e <= a
  <1>1. PICK k \in Int : a = e * k
    BY DEF Divs
  <1>2. e \in Nat \ {0}
    BY DEF Divs
  <1>3. k * e > 0 /\ e > 0
    BY <1>1, <1>2
  <1>4. k > 0
    BY <1>2, <1>3, Signs
  <1>5. (k - 1) * e >= 0
    BY <1>2, <1>4, Signs
  <1>6. (k - 1) * e = a - e
    BY <1>1, <1>2
  <1> QED
    BY <1>2, <1>5, <1>6

LEMMA SharedStep ==
    ASSUME NEW a \in Nat, NEW b \in Nat \ {0}
    PROVE  Shared(<<a, b>>) = Shared(<<b, a % b>>)
  <1>1. a = b * (a \div b) + (a % b) /\ a \div b \in Int /\ a % b \in Nat
    BY Parts
  <1> DEFINE q == a \div b
             r == a % b
  <1>2. a = b * q + r /\ q \in Int /\ r \in Nat
    BY <1>1
  <1> SUFFICES Shared(<<a, b>>) = Shared(<<b, r>>)
    OBVIOUS
  <1> HIDE DEF q, r
  <1>3. ASSUME NEW e \in Divs(a), e \in Divs(b) PROVE e \in Divs(r)
    <2>1. e \in Nat \ {0}
      BY DEF Divs
    <2>2. PICK k \in Int : a = e * k
      BY DEF Divs
    <2>3. PICK m \in Int : b = e * m
      BY <1>3 DEF Divs
    <2>4. r = e * k - (e * m) * q
      BY <1>2, <2>2, <2>3
    <2>5. e * k - (e * m) * q = e * (k - m * q)
      BY <1>2, <2>1
    <2>6. r = e * (k - m * q) /\ k - m * q \in Int
      BY <1>2, <2>4, <2>5
    <2> QED
      BY <2>1, <2>6 DEF Divs
  <1>4. ASSUME NEW e \in Divs(r), e \in Divs(b) PROVE e \in Divs(a)
    <2>1. e \in Nat \ {0}
      BY DEF Divs
    <2>2. PICK k \in Int : r = e * k
      BY DEF Divs
    <2>3. PICK m \in Int : b = e * m
      BY <1>4 DEF Divs
    <2>4. a = (e * m) * q + e * k
      BY <1>2, <2>2, <2>3
    <2>5. (e * m) * q + e * k = e * (m * q + k)
      BY <1>2, <2>1
    <2>6. a = e * (m * q + k) /\ m * q + k \in Int
      BY <1>2, <2>4, <2>5
    <2> QED
      BY <2>1, <2>6 DEF Divs
  <1> QED
    BY <1>3, <1>4 DEF Shared

LEMMA SharedWhole ==
    ASSUME NEW a \in Nat, NEW b \in Nat \ {0}, a % b = 0
    PROVE  Max(Shared(<<a, b>>)) = b
  <1>1. a = b * (a \div b) + (a % b) /\ a \div b \in Int
    BY Parts
  <1>2. b \in Divs(a)
    BY <1>1 DEF Divs
  <1>3. b = b * 1
    OBVIOUS
  <1>4. b \in Divs(b)
    BY <1>3 DEF Divs
  <1>5. b \in Shared(<<a, b>>) /\ \A e \in Shared(<<a, b>>) : e <= b
    BY <1>2, <1>4, DivsSmall DEF Shared
  <1>6. Shared(<<a, b>>) \subseteq Nat
    BY DEF Shared, Divs
  <1>7. \A x \in Shared(<<a, b>>) : (\A y \in Shared(<<a, b>>) : x >= y) => x = b
    BY <1>5, <1>6
  <1>8. \A y \in Shared(<<a, b>>) : b >= y
    BY <1>5, <1>6
  <1> QED
    BY <1>5, <1>7, <1>8 DEF Max

LEMMA GcdIs ==
    \A p \in Nat \X Nat : gcd[p] = IF p[2] = 0 THEN p[1] ELSE gcd[<<p[2], p[1] % p[2]>>]
  <1> DEFINE g == [p \in Nat \X Nat |-> IF p[2] = 0 THEN p[1] ELSE Max(Shared(p))]
  <1>1. ASSUME NEW p \in Nat \X Nat PROVE g[p] = IF p[2] = 0 THEN p[1] ELSE g[<<p[2], p[1] % p[2]>>]
    <2>1. CASE p[2] = 0
      BY <2>1
    <2>2. CASE p[2] # 0
      <3> DEFINE q == <<p[2], p[1] % p[2]>>
      <3>1. q \in Nat \X Nat /\ q[1] = p[2] /\ q[2] = p[1] % p[2]
        <4>1. p[1] \in Int /\ p[2] \in Nat \ {0}
          BY <2>2
        <4>2. p[1] % p[2] \in 0..(p[2] - 1)
          BY <4>1, Parts
        <4>3. p[1] % p[2] \in Nat
          BY <4>1, <4>2
        <4> QED
          BY <4>1, <4>3
      <3>2. g[p] = Max(Shared(p)) /\ p = <<p[1], p[2]>>
        BY <2>2
      <3>3. CASE q[2] = 0
        <4>1. g[q] = p[2]
          BY <3>1, <3>3
        <4>2. Max(Shared(<<p[1], p[2]>>)) = p[2]
          BY <2>2, <3>1, <3>3, SharedWhole
        <4> QED
          BY <2>2, <3>2, <4>1, <4>2
      <3>4. CASE q[2] # 0
        <4>1. g[q] = Max(Shared(q))
          BY <3>1, <3>4
        <4>2. Shared(<<p[1], p[2]>>) = Shared(q)
          BY <2>2, SharedStep
        <4> QED
          BY <2>2, <3>2, <4>1, <4>2
      <3> QED
        BY <3>3, <3>4
    <2> QED
      BY <2>1, <2>2
  <1>2. g = [p \in Nat \X Nat |-> g[p]]
    OBVIOUS
  <1> HIDE DEF g
  <1>3. IsGcd(g)
    BY <1>1, <1>2, Zenon DEF IsGcd
  <1>4. gcd = CHOOSE h : IsGcd(h)
    BY DEF gcd, IsGcd
  <1>5. IsGcd(gcd)
    BY <1>3, <1>4, Zenon
  <1> QED
    BY <1>5, Zenon DEF IsGcd

\* gcd divides both, and is a sum of multiples of them.
IsDivisor(g, a, b) == g \in Nat /\ \E u, v, x, y \in Int : a = g * u /\ b = g * v /\ g = a * x + b * y

LEMMA DivisorStep ==
    ASSUME NEW a \in Nat, NEW b \in Nat, NEW q \in Int, NEW r \in Nat, NEW g, a = b * q + r, IsDivisor(g, b, r)
    PROVE  IsDivisor(g, a, b)
  <1>1. g \in Nat
    BY DEF IsDivisor
  <1>2. PICK u \in Int, v \in Int, x \in Int, y \in Int : b = g * u /\ r = g * v /\ g = b * x + r * y
    BY Zenon DEF IsDivisor
  <1>3. a = g * (u * q + v)
    <2>1. a = (g * u) * q + g * v
      BY <1>2
    <2>2. (g * u) * q + g * v = g * (u * q + v)
      BY <1>1
    <2> QED
      BY <2>1, <2>2
  <1>4. g = a * y + b * (x - q * y)
    <2>1. r = a - b * q
      OBVIOUS
    <2>2. g = b * x + (a - b * q) * y
      BY <1>2, <2>1
    <2>3. b * x + (a - b * q) * y = a * y + b * (x - q * y)
      OBVIOUS
    <2> QED
      BY <2>2, <2>3
  <1>5. u * q + v \in Int /\ x - q * y \in Int
    OBVIOUS
  <1>6. PICK u1 \in Int, x1 \in Int : a = g * u1 /\ g = a * y + b * x1
    BY <1>3, <1>4, <1>5
  <1>7. b = g * u
    BY <1>2
  <1> HIDE <1>2, <1>3, <1>4, <1>5
  <1> SUFFICES \E u2, v2, x2, y2 \in Int : a = g * u2 /\ b = g * v2 /\ g = a * x2 + b * y2
    BY <1>1 DEF IsDivisor
  <1> WITNESS u1 \in Int, u \in Int, y \in Int, x1 \in Int
  <1> QED
    BY <1>6, <1>7

LEMMA GcdDivides ==
    \A b, a \in Nat : IsDivisor(gcd[<<a, b>>], a, b)
  <1> DEFINE T == {n \in Nat : \A b \in 0..n, a \in Nat : IsDivisor(gcd[<<a, b>>], a, b)}
  <1>1. ASSUME NEW a \in Nat PROVE IsDivisor(gcd[<<a, 0>>], a, 0)
    <2>1. gcd[<<a, 0>>] = a
      BY GcdIs
    <2>2. a = a * 1 /\ 0 = a * 0 /\ a = a * 1 + 0 * 0
      OBVIOUS
    <2> QED
      BY <2>1, <2>2 DEF IsDivisor
  <1>2. 0 \in T
    BY <1>1
  <1>3. ASSUME NEW n \in Nat, n \in T PROVE n + 1 \in T
    <2>1. ASSUME NEW b \in 0..(n + 1), NEW a \in Nat PROVE IsDivisor(gcd[<<a, b>>], a, b)
      <3>1. CASE b = 0
        BY <1>1, <3>1
      <3>2. CASE b # 0
        <4>1. b \in Nat \ {0} /\ a \in Int /\ b \in Nat
          BY <3>2
        <4>2. gcd[<<a, b>>] = gcd[<<b, a % b>>]
          BY <4>1, GcdIs
        <4>3. a = b * (a \div b) + (a % b) /\ a \div b \in Int /\ a % b \in 0..(b - 1)
          BY <4>1, Parts
        <4>4. a % b \in 0..n /\ a % b \in Nat
          BY <4>1, <4>3
        <4>5. IsDivisor(gcd[<<b, a % b>>], b, a % b)
          BY <1>3, <4>1, <4>4
        <4> QED
          BY <4>1, <4>2, <4>3, <4>4, <4>5, DivisorStep
      <3> QED
        BY <3>1, <3>2
    <2> QED
      BY <2>1
  <1>4. Nat \subseteq T
    <2> HIDE DEF T
    <2> QED
      BY <1>2, <1>3, Induction
  <1> QED
    <2> TAKE b \in Nat, a \in Nat
    <2>1. b \in T /\ b \in 0..b
      BY <1>4
    <2> QED
      BY <2>1

\* Fractions in lowest terms, and what a fraction is worth.
Fr == {t \in Int \X (Nat \ {0}) : \E x, y \in Int : t[1] * x + t[2] * y = 1}
Worth(t, n, d) == t \in Fr /\ t[1] * d = n * t[2]

LEMMA FrIs ==
    ASSUME NEW t \in Fr
    PROVE  t[1] \in Int /\ t[2] \in Nat \ {0} /\ t[2] \in Int /\ t[2] # 0 /\ t[2] > 0 /\ t = <<t[1], t[2]>> /\ Worth(t, t[1], t[2])
  BY DEF Fr, Worth

LEMMA FractionDivides ==
    ASSUME NEW a \in Int, NEW b \in Nat \ {0}, NEW c \in Int, NEW d \in Nat \ {0}, NEW x \in Int, NEW y \in Int,
           a * x + b * y = 1, a * d = c * b
    PROVE  b <= d
  <1>1. d = d * (a * x + b * y)
    OBVIOUS
  <1>2. d * (a * x + b * y) = (a * d) * x + d * b * y
    OBVIOUS
  <1>3. d = (c * b) * x + d * b * y
    BY <1>1, <1>2
  <1>4. (c * b) * x + d * b * y = b * (c * x + d * y)
    OBVIOUS
  <1>5. d = b * (c * x + d * y) /\ c * x + d * y \in Int
    BY <1>3, <1>4
  <1>6. b \in Divs(d)
    BY <1>5 DEF Divs
  <1> QED
    BY <1>6, DivsSmall

LEMMA WorthIsOne ==
    ASSUME NEW s, NEW t, NEW n \in Int, NEW d \in Int, d # 0, Worth(s, n, d), Worth(t, n, d)
    PROVE  s = t
  <1>1. s \in Fr /\ t \in Fr /\ s[1] * d = n * s[2] /\ t[1] * d = n * t[2]
    BY DEF Worth
  <1>2. /\ s[1] \in Int /\ s[2] \in Nat \ {0} /\ s = <<s[1], s[2]>>
        /\ t[1] \in Int /\ t[2] \in Nat \ {0} /\ t = <<t[1], t[2]>>
    BY <1>1, FrIs
  <1>3. PICK a \in Int, b \in Nat \ {0}, c \in Int, e \in Nat \ {0} : a = s[1] /\ b = s[2] /\ c = t[1] /\ e = t[2]
    BY <1>2
  <1>4. a * d = n * b /\ c * d = n * e
    BY <1>1, <1>3
  <1>5. (a * e) * d = (c * b) * d
    <2>1. (a * e) * d = (a * d) * e /\ (c * b) * d = (c * d) * b
      OBVIOUS
    <2>2. (a * d) * e = (n * b) * e /\ (c * d) * b = (n * e) * b
      BY <1>4
    <2>3. (n * b) * e = (n * e) * b
      OBVIOUS
    <2> QED
      BY <2>1, <2>2, <2>3
  <1>6. a * e \in Int /\ c * b \in Int
    OBVIOUS
  <1>7. a * e = c * b
    BY <1>5, <1>6, Products
  <1>8. PICK x \in Int, y \in Int : a * x + b * y = 1
    BY <1>1, <1>3 DEF Fr
  <1>9. PICK z \in Int, w \in Int : c * z + e * w = 1
    BY <1>1, <1>3 DEF Fr
  <1>10. b <= e
    BY <1>7, <1>8, FractionDivides
  <1>11. c * b = a * e
    BY <1>7
  <1>12. e <= b
    BY <1>9, <1>11, FractionDivides
  <1>13. b = e
    BY <1>10, <1>12
  <1>14. a = c
    BY <1>7, <1>13, Products
  <1> QED
    BY <1>2, <1>3, <1>13, <1>14

LEMMA AbsIs ==
    ASSUME NEW n \in Int
    PROVE  Abs(n) \in Nat /\ (n >= 0 => Abs(n) = n) /\ (n < 0 => Abs(n) = -n) /\ (n # 0 => Abs(n) # 0)
  BY DEF Abs

LEMMA ExactDiv ==
    ASSUME NEW g \in Nat \ {0}, NEW u \in Int
    PROVE  (g * u) \div g = u
  <1>1. g * u \in Int /\ g * u <= g * u /\ g * u < g * u + g
    OBVIOUS
  <1> QED
    BY <1>1, DivIs

LEMMA FrMake ==
    ASSUME NEW a \in Int, NEW b \in Nat \ {0}, NEW x \in Int, NEW y \in Int, a * x + b * y = 1
    PROVE  <<a, b>> \in Fr
  BY DEF Fr

LEMMA QIs ==
    ASSUME NEW n \in Int, NEW d \in Int, d # 0
    PROVE  Worth(Q(n, d), n, d)
  <1>1. Abs(n) \in Nat /\ Abs(d) \in Nat /\ Abs(d) # 0
    BY AbsIs
  <1> DEFINE g == gcd[<<Abs(n), Abs(d)>>]
  <1>2. IsDivisor(g, Abs(n), Abs(d))
    BY <1>1, GcdDivides
  <1>3. Q(n, d) = IF d < 0 THEN <<-(n \div g), -(d \div g)>> ELSE <<n \div g, d \div g>>
    BY DEF Q
  <1> HIDE DEF g
  <1>4. g \in Nat
    BY <1>2 DEF IsDivisor
  <1>5. PICK u \in Int, v \in Int, x \in Int, y \in Int : Abs(n) = g * u /\ Abs(d) = g * v /\ g = Abs(n) * x + Abs(d) * y
    BY <1>2, Zenon DEF IsDivisor
  <1>6. g > 0
    BY <1>1, <1>4, <1>5
  <1>7. v > 0
    <2>1. v * g > 0
      BY <1>1, <1>4, <1>5
    <2> QED
      BY <1>4, <1>6, <2>1, Signs
  <1>8. u * x + v * y = 1
    <2>1. g = (g * u) * x + (g * v) * y
      BY <1>5
    <2>2. (g * u) * x + (g * v) * y = (u * x + v * y) * g
      BY <1>4
    <2>3. 1 * g = (u * x + v * y) * g /\ u * x + v * y \in Int
      BY <1>4, <2>1, <2>2
    <2> HIDE DEF g
    <2> QED
      BY <1>4, <1>6, <2>3, Products
  <1>9. PICK s \in {1, -1} : n = s * (g * u)
    <2>1. n = 1 * (g * u) \/ n = (-1) * (g * u)
      BY <1>1, <1>4, <1>5, AbsIs
    <2> QED
      BY <2>1
  <1>10. PICK e \in {1, -1} : d = e * (g * v) /\ (d < 0 <=> e = -1)
    <2>1. (d = 1 * (g * v) /\ ~(d < 0)) \/ (d = (-1) * (g * v) /\ d < 0)
      BY <1>1, <1>4, <1>5, AbsIs
    <2> QED
      BY <2>1
  <1>11. n = g * (s * u) /\ d = g * (e * v) /\ s * u \in Int /\ e * v \in Int
    BY <1>4, <1>9, <1>10
  <1>12. n \div g = s * u /\ d \div g = e * v
    BY <1>4, <1>6, <1>11, ExactDiv
  <1>13. Q(n, d) = <<e * s * u, v>>
    <2>1. CASE e = 1
      BY <1>3, <1>10, <1>12, <2>1
    <2>2. CASE e = -1
      <3>1. Q(n, d) = <<-(s * u), -(e * v)>>
        BY <1>3, <1>10, <1>12, <2>2
      <3>2. -(s * u) = e * s * u /\ -(e * v) = v
        BY <2>2
      <3> QED
        BY <3>1, <3>2
    <2> QED
      BY <2>1, <2>2
  <1>14. (e * s * u) * (e * s * x) + v * y = 1
    <2>1. (e * s * u) * (e * s * x) = u * x
      OBVIOUS
    <2> QED
      BY <1>8, <2>1
  <1>15. e * s * u \in Int /\ v \in Nat \ {0} /\ e * s * x \in Int
    BY <1>7
  <1>16. Q(n, d) \in Fr
    BY <1>13, <1>14, <1>15, FrMake
  <1>17. (e * s * u) * d = n * v
    <2>1. (e * s * u) * (e * (g * v)) = (s * (g * u)) * v
      BY <1>4
    <2> QED
      BY <1>9, <1>10, <2>1
  <1> QED
    BY <1>13, <1>16, <1>17 DEF Worth

LEMMA WorthPlus ==
    ASSUME NEW p, NEW q, NEW a \in Int, NEW b \in Int, b # 0, NEW c \in Int, NEW d \in Int, d # 0,
           Worth(p, a, b), Worth(q, c, d)
    PROVE  Worth(Plus(p, q), a * d + c * b, b * d)
  <1>1. PICK p1 \in Int, p2 \in Int, q1 \in Int, q2 \in Int :
            p1 = p[1] /\ p2 = p[2] /\ q1 = q[1] /\ q2 = q[2] /\ p2 > 0 /\ q2 > 0 /\ p1 * b = a * p2 /\ q1 * d = c * q2
    BY FrIs DEF Worth
  <1>2. p2 * q2 > 0 /\ p2 * q2 # 0 /\ p2 * q2 \in Int /\ p1 * q2 + q1 * p2 \in Int
    BY <1>1, Signs
  <1>3. PICK r \in Fr : r = Plus(p, q) /\ r[1] * (p2 * q2) = (p1 * q2 + q1 * p2) * r[2]
    BY <1>1, <1>2, QIs DEF Plus, Worth
  <1>4. PICK r1 \in Int, r2 \in Int : r1 = r[1] /\ r2 = r[2] /\ r1 * (p2 * q2) = (p1 * q2 + q1 * p2) * r2
    BY <1>3, FrIs
  <1>5. (r1 * (b * d)) * (p2 * q2) = ((a * d + c * b) * r2) * (p2 * q2)
    <2>1. (r1 * (b * d)) * (p2 * q2) = (r1 * (p2 * q2)) * (b * d)
      OBVIOUS
    <2>2. (r1 * (p2 * q2)) * (b * d) = ((p1 * q2 + q1 * p2) * r2) * (b * d)
      BY <1>4
    <2>3. ((p1 * q2 + q1 * p2) * r2) * (b * d) = ((p1 * b) * q2 * d + (q1 * d) * p2 * b) * r2
      OBVIOUS
    <2>4. ((p1 * b) * q2 * d + (q1 * d) * p2 * b) * r2 = ((a * p2) * q2 * d + (c * q2) * p2 * b) * r2
      BY <1>1
    <2>5. ((a * p2) * q2 * d + (c * q2) * p2 * b) * r2 = ((a * d + c * b) * r2) * (p2 * q2)
      OBVIOUS
    <2> QED
      BY <2>1, <2>2, <2>3, <2>4, <2>5
  <1>6. r1 * (b * d) \in Int /\ (a * d + c * b) * r2 \in Int
    OBVIOUS
  <1>7. r1 * (b * d) = (a * d + c * b) * r2
    BY <1>2, <1>5, <1>6, Products
  <1> QED
    BY <1>3, <1>4, <1>7 DEF Worth

LEMMA WorthTimes ==
    ASSUME NEW p, NEW q, NEW a \in Int, NEW b \in Int, b # 0, NEW c \in Int, NEW d \in Int, d # 0,
           Worth(p, a, b), Worth(q, c, d)
    PROVE  Worth(Times(p, q), a * c, b * d)
  <1>1. PICK p1 \in Int, p2 \in Int, q1 \in Int, q2 \in Int :
            p1 = p[1] /\ p2 = p[2] /\ q1 = q[1] /\ q2 = q[2] /\ p2 > 0 /\ q2 > 0 /\ p1 * b = a * p2 /\ q1 * d = c * q2
    BY FrIs DEF Worth
  <1>2. p2 * q2 > 0 /\ p2 * q2 # 0 /\ p2 * q2 \in Int /\ p1 * q1 \in Int
    BY <1>1, Signs
  <1>3. PICK r \in Fr : r = Times(p, q) /\ r[1] * (p2 * q2) = (p1 * q1) * r[2]
    BY <1>1, <1>2, QIs DEF Times, Worth
  <1>4. PICK r1 \in Int, r2 \in Int : r1 = r[1] /\ r2 = r[2] /\ r1 * (p2 * q2) = (p1 * q1) * r2
    BY <1>3, FrIs
  <1>5. (r1 * (b * d)) * (p2 * q2) = ((a * c) * r2) * (p2 * q2)
    <2>1. (r1 * (b * d)) * (p2 * q2) = (r1 * (p2 * q2)) * (b * d)
      OBVIOUS
    <2>2. (r1 * (p2 * q2)) * (b * d) = ((p1 * q1) * r2) * (b * d)
      BY <1>4
    <2>3. ((p1 * q1) * r2) * (b * d) = (p1 * b) * (q1 * d) * r2
      OBVIOUS
    <2>4. (p1 * b) * (q1 * d) * r2 = (a * p2) * (c * q2) * r2
      BY <1>1
    <2>5. (a * p2) * (c * q2) * r2 = ((a * c) * r2) * (p2 * q2)
      OBVIOUS
    <2> QED
      BY <2>1, <2>2, <2>3, <2>4, <2>5
  <1>6. r1 * (b * d) \in Int /\ (a * c) * r2 \in Int
    OBVIOUS
  <1>7. r1 * (b * d) = (a * c) * r2
    BY <1>2, <1>5, <1>6, Products
  <1> QED
    BY <1>3, <1>4, <1>7 DEF Worth

\* The negative and, of what is positive, the reciprocal.
LEMMA WorthMinus ==
    ASSUME NEW p, NEW q, NEW a \in Int, NEW b \in Int, b # 0, NEW c \in Int, NEW d \in Int, d # 0,
           Worth(p, a, b), Worth(q, c, d)
    PROVE  Worth(Minus(p, q), a * d + (-c) * b, b * d)
  <1>1. PICK q1 \in Int, q2 \in Nat \ {0} : q1 = q[1] /\ q2 = q[2] /\ q1 * d = c * q2 /\ q \in Fr
    BY FrIs DEF Worth
  <1>2. PICK x \in Int, y \in Int : q1 * x + q2 * y = 1
    BY <1>1 DEF Fr
  <1>3. (-q1) * (-x) + q2 * y = 1 /\ -x \in Int /\ -q1 \in Int
    BY <1>2
  <1>4. <<-q1, q2>> \in Fr
    BY <1>3, FrMake
  <1>5. (-q1) * d = (-c) * q2
    BY <1>1
  <1>6. Worth(<<-q1, q2>>, -c, d)
    BY <1>4, <1>5 DEF Worth
  <1>7. -c \in Int
    OBVIOUS
  <1>8. Worth(Plus(p, <<-q1, q2>>), a * d + (-c) * b, b * d)
    BY <1>6, <1>7, WorthPlus
  <1> QED
    BY <1>1, <1>8 DEF Minus

LEMMA WorthOver ==
    ASSUME NEW p, NEW q, NEW a \in Int, NEW b \in Int, b # 0, NEW c \in Int, NEW d \in Int, d # 0,
           Worth(p, a, b), Worth(q, c, d), q[1] > 0
    PROVE  c # 0 /\ Worth(Over(p, q), a * d, b * c)
  <1>1. PICK q1 \in Int, q2 \in Nat \ {0} : q1 = q[1] /\ q2 = q[2] /\ q1 * d = c * q2 /\ q \in Fr /\ q1 > 0
    BY FrIs DEF Worth
  <1>2. PICK x \in Int, y \in Int : q1 * x + q2 * y = 1
    BY <1>1 DEF Fr
  <1>3. q2 * y + q1 * x = 1 /\ q1 \in Nat \ {0} /\ q2 \in Int
    BY <1>1, <1>2
  <1>4. <<q2, q1>> \in Fr
    BY <1>3, FrMake
  <1>5. q2 * c = d * q1
    BY <1>1
  <1>6. Worth(<<q2, q1>>, d, c)
    BY <1>4, <1>5 DEF Worth
  <1>7. c # 0
    <2>1. q1 * d # 0
      <3> SUFFICES ASSUME q1 * d = 0 PROVE FALSE
        OBVIOUS
      <3>1. d * q1 = 0 * q1
        OBVIOUS
      <3> QED
        BY <1>3, <3>1, Products
    <2> QED
      BY <1>1, <2>1
  <1>8. Worth(Times(p, <<q2, q1>>), a * d, b * c)
    BY <1>6, <1>7, WorthTimes
  <1>9. Over(p, q) = Times(p, <<q2, q1>>)
    BY <1>1 DEF Over
  <1> QED
    BY <1>7, <1>8, <1>9

LEMMA FrWorth ==
    ASSUME NEW t \in Fr
    PROVE  /\ Worth(t, t[1], t[2]) /\ t[1] \in Int /\ t[2] \in Int /\ t[2] # 0 /\ t[2] > 0
           /\ \A n, d \in Int : d # 0 /\ Worth(t, n, d) => \A s \in Fr : Worth(s, n, d) => s = t
  BY FrIs, WorthIsOne

LEMMA Shrink ==
    ASSUME NEW t, NEW n \in Int, NEW d \in Int, NEW e \in Int, e # 0, Worth(t, n * e, d * e)
    PROVE  Worth(t, n, d)
  <1>1. PICK a \in Int, b \in Int : a = t[1] /\ b = t[2] /\ t \in Fr /\ a * (d * e) = (n * e) * b
    BY FrIs DEF Worth
  <1>2. (a * d) * e = (n * b) * e /\ a * d \in Int /\ n * b \in Int
    BY <1>1
  <1>3. a * d = n * b
    BY <1>2, Products
  <1> QED
    BY <1>1, <1>3 DEF Worth

LEMMA NotZero ==
    ASSUME NEW a \in Int, NEW b \in Int, a # 0, b # 0
    PROVE  a * b # 0 /\ a * b \in Int
  OBVIOUS

LEMMA PlusMinus ==
    ASSUME NEW t \in Fr, NEW c \in Fr
    PROVE  Minus(c, t) \in Fr /\ Plus(t, Minus(c, t)) = c
  <1>1. PICK t1 \in Int, t2 \in Int, c1 \in Int, c2 \in Int : Worth(t, t1, t2) /\ Worth(c, c1, c2) /\ t2 # 0 /\ c2 # 0
    BY FrWorth
  <1>2. Worth(Minus(c, t), c1 * t2 + (-t1) * c2, c2 * t2)
    BY <1>1, WorthMinus
  <1>3. c2 * t2 # 0 /\ c2 * t2 \in Int /\ c1 * t2 + (-t1) * c2 \in Int /\ t2 * t2 # 0 /\ t2 * t2 \in Int
    BY <1>1, NotZero
  <1>4. Worth(Plus(t, Minus(c, t)), t1 * (c2 * t2) + (c1 * t2 + (-t1) * c2) * t2, t2 * (c2 * t2))
    BY <1>1, <1>2, <1>3, WorthPlus
  <1>5. t1 * (c2 * t2) + (c1 * t2 + (-t1) * c2) * t2 = c1 * (t2 * t2) /\ t2 * (c2 * t2) = c2 * (t2 * t2)
    OBVIOUS
  <1>6. Worth(Plus(t, Minus(c, t)), c1, c2)
    <2>1. PICK e \in Int : e = t2 * t2 /\ e # 0
      BY <1>3
    <2>4. PICK p : p = Plus(t, Minus(c, t))
      OBVIOUS
    <2>2. Worth(p, c1 * e, c2 * e)
      BY <1>4, <1>5, <2>1, <2>4
    <2>3. Worth(p, c1, c2)
      BY <2>1, <2>2, Shrink
    <2> QED
      BY <2>3, <2>4
  <1> QED
    BY <1>1, <1>2, <1>6, WorthIsOne DEF Worth

LEMMA FrClosed ==
    ASSUME NEW p \in Fr, NEW q \in Fr
    PROVE  Plus(p, q) \in Fr /\ Times(p, q) \in Fr /\ Minus(p, q) \in Fr /\ (q[1] > 0 => Over(p, q) \in Fr)
  <1>1. PICK p1 \in Int, p2 \in Int, q1 \in Int, q2 \in Int : Worth(p, p1, p2) /\ Worth(q, q1, q2) /\ p2 # 0 /\ q2 # 0
    BY FrWorth
  <1>2. Plus(p, q) \in Fr
    BY <1>1, WorthPlus DEF Worth
  <1>3. Times(p, q) \in Fr
    BY <1>1, WorthTimes DEF Worth
  <1>4. Minus(p, q) \in Fr
    BY <1>1, WorthMinus DEF Worth
  <1>5. ASSUME q[1] > 0 PROVE Over(p, q) \in Fr
    BY <1>1, <1>5, WorthOver DEF Worth
  <1> QED
    BY <1>2, <1>3, <1>4, <1>5

LEMMA WholeIs ==
    ASSUME NEW n \in Int
    PROVE  Whole(n) \in Fr /\ Worth(Whole(n), n, 1)
  <1>1. n * 0 + 1 * 1 = 1
    OBVIOUS
  <1>2. <<n, 1>> \in Fr
    BY <1>1, FrMake
  <1> QED
    BY <1>2 DEF Whole, Worth

LEMMA PlusWhole ==
    ASSUME NEW a \in Int, NEW b \in Int
    PROVE  Plus(Whole(a), Whole(b)) = Whole(a + b)
  <1>1. Worth(Plus(Whole(a), Whole(b)), a * 1 + b * 1, 1 * 1)
    BY WholeIs, WorthPlus
  <1>2. a * 1 + b * 1 = a + b /\ 1 * 1 = 1 /\ a + b \in Int
    OBVIOUS
  <1> QED
    BY <1>1, <1>2, WholeIs, WorthIsOne

LEMMA TimesOver ==
    ASSUME NEW a \in Fr, NEW k \in Fr, NEW j \in Fr, k[1] > 0
    PROVE  Times(Over(a, k), j) = Times(a, Over(j, k))
  <1>1. PICK a1 \in Int, a2 \in Int, j1 \in Int, j2 \in Int, k1 \in Int, k2 \in Int :
            Worth(a, a1, a2) /\ Worth(j, j1, j2) /\ Worth(k, k1, k2) /\ a2 # 0 /\ j2 # 0 /\ k2 # 0
    BY FrWorth
  <1>2. Worth(Over(a, k), a1 * k2, a2 * k1) /\ Worth(Over(j, k), j1 * k2, j2 * k1) /\ k1 # 0
    BY <1>1, WorthOver
  <1>3. a1 * k2 \in Int /\ j1 * k2 \in Int /\ a2 * k1 \in Int /\ a2 * k1 # 0 /\ j2 * k1 \in Int /\ j2 * k1 # 0
    BY <1>1, <1>2, NotZero
  <1>4. Worth(Times(Over(a, k), j), (a1 * k2) * j1, (a2 * k1) * j2)
    BY <1>1, <1>2, <1>3, WorthTimes
  <1>5. Worth(Times(a, Over(j, k)), a1 * (j1 * k2), a2 * (j2 * k1))
    BY <1>1, <1>2, <1>3, WorthTimes
  <1>6. (a1 * k2) * j1 = a1 * (j1 * k2) /\ (a2 * k1) * j2 = a2 * (j2 * k1) /\ a1 * (j1 * k2) \in Int
    OBVIOUS
  <1>7. a2 * (j2 * k1) \in Int /\ a2 * (j2 * k1) # 0
    BY <1>1, <1>3, NotZero
  <1> QED
    BY <1>4, <1>5, <1>6, <1>7, WorthIsOne

LEMMA OverTimes ==
    ASSUME NEW a \in Fr, NEW m \in Fr, m[1] > 0
    PROVE  Over(Times(a, m), m) = a
  <1>1. PICK a1 \in Int, a2 \in Int, m1 \in Int, m2 \in Int : Worth(a, a1, a2) /\ Worth(m, m1, m2) /\ a2 # 0 /\ m2 # 0
    BY FrWorth
  <1>2. Worth(Times(a, m), a1 * m1, a2 * m2) /\ a1 * m1 \in Int /\ a2 * m2 \in Int /\ a2 * m2 # 0
    BY <1>1, WorthTimes, NotZero
  <1>3. m1 # 0 /\ Worth(Over(Times(a, m), m), (a1 * m1) * m2, (a2 * m2) * m1)
    BY <1>1, <1>2, WorthOver
  <1>4. (a1 * m1) * m2 = a1 * (m1 * m2) /\ (a2 * m2) * m1 = a2 * (m1 * m2)
    OBVIOUS
  <1>5. m1 * m2 # 0 /\ m1 * m2 \in Int
    BY <1>1, <1>3, NotZero
  <1>6. Worth(Over(Times(a, m), m), a1, a2)
    BY <1>3, <1>4, <1>5, Shrink
  <1> QED
    BY <1>1, <1>6, WorthIsOne

\* Which of two fractions is the smaller.
LEMMA LtOrder ==
    ASSUME NEW p \in Fr, NEW q \in Fr, NEW r \in Fr, ~Lt(q, p), ~Lt(r, q)
    PROVE  ~Lt(r, p)
  <1>1. PICK p1 \in Int, p2 \in Int, q1 \in Int, q2 \in Int, r1 \in Int, r2 \in Int :
            /\ p1 = p[1] /\ p2 = p[2] /\ q1 = q[1] /\ q2 = q[2] /\ r1 = r[1] /\ r2 = r[2]
            /\ p2 > 0 /\ q2 > 0 /\ r2 > 0
    BY FrIs
  <1>2. ~(q1 * p2 < p1 * q2) /\ ~(r1 * q2 < q1 * r2)
    BY <1>1 DEF Lt
  <1>3. (q1 * p2 - p1 * q2) * r2 >= 0 /\ (r1 * q2 - q1 * r2) * p2 >= 0
    <2>1. q1 * p2 - p1 * q2 >= 0 /\ r1 * q2 - q1 * r2 >= 0 /\ q1 * p2 - p1 * q2 \in Int /\ r1 * q2 - q1 * r2 \in Int
      BY <1>2
    <2> QED
      BY <1>1, <2>1, Signs
  <1>4. (q1 * p2 - p1 * q2) * r2 + (r1 * q2 - q1 * r2) * p2 = (r1 * p2 - p1 * r2) * q2
    OBVIOUS
  <1>5. (r1 * p2 - p1 * r2) * q2 >= 0 /\ r1 * p2 - p1 * r2 \in Int
    BY <1>3, <1>4
  <1>6. r1 * p2 - p1 * r2 >= 0
    BY <1>1, <1>5, Signs
  <1> QED
    BY <1>1, <1>6 DEF Lt

LEMMA LtTotal ==
    ASSUME NEW p \in Fr, NEW q \in Fr
    PROVE  ~Lt(p, p) /\ (Lt(p, q) => ~Lt(q, p))
  <1>1. PICK p1 \in Int, p2 \in Int, q1 \in Int, q2 \in Int : p1 = p[1] /\ p2 = p[2] /\ q1 = q[1] /\ q2 = q[2]
    BY FrWorth
  <1> QED
    BY <1>1 DEF Lt

LEMMA MinMaxQ ==
    ASSUME NEW p \in Fr, NEW q \in Fr
    PROVE  /\ MinQ(p, q) \in {p, q} /\ MinQ(p, q) \in Fr /\ ~Lt(p, MinQ(p, q))
           /\ MaxQ(p, q) \in {p, q} /\ MaxQ(p, q) \in Fr /\ ~Lt(MaxQ(p, q), p)
  BY LtTotal DEF MinQ, MaxQ

LEMMA Positive ==
    ASSUME NEW p \in Fr, NEW q \in Fr, p[1] > 0, ~Lt(q, p)
    PROVE  q[1] > 0
  <1>1. PICK p1 \in Int, p2 \in Int, q1 \in Int, q2 \in Int :
            p1 = p[1] /\ p2 = p[2] /\ q1 = q[1] /\ q2 = q[2] /\ p2 > 0 /\ q2 > 0 /\ p1 > 0
    BY FrWorth
  <1>2. ~(q1 * p2 < p1 * q2)
    BY <1>1 DEF Lt
  <1>3. p1 * q2 > 0
    BY <1>1, Signs
  <1>4. q1 * p2 > 0
    BY <1>2, <1>3
  <1> QED
    BY <1>1, <1>4, Signs

\* A fraction as it is written is compared by what it is worth.
LEMMA LtWorth ==
    ASSUME NEW p, NEW q, NEW a \in Int, NEW b \in Int, b > 0, NEW c \in Int, NEW d \in Int, d > 0, Worth(p, a, b), Worth(q, c, d)
    PROVE  /\ Lt(p, q) <=> a * d < c * b
           /\ p[1] > 0 <=> a > 0
  <1>1. PICK p1 \in Int, p2 \in Int, q1 \in Int, q2 \in Int :
            p1 = p[1] /\ p2 = p[2] /\ q1 = q[1] /\ q2 = q[2] /\ p2 > 0 /\ q2 > 0 /\ p1 * b = a * p2 /\ q1 * d = c * q2
    BY FrIs DEF Worth
  <1>2. b * d > 0 /\ p2 * q2 > 0 /\ b * d \in Int /\ p2 * q2 \in Int
    BY <1>1, Signs
  <1>3. (q1 * p2 - p1 * q2) * (b * d) = (c * b - a * d) * (p2 * q2)
    <2>1. (q1 * p2 - p1 * q2) * (b * d) = (q1 * d) * p2 * b - (p1 * b) * q2 * d
      OBVIOUS
    <2>2. (q1 * d) * p2 * b - (p1 * b) * q2 * d = (c * q2) * p2 * b - (a * p2) * q2 * d
      BY <1>1
    <2>3. (c * q2) * p2 * b - (a * p2) * q2 * d = (c * b - a * d) * (p2 * q2)
      OBVIOUS
    <2> QED
      BY <2>1, <2>2, <2>3
  <1>4. q1 * p2 - p1 * q2 \in Int /\ c * b - a * d \in Int
    OBVIOUS
  <1>5. q1 * p2 - p1 * q2 > 0 <=> c * b - a * d > 0
    BY <1>2, <1>3, <1>4, Signs
  <1>6. p1 > 0 <=> a > 0
    <2>1. p1 * b > 0 <=> p1 > 0
      BY Signs
    <2>2. a * p2 > 0 <=> a > 0
      BY <1>1, Signs
    <2> QED
      BY <1>1, <2>1, <2>2
  <1> QED
    BY <1>1, <1>5, <1>6 DEF Lt
LEMMA WorthSign ==
    ASSUME NEW p, NEW a \in Int, NEW b \in Int, b > 0, Worth(p, a, b)
    PROVE  p[1] > 0 <=> a > 0
  BY LtWorth

-----------------------------------------------------------------------------
(* MapView: the view.                                                      *)

ViewOK(v) == v \in [k : Fr, x : Fr, y : Fr] /\ ~Lt(v.k, Q(2, 25)) /\ ~Lt(Whole(3), v.k)

LEMMA Scales ==
    /\ {Q(2, 25), Q(3, 25), Q(9, 10), Q(7, 5), Q(1, 2), Whole(2), Whole(3), Centre[1], Centre[2]} \subseteq Fr
    /\ ~Lt(Q(3, 25), Q(2, 25)) /\ ~Lt(Q(7, 5), Q(2, 25)) /\ ~Lt(Whole(3), Q(7, 5)) /\ ~Lt(Whole(3), Q(2, 25)) /\ ~Lt(Whole(3), Q(9, 10))
    /\ Q(2, 25)[1] > 0
  <1>1. /\ Worth(Q(2, 25), 2, 25) /\ Worth(Q(3, 25), 3, 25) /\ Worth(Q(9, 10), 9, 10) /\ Worth(Q(7, 5), 7, 5)
        /\ Worth(Q(1, 2), 1, 2) /\ Worth(Whole(2), 2, 1) /\ Worth(Whole(3), 3, 1)
    BY QIs, WholeIs
  <1>2. Centre[1] \in Fr /\ Centre[2] \in Fr
    BY QIs, MapViewAssumption DEF Centre, MapViewAssumption, Worth
  <1>3. ~Lt(Q(3, 25), Q(2, 25)) /\ ~Lt(Q(7, 5), Q(2, 25)) /\ ~Lt(Whole(3), Q(7, 5)) /\ ~Lt(Whole(3), Q(2, 25)) /\ ~Lt(Whole(3), Q(9, 10))
    <2>1. ~Lt(Q(3, 25), Q(2, 25))
      BY <1>1, LtWorth
    <2>2. ~Lt(Q(7, 5), Q(2, 25))
      BY <1>1, LtWorth
    <2>3. ~Lt(Whole(3), Q(7, 5))
      BY <1>1, LtWorth
    <2>4. ~Lt(Whole(3), Q(2, 25))
      BY <1>1, LtWorth
    <2>5. ~Lt(Whole(3), Q(9, 10))
      BY <1>1, LtWorth
    <2> QED
      BY <2>1, <2>2, <2>3, <2>4, <2>5
  <1>4. Q(2, 25)[1] > 0
    BY <1>1, WorthSign
  <1> QED
    BY <1>1, <1>2, <1>3, <1>4 DEF Worth

LEMMA ViewPositive ==
    ASSUME NEW v, ViewOK(v)
    PROVE  v.k \in Fr /\ v.x \in Fr /\ v.y \in Fr /\ v.k[1] > 0
  BY Scales, Positive DEF ViewOK

\* The limits of a scale.
LEMMA ClampedIs ==
    ASSUME NEW k \in Fr
    PROVE  Clamped(k) \in Fr /\ ~Lt(Clamped(k), Q(2, 25)) /\ ~Lt(Whole(3), Clamped(k)) /\ Clamped(k)[1] > 0
  <1> DEFINE m == MaxQ(Q(2, 25), k)
  <1>1. m \in Fr /\ ~Lt(m, Q(2, 25))
    BY Scales, MinMaxQ
  <1>2. Clamped(k) \in {Whole(3), m} /\ ~Lt(Whole(3), Clamped(k))
    <2> HIDE DEF m
    <2> QED
      BY <1>1, Scales, MinMaxQ DEF Clamped, m
  <1> HIDE DEF m
  <1>3. Clamped(k) \in Fr /\ ~Lt(Clamped(k), Q(2, 25))
    BY <1>1, <1>2, Scales
  <1> QED
    BY <1>2, <1>3, Scales, Positive

LEMMA BoundsIs ==
    ASSUME NEW where \in [Items -> Int \X Int]
    PROVE  LET b == Bounds(where) IN
           b.x0 \in Int /\ b.x1 \in Int /\ b.y0 \in Int /\ b.y1 \in Int /\ b.x1 - b.x0 > 0 /\ b.y1 - b.y0 > 0
  <1> DEFINE xs == {where[i][1] : i \in Items}
             ys == {where[i][2] : i \in Items}
             fx == [i \in Items |-> where[i][1]]
             fy == [i \in Items |-> where[i][2]]
  <1>1. CASE Items = {}
    BY <1>1 DEF Bounds
  <1>2. CASE Items # {}
    <2>1. xs \in SUBSET Int /\ ys \in SUBSET Int /\ xs # {} /\ ys # {}
      BY <1>2
    <2>2. IsFiniteSet(xs) /\ IsFiniteSet(ys)
      <3>1. fx \in Surjection(Items, xs) /\ fy \in Surjection(Items, ys)
        BY DEF Surjection
      <3>2. IsFiniteSet(Items)
        BY MapViewAssumption DEF MapViewAssumption
      <3> HIDE DEF fx, fy, xs, ys
      <3> QED
        BY <3>1, <3>2, FS_Surjection
    <2>3. Bounds(where) = [x0 |-> Min(xs) - 60, y0 |-> Min(ys) - 60, x1 |-> Max(xs) + 60, y1 |-> Max(ys) + 70]
      BY <1>2 DEF Bounds
    <2> HIDE DEF xs, ys
    <2>4. Min(xs) \in xs /\ Min(ys) \in ys /\ Max(xs) \in xs /\ Max(ys) \in ys /\ Min(xs) <= Max(xs) /\ Min(ys) <= Max(ys)
      BY <2>1, <2>2, SmallestIs, GreatestIs
    <2>5. PICK x \in Int, u \in Int, y \in Int, v \in Int : x = Min(xs) /\ u = Max(xs) /\ y = Min(ys) /\ v = Max(ys) /\ x <= u /\ y <= v
      BY <2>1, <2>4
    <2>6. Bounds(where) = [x0 |-> x - 60, y0 |-> y - 60, x1 |-> u + 60, y1 |-> v + 70]
      BY <2>3, <2>5
    <2> QED
      BY <2>5, <2>6
  <1> QED
    BY <1>1, <1>2

LEMMA FittedIs ==
    ASSUME NEW where \in [Items -> Int \X Int]
    PROVE  ViewOK(Fitted(where))
  <1> DEFINE b == Bounds(where)
             r == Roomy(b)
             m == MaxQ(Q(3, 25), r)
             k == MinQ(Q(7, 5), m)
  <1>1. b.x0 \in Int /\ b.x1 \in Int /\ b.y0 \in Int /\ b.y1 \in Int /\ b.x1 - b.x0 > 0 /\ b.y1 - b.y0 > 0
    BY BoundsIs
  <1> HIDE DEF b
  <1>2. r \in Fr
    <2>1. Q(Wide, b.x1 - b.x0) \in Fr /\ Q(High, b.y1 - b.y0) \in Fr
      <3>1. Wide \in Int /\ High \in Int
        BY MapViewAssumption DEF MapViewAssumption
      <3>2. b.x1 - b.x0 \in Int /\ b.y1 - b.y0 \in Int /\ b.x1 - b.x0 # 0 /\ b.y1 - b.y0 # 0
        BY <1>1
      <3>3. Worth(Q(Wide, b.x1 - b.x0), Wide, b.x1 - b.x0) /\ Worth(Q(High, b.y1 - b.y0), High, b.y1 - b.y0)
        BY <3>1, <3>2, QIs
      <3> QED
        BY <3>3 DEF Worth
    <2> QED
      BY <2>1, MinMaxQ DEF Roomy
  <1> HIDE DEF r
  <1>3. m \in Fr /\ ~Lt(m, Q(3, 25))
    BY <1>2, Scales, MinMaxQ
  <1> HIDE DEF m
  <1>4. k \in {Q(7, 5), m} /\ ~Lt(Q(7, 5), k)
    BY <1>3, Scales, MinMaxQ
  <1> HIDE DEF k
  <1>5. k \in Fr /\ ~Lt(k, Q(2, 25))
    BY <1>3, <1>4, Scales, LtOrder
  <1>6. ~Lt(Whole(3), k)
    BY <1>4, <1>5, Scales, LtOrder
  <1>7. Q(b.x0 + b.x1, 2) \in Fr /\ Q(b.y0 + b.y1, 2) \in Fr
    BY <1>1, QIs DEF Worth
  <1>8. Times(Q(b.x0 + b.x1, 2), k) \in Fr /\ Times(Q(b.y0 + b.y1, 2), k) \in Fr
    BY <1>5, <1>7, FrClosed
  <1>9. Minus(Centre[1], Times(Q(b.x0 + b.x1, 2), k)) \in Fr /\ Minus(Centre[2], Times(Q(b.y0 + b.y1, 2), k)) \in Fr
    BY <1>8, Scales, FrClosed
  <1>10. Fitted(where) = [k |-> k, x |-> Minus(Centre[1], Times(Q(b.x0 + b.x1, 2), k)), y |-> Minus(Centre[2], Times(Q(b.y0 + b.y1, 2), k))]
    BY DEF Fitted, k, m, r, b
  <1> HIDE DEF b, r, m, k
  <1> QED
    BY <1>5, <1>6, <1>9, <1>10 DEF ViewOK

\* What is under the wheel stays where it is.
LEMMA ZoomedIs ==
    ASSUME vp \in [k : Fr, x : Fr, y : Fr], vp.k[1] > 0, NEW f \in Fr, NEW s \in Fr \X Fr
    PROVE  ViewOK(Zoomed(f, s)) /\ Screen(Zoomed(f, s), World(vp, s)) = s
  <1> DEFINE k == Clamped(Times(vp.k, f))
             r == Over(k, vp.k)
             a == Minus(s[1], vp.x)
             b == Minus(s[2], vp.y)
  <1>1. vp.k \in Fr /\ vp.x \in Fr /\ vp.y \in Fr /\ s[1] \in Fr /\ s[2] \in Fr /\ s = <<s[1], s[2]>>
    OBVIOUS
  <1>2. k \in Fr /\ ~Lt(k, Q(2, 25)) /\ ~Lt(Whole(3), k) /\ k[1] > 0
    BY <1>1, FrClosed, ClampedIs
  <1>3. a \in Fr /\ b \in Fr
    BY <1>1, FrClosed
  <1>4. Zoomed(f, s) = [k |-> k, x |-> Minus(s[1], Times(a, r)), y |-> Minus(s[2], Times(b, r))]
    BY DEF Zoomed, Ratio
  <1>5. World(vp, s) = <<Over(a, vp.k), Over(b, vp.k)>>
    BY DEF World
  <1> HIDE DEF a, b, k
  <1>6. r \in Fr
    BY <1>1, <1>2, FrClosed
  <1>7. Times(Over(a, vp.k), k) = Times(a, r) /\ Times(Over(b, vp.k), k) = Times(b, r)
    BY <1>1, <1>2, <1>3, TimesOver
  <1> HIDE DEF r
  <1>8. Times(a, r) \in Fr /\ Times(b, r) \in Fr
    BY <1>3, <1>6, FrClosed
  <1>9. Minus(s[1], Times(a, r)) \in Fr /\ Minus(s[2], Times(b, r)) \in Fr
    BY <1>1, <1>8, FrClosed
  <1>10. Plus(Times(a, r), Minus(s[1], Times(a, r))) = s[1] /\ Plus(Times(b, r), Minus(s[2], Times(b, r))) = s[2]
    BY <1>1, <1>8, PlusMinus
  <1>11. ViewOK(Zoomed(f, s))
    BY <1>2, <1>4, <1>9 DEF ViewOK
  <1>12. Screen(Zoomed(f, s), World(vp, s)) = <<Plus(Times(a, r), Minus(s[1], Times(a, r))), Plus(Times(b, r), Minus(s[2], Times(b, r)))>>
    BY <1>4, <1>5, <1>7 DEF Screen
  <1> QED
    BY <1>1, <1>10, <1>11, <1>12

\* What the view is centred on is in the middle.
LEMMA CentredIs ==
    ASSUME NEW p \in Fr \X Fr, NEW k \in Fr, ~Lt(k, Q(2, 25)), ~Lt(Whole(3), k)
    PROVE  ViewOK(CentredOn(p, k)) /\ Screen(CentredOn(p, k), p) = Centre
  <1>1. p[1] \in Fr /\ p[2] \in Fr /\ Centre[1] \in Fr /\ Centre[2] \in Fr
    BY Scales
  <1> DEFINE a == Times(p[1], k)
             b == Times(p[2], k)
  <1>2. a \in Fr /\ b \in Fr
    BY <1>1, FrClosed
  <1>3. CentredOn(p, k) = [k |-> k, x |-> Minus(Centre[1], a), y |-> Minus(Centre[2], b)]
    BY DEF CentredOn
  <1>4. Screen(CentredOn(p, k), p) = <<Plus(a, Minus(Centre[1], a)), Plus(b, Minus(Centre[2], b))>>
    BY <1>3 DEF Screen
  <1> HIDE DEF a, b
  <1>5. /\ Minus(Centre[1], a) \in Fr /\ Plus(a, Minus(Centre[1], a)) = Centre[1]
        /\ Minus(Centre[2], b) \in Fr /\ Plus(b, Minus(Centre[2], b)) = Centre[2]
    BY <1>1, <1>2, PlusMinus
  <1>6. Centre = <<Centre[1], Centre[2]>>
    BY DEF Centre
  <1> QED
    BY <1>3, <1>4, <1>5, <1>6 DEF ViewOK

LEMMA SpotIs ==
    ASSUME NEW p \in Int \X Int
    PROVE  Spot(p) \in Fr \X Fr
  BY WholeIs DEF Spot

\* A device is found where its dot on the minimap is clicked.
LEMMA MiniIs ==
    ASSUME laid \in [Items -> Int \X Int], NEW i \in Items
    PROVE  MiniWorld(Dot(i)) = Spot(laid[i])
  <1> DEFINE b == Bounds(laid)
             m == MiniScale
  <1>1. b.x0 \in Int /\ b.x1 \in Int /\ b.y0 \in Int /\ b.y1 \in Int /\ b.x1 - b.x0 > 0 /\ b.y1 - b.y0 > 0
    BY BoundsIs
  <1>2. m = MinQ(Q(168, b.x1 - b.x0), Q(108, b.y1 - b.y0))
    BY DEF MiniScale
  <1>3. Dot(i) = <<Times(Whole(laid[i][1] - b.x0), m), Times(Whole(laid[i][2] - b.y0), m)>>
    BY DEF Dot
  <1>4. \A s : MiniWorld(s) = <<Plus(Over(s[1], m), Whole(b.x0)), Plus(Over(s[2], m), Whole(b.y0))>>
    BY DEF MiniWorld
  <1> HIDE DEF b, m
  <1>5. /\ Q(168, b.x1 - b.x0) \in Fr /\ Q(108, b.y1 - b.y0) \in Fr
        /\ Q(168, b.x1 - b.x0)[1] > 0 /\ Q(108, b.y1 - b.y0)[1] > 0
    <2>1. Worth(Q(168, b.x1 - b.x0), 168, b.x1 - b.x0) /\ Worth(Q(108, b.y1 - b.y0), 108, b.y1 - b.y0)
      BY <1>1, QIs
    <2>2. b.x1 - b.x0 \in Int /\ b.y1 - b.y0 \in Int
      BY <1>1
    <2>3. PICK dx \in Int, dy \in Int : dx = b.x1 - b.x0 /\ dy = b.y1 - b.y0 /\ dx > 0 /\ dy > 0
      BY <1>1, <2>2
    <2>4. Worth(Q(168, dx), 168, dx) /\ Worth(Q(108, dy), 108, dy)
      BY <2>1, <2>3
    <2>5. Q(168, dx)[1] > 0
      BY <2>3, <2>4, WorthSign
    <2>6. Q(108, dy)[1] > 0
      BY <2>3, <2>4, WorthSign
    <2> QED
      BY <2>3, <2>4, <2>5, <2>6 DEF Worth
  <1>6. m \in Fr /\ m[1] > 0
    BY <1>2, <1>5, MinMaxQ
  <1>7. laid[i][1] \in Int /\ laid[i][2] \in Int
    OBVIOUS
  <1> DEFINE dx == laid[i][1] - b.x0
             dy == laid[i][2] - b.y0
  <1>8. dx \in Int /\ dy \in Int /\ dx + b.x0 = laid[i][1] /\ dy + b.y0 = laid[i][2]
    BY <1>1, <1>7
  <1>9. MiniWorld(Dot(i)) = <<Plus(Over(Times(Whole(dx), m), m), Whole(b.x0)), Plus(Over(Times(Whole(dy), m), m), Whole(b.y0))>>
    BY <1>3, <1>4
  <1> HIDE DEF dx, dy
  <1>10. Over(Times(Whole(dx), m), m) = Whole(dx) /\ Over(Times(Whole(dy), m), m) = Whole(dy)
    BY <1>6, <1>8, WholeIs, OverTimes
  <1>11. Plus(Whole(dx), Whole(b.x0)) = Whole(laid[i][1]) /\ Plus(Whole(dy), Whole(b.y0)) = Whole(laid[i][2])
    BY <1>1, <1>8, PlusWhole
  <1> QED
    BY <1>9, <1>10, <1>11 DEF Spot

-----------------------------------------------------------------------------
(* MapView: the labels.                                                    *)

LEMMA ItemsAre ==
    Items \subseteq Nat \ {0} /\ IsFiniteSet(Items) /\ Cardinality(Items) \in Nat /\ Nobody \notin Items /\ Pinch \notin Items
  <1>1. Items = 1..Cardinality(Items) /\ IsFiniteSet(Items)
    BY MapViewAssumption DEF MapViewAssumption
  <1>2. Cardinality(Items) \in Nat
    BY <1>1, FS_CardinalityType
  <1> QED
    BY <1>1, <1>2 DEF Nobody, Pinch

LEMMA RankIs ==
    ASSUME NEW i \in Items
    PROVE  rank(i) \in 0..3 /\ Degree(i) \in Nat /\ (rank(i) = 0 <=> i = sel)
  <1>1. rank(i) \in 0..3 /\ (rank(i) = 0 <=> i = sel)
    BY DEF rank
  <1> DEFINE a == {c \in Cables : c[1] = i}
             b == {c \in Cables : c[2] = i}
  <1>2. a \in SUBSET Cables /\ b \in SUBSET Cables /\ IsFiniteSet(Cables)
    BY MapViewAssumption DEF MapViewAssumption
  <1>3. Degree(i) = Cardinality(a) + Cardinality(b)
    BY DEF Degree
  <1> HIDE DEF a, b
  <1>4. Cardinality(a) \in Nat /\ Cardinality(b) \in Nat
    BY <1>2, FS_Subset, FS_CardinalityType
  <1> QED
    BY <1>1, <1>3, <1>4

\* What comes before what when the labels are sorted.
Sooner == {e \in Items \X Items : Ahead(e[1], e[2]) \/ (~Ahead(e[2], e[1]) /\ e[1] < e[2])}

LEMMA BeforeIs ==
    /\ \A i \in Items : <<i, i>> \notin Sooner
    /\ \A i, j, k \in Items : <<i, j>> \in Sooner /\ <<j, k>> \in Sooner => <<i, k>> \in Sooner
    /\ \A i, j \in Items : i # j => <<i, j>> \in Sooner \/ <<j, i>> \in Sooner
    /\ \A i, j \in Items : <<i, j>> \in Sooner => ~Ahead(j, i)
    /\ \A i \in Items : sel \in Items => <<i, sel>> \notin Sooner
  <1>1. PICK r \in [Items -> Nat], d \in [Items -> Nat] : r = [i \in Items |-> rank(i)] /\ d = [i \in Items |-> Degree(i)]
    <2>1. [i \in Items |-> rank(i)] \in [Items -> Nat] /\ [i \in Items |-> Degree(i)] \in [Items -> Nat]
      BY RankIs
    <2> QED
      BY <2>1
  <1>2. \A i, j \in Items : Ahead(i, j) <=> r[i] < r[j] \/ (r[i] = r[j] /\ d[i] > d[j])
    BY <1>1 DEF Ahead
  <1>3. \A i, j \in Items : <<i, j>> \in Sooner <=> Ahead(i, j) \/ (~Ahead(j, i) /\ i < j)
    BY DEF Sooner
  <1>4. \A i, j \in Items : <<i, j>> \in Sooner <=> r[i] < r[j] \/ (r[i] = r[j] /\ (d[i] > d[j] \/ (d[i] = d[j] /\ i < j)))
    <2> TAKE i \in Items, j \in Items
    <2>1. r[i] \in Nat /\ r[j] \in Nat /\ d[i] \in Nat /\ d[j] \in Nat /\ i \in Nat /\ j \in Nat
      BY ItemsAre
    <2>2. PICK a \in Nat, b \in Nat, c \in Nat, e \in Nat : a = r[i] /\ b = r[j] /\ c = d[i] /\ e = d[j]
      BY <2>1
    <2>3. Ahead(i, j) <=> a < b \/ (a = b /\ c > e)
      BY <1>2, <2>2
    <2>4. Ahead(j, i) <=> b < a \/ (b = a /\ e > c)
      BY <1>2, <2>2
    <2>5. <<i, j>> \in Sooner <=> Ahead(i, j) \/ (~Ahead(j, i) /\ i < j)
      BY <1>3
    <2> QED
      BY <2>1, <2>2, <2>3, <2>4, <2>5
  <1>5. \A i \in Items : <<i, i>> \notin Sooner
    BY <1>4, ItemsAre
  <1>6. \A i, j, k \in Items : <<i, j>> \in Sooner /\ <<j, k>> \in Sooner => <<i, k>> \in Sooner
    BY <1>4, ItemsAre
  <1>7. \A i, j \in Items : i # j => <<i, j>> \in Sooner \/ <<j, i>> \in Sooner
    BY <1>4, ItemsAre
  <1>8. \A i, j \in Items : <<i, j>> \in Sooner => ~Ahead(j, i)
    BY <1>2, <1>4
  <1>9. ASSUME NEW i \in Items, sel \in Items PROVE <<i, sel>> \notin Sooner
    <2>1. r[sel] = 0 /\ (r[i] = 0 => i = sel)
      BY <1>1, <1>9, RankIs
    <2> QED
      BY <1>4, <1>5, <1>9, <2>1
  <1> QED
    BY <1>5, <1>6, <1>7, <1>8, <1>9

LEMMA OrderIs ==
    \E n \in Nat : /\ Order \in [1..n -> Items] /\ Len(Order) = n
                   /\ \A k, l \in 1..n : k < l => <<Order[k], Order[l]>> \in Sooner
                   /\ \A i \in Items : \E k \in 1..n : Order[k] = i
  <1>1. Order = InOrder(Items, Sooner)
    BY DEF Order, Sooner
  <1>2. PICK n : n = Cardinality(Items)
    OBVIOUS
  <1>3. /\ n \in Nat /\ Order \in [1..n -> Items]
        /\ \A k, l \in 1..n : k < l => <<Order[k], Order[l]>> \in Sooner
        /\ \A i \in Items : \E k \in 1..n : Order[k] = i
    <2>1. /\ Cardinality(Items) \in Nat /\ InOrder(Items, Sooner) \in [1..Cardinality(Items) -> Items]
          /\ \A k, l \in 1..Cardinality(Items) : k < l => <<InOrder(Items, Sooner)[k], InOrder(Items, Sooner)[l]>> \in Sooner
          /\ \A i \in Items : \E k \in 1..Cardinality(Items) : InOrder(Items, Sooner)[k] = i
      <3>1. PICK S, before : S = Items /\ before = Sooner
        OBVIOUS
      <3>2. /\ \A i \in S : <<i, i>> \notin before
            /\ \A i, j, k \in S : <<i, j>> \in before /\ <<j, k>> \in before => <<i, k>> \in before
            /\ \A i, j \in S : i # j => <<i, j>> \in before \/ <<j, i>> \in before
        BY <3>1, BeforeIs, Zenon
      <3>3. IsFiniteSet(S)
        BY <3>1, ItemsAre
      <3>4. /\ Cardinality(S) \in Nat /\ InOrder(S, before) \in [1..Cardinality(S) -> S]
            /\ \A k, l \in 1..Cardinality(S) : k < l => <<InOrder(S, before)[k], InOrder(S, before)[l]>> \in before
            /\ \A i \in S : \E k \in 1..Cardinality(S) : InOrder(S, before)[k] = i
        BY <3>2, <3>3, Sorts
      <3> QED
        BY <3>1, <3>4, Zenon
    <2> QED
      BY <1>1, <1>2, <2>1, Zenon
  <1>4. Len(Order) = n
    BY <1>3
  <1> QED
    BY <1>3, <1>4

StepOf(i, placed) == IF GivesWay(i, placed) /\ rank(i) > 0 THEN placed ELSE placed \cup {i}
IsPlaced(f, s) == f = [n \in 0..Len(s) |-> IF n = 0 THEN {}
                         ELSE IF GivesWay(s[n], f[n - 1]) /\ rank(s[n]) > 0 THEN f[n - 1] ELSE f[n - 1] \cup {s[n]}]

LEMMA PlacedIs ==
    ASSUME NEW n \in Nat, Order \in [1..n -> Items], Len(Order) = n
    PROVE  \E f \in [0..n -> SUBSET Items] : /\ f[0] = {} /\ Placed = f[n]
                                             /\ \A k \in 1..n : f[k] = StepOf(Order[k], f[k - 1])
  <1>1. PICK s : s = Order
    OBVIOUS
  <1>2. s \in [1..n -> Items] /\ Len(s) = n
    BY <1>1
  <1> DEFINE F == [k \in 1..n |-> [p \in SUBSET Items |-> StepOf(s[k], p)]]
  <1>3. F \in [1..n -> [SUBSET Items -> SUBSET Items]]
    BY <1>2 DEF StepOf
  <1>4. \A k \in 1..n, p \in SUBSET Items : F[k][p] = StepOf(s[k], p)
    OBVIOUS
  <1> HIDE DEF F
  <1>5. PICK f \in [0..n -> SUBSET Items] : f[0] = {} /\ \A k \in 1..n : f[k] = F[k][f[k - 1]]
    <2>1. {} \in SUBSET Items
      OBVIOUS
    <2>2. PICK V, z, G : V = SUBSET Items /\ z = {} /\ G = F
      OBVIOUS
    <2>3. z \in V /\ G \in [1..n -> [V -> V]]
      BY <1>3, <2>1, <2>2
    <2>4. Iterates(n, V, z, G) # {}
      BY <2>3, Repeats
    <2>5. \E f \in [0..n -> V] : f[0] = z /\ \A k \in 1..n : f[k] = G[k][f[k - 1]]
      BY <2>4 DEF Iterates
    <2> QED
      BY <2>2, <2>5
  <1>6. IsPlaced(f, s)
    <2>1. ASSUME NEW k \in 0..n
          PROVE  f[k] = IF k = 0 THEN {} ELSE IF GivesWay(s[k], f[k - 1]) /\ rank(s[k]) > 0 THEN f[k - 1] ELSE f[k - 1] \cup {s[k]}
      <3>1. CASE k = 0
        BY <1>5, <3>1
      <3>2. CASE k # 0
        <4>1. k \in 1..n /\ k - 1 \in 0..n
          BY <3>2
        <4>2. f[k] = StepOf(s[k], f[k - 1])
          BY <1>4, <1>5, <4>1
        <4> QED
          BY <3>2, <4>2 DEF StepOf
      <3> QED
        BY <3>1, <3>2
    <2>2. f = [k \in 0..n |-> f[k]]
      OBVIOUS
    <2> QED
      BY <1>2, <2>1, <2>2, Zenon DEF IsPlaced
  <1>7. Placed = (CHOOSE g : IsPlaced(g, s))[n]
    BY <1>1, <1>2 DEF Placed, IsPlaced
  <1>8. PICK g : g = CHOOSE h : IsPlaced(h, s)
    OBVIOUS
  <1>9. IsPlaced(g, s)
    BY <1>6, <1>8, Zenon
  <1> DEFINE T == {k \in Nat : k <= n => g[k] = f[k]}
  <1>10. \A k \in 0..n : g[k] = IF k = 0 THEN {} ELSE IF GivesWay(s[k], g[k - 1]) /\ rank(s[k]) > 0 THEN g[k - 1] ELSE g[k - 1] \cup {s[k]}
    BY <1>2, <1>9, Zenon DEF IsPlaced
  <1>11. 0 \in T
    <2>1. 0 \in 0..n
      OBVIOUS
    <2>2. g[0] = {}
      BY <1>10, <2>1, Zenon
    <2> QED
      BY <1>5, <2>2
  <1>12. ASSUME NEW k \in Nat, k \in T PROVE k + 1 \in T
    <2> SUFFICES ASSUME k + 1 <= n PROVE g[k + 1] = f[k + 1]
      OBVIOUS
    <2>1. g[k] = f[k] /\ k + 1 \in 1..n /\ k + 1 \in 0..n /\ k + 1 # 0 /\ (k + 1) - 1 = k /\ f[k] \in SUBSET Items
      BY <1>12
    <2>2. f[k + 1] = StepOf(s[k + 1], f[k])
      BY <1>4, <1>5, <2>1
    <2>3. g[k + 1] = IF GivesWay(s[k + 1], g[k]) /\ rank(s[k + 1]) > 0 THEN g[k] ELSE g[k] \cup {s[k + 1]}
      BY <1>10, <2>1
    <2> QED
      BY <2>1, <2>2, <2>3, Zenon DEF StepOf
  <1> HIDE DEF T
  <1>13. n \in T
    BY <1>11, <1>12, Induction
  <1>14. Placed = f[n]
    BY <1>7, <1>8, <1>13 DEF T
  <1> QED
    BY <1>1, <1>4, <1>5, <1>14

LEMMA PlusSwaps ==
    ASSUME NEW p \in Fr, NEW q \in Fr
    PROVE  Plus(p, q) = Plus(q, p)
  <1>1. PICK p1 \in Int, p2 \in Int, q1 \in Int, q2 \in Int : p1 = p[1] /\ p2 = p[2] /\ q1 = q[1] /\ q2 = q[2]
    BY FrIs
  <1>2. p1 * q2 + q1 * p2 = q1 * p2 + p1 * q2 /\ p2 * q2 = q2 * p2
    OBVIOUS
  <1> QED
    BY <1>1, <1>2 DEF Plus

LEMMA WidthIs ==
    ASSUME vp.k \in Fr, NEW i \in Items
    PROVE  HalfWidth(i) \in Fr
  <1>1. Shrunk \in Fr
    BY WholeIs, MinMaxQ DEF Shrunk
  <1>2. Devices[i].length * 87 \in Int
    BY MapViewAssumption DEF MapViewAssumption
  <1>3. Q(Devices[i].length * 87, 25) \in Fr
    BY <1>2, QIs DEF Worth
  <1>4. Times(Q(Devices[i].length * 87, 25), Shrunk) \in Fr
    BY <1>1, <1>3, FrClosed
  <1> QED
    BY <1>4, WholeIs, FrClosed DEF HalfWidth

LEMMA OverprintsBoth ==
    ASSUME vp.k \in Fr, pos \in [Items -> Int \X Int], NEW i \in Items, NEW j \in Items, Overprints(i, j)
    PROVE  Overprints(j, i)
  <1>1. HalfWidth(i) \in Fr /\ HalfWidth(j) \in Fr
    BY WidthIs
  <1>2. Plus(HalfWidth(i), HalfWidth(j)) = Plus(HalfWidth(j), HalfWidth(i))
    BY <1>1, PlusSwaps
  <1>3. pos[i][1] \in Int /\ pos[i][2] \in Int /\ pos[j][1] \in Int /\ pos[j][2] \in Int
    OBVIOUS
  <1>4. Below(i) \in Int /\ Below(j) \in Int
    BY DEF Below
  <1>5. Abs(pos[i][1] - pos[j][1]) = Abs(pos[j][1] - pos[i][1])
    BY <1>3 DEF Abs
  <1>6. Abs(pos[i][2] + Below(i) - pos[j][2] - Below(j)) = Abs(pos[j][2] + Below(j) - pos[i][2] - Below(i))
    <2>1. PICK a \in Int, b \in Int : a = pos[i][2] + Below(i) - pos[j][2] - Below(j) /\ b = pos[j][2] + Below(j) - pos[i][2] - Below(i)
      BY <1>3, <1>4
    <2>2. a = -b
      BY <1>3, <1>4, <2>1
    <2> QED
      BY <2>1, <2>2 DEF Abs
  <1> QED
    BY <1>2, <1>5, <1>6 DEF Overprints

\* The labels that show are the right ones: what LabelsGiveWay says of them.
LabelsOK(shown) ==
    /\ \A i, j \in shown : i # j => ~Overprints(i, j)
    /\ sel # Nobody => sel \in shown
    /\ \A i \in Items \ shown : (Tiny /\ rank(i) > 1) \/ \E j \in shown : Overprints(i, j) /\ ~Ahead(i, j)

\* Placed so far, after n devices of the order s.
PlacedSoFar(s, n, shown) ==
    /\ \A i \in shown : \E k \in 1..n : s[k] = i
    /\ \A i, j \in shown : i # j => ~Overprints(i, j)
    /\ \A k \in 1..n : s[k] \in shown \/ (rank(s[k]) > 0 /\ ((Tiny /\ rank(s[k]) > 1) \/ \E j \in shown : Overprints(s[k], j) /\ ~Ahead(s[k], j)))

LEMMA PlacedStep ==
    ASSUME vp.k \in Fr, pos \in [Items -> Int \X Int],
           NEW n \in Nat, NEW s \in [1..n -> Items], \A k, l \in 1..n : k < l => <<s[k], s[l]>> \in Sooner,
           NEW k \in 1..n, NEW shown \in SUBSET Items, PlacedSoFar(s, k - 1, shown)
    PROVE  PlacedSoFar(s, k, StepOf(s[k], shown))
  <1> DEFINE i == s[k]
             p == StepOf(i, shown)
  <1>1. i \in Items
    OBVIOUS
  <1>2. \A j \in shown : j \in Items /\ <<j, i>> \in Sooner
    <2> TAKE j \in shown
    <2>1. PICK l \in 1..(k - 1) : s[l] = j
      BY DEF PlacedSoFar
    <2>2. l \in 1..n /\ l < k
      OBVIOUS
    <2> QED
      BY <2>1, <2>2
  <1>3. \A j \in shown : ~Ahead(i, j) /\ i # j
    <2> TAKE j \in shown
    <2>1. j \in Items /\ <<j, i>> \in Sooner /\ i \in Items
      BY <1>1, <1>2
    <2>2. ~Ahead(i, j)
      BY <2>1, BeforeIs
    <2>3. <<i, i>> \notin Sooner
      BY <2>1, BeforeIs
    <2> QED
      BY <2>1, <2>2, <2>3
  <1>4. \A j \in shown : Overprints(j, i) => Overprints(i, j)
    BY <1>1, <1>2, OverprintsBoth
  <1>5. 1..(k - 1) \subseteq 1..k /\ k \in 1..k /\ \A l \in 1..k : l = k \/ l \in 1..(k - 1)
    OBVIOUS
  <1>6. rank(i) = 0 => shown = {}
    <2>1. rank(i) = 0 => i = sel
      BY <1>1, RankIs
    <2>2. ASSUME rank(i) = 0, NEW j \in shown PROVE FALSE
      <3>1. j \in Items /\ sel \in Items /\ <<j, sel>> \in Sooner
        BY <1>1, <1>2, <2>1, <2>2
      <3>2. \A m \in Items : sel \in Items => <<m, sel>> \notin Sooner
        BY BeforeIs
      <3> QED
        BY <3>1, <3>2
    <2> QED
      BY <2>2
  <1>7. rank(i) \in 0..3
    BY <1>1, RankIs
  <1>8. CASE GivesWay(i, shown) /\ rank(i) > 0
    <2>1. p = shown
      BY <1>8 DEF StepOf
    <2>2. (Tiny /\ rank(i) > 1) \/ \E j \in shown : Overprints(i, j) /\ ~Ahead(i, j)
      BY <1>3, <1>8 DEF GivesWay
    <2> HIDE DEF i, p
    <2> QED
      BY <1>5, <1>8, <2>1, <2>2, Zenon DEF PlacedSoFar, i, p
  <1>9. CASE ~(GivesWay(i, shown) /\ rank(i) > 0)
    <2>1. p = shown \cup {i}
      BY <1>9 DEF StepOf
    <2>2. \A j \in shown : ~Overprints(i, j)
      <3>1. CASE rank(i) = 0
        BY <1>6, <3>1
      <3>2. CASE rank(i) # 0
        <4>1. ~GivesWay(i, shown)
          BY <1>7, <1>9, <3>2
        <4> QED
          BY <4>1 DEF GivesWay
      <3> QED
        BY <3>1, <3>2
    <2>3. \A j \in p : \E l \in 1..k : s[l] = j
      BY <1>5, <2>1, Zenon DEF PlacedSoFar
    <2>4. \A a, b \in p : a # b => ~Overprints(a, b)
      <3>1. \A a, b \in shown : a # b => ~Overprints(a, b)
        BY DEF PlacedSoFar
      <3>2. \A a \in shown : ~Overprints(a, i) /\ ~Overprints(i, a)
        BY <1>4, <2>2
      <3> TAKE a \in p, b \in p
      <3>3. (a \in shown \/ a = i) /\ (b \in shown \/ b = i)
        BY <2>1
      <3> HIDE DEF i, p
      <3> QED
        BY <3>1, <3>2, <3>3, Zenon
    <2>5. shown \subseteq p /\ i \in p
      BY <2>1
    <2>6. \A l \in 1..k : s[l] \in p \/ (rank(s[l]) > 0 /\ ((Tiny /\ rank(s[l]) > 1) \/ \E j \in p : Overprints(s[l], j) /\ ~Ahead(s[l], j)))
      BY <1>5, <2>5, Zenon DEF PlacedSoFar
    <2> QED
      BY <2>3, <2>4, <2>6 DEF PlacedSoFar
  <1> QED
    BY <1>8, <1>9

LEMMA PlacedHolds ==
    ASSUME vp.k \in Fr, pos \in [Items -> Int \X Int], sel \in Items \cup {Nobody}
    PROVE  Placed \subseteq Items /\ LabelsOK(Placed)
  <1>1. PICK n \in Nat : /\ Order \in [1..n -> Items] /\ Len(Order) = n
                         /\ \A k, l \in 1..n : k < l => <<Order[k], Order[l]>> \in Sooner
                         /\ \A i \in Items : \E k \in 1..n : Order[k] = i
    BY OrderIs
  <1>2. PICK f \in [0..n -> SUBSET Items] : f[0] = {} /\ Placed = f[n] /\ \A k \in 1..n : f[k] = StepOf(Order[k], f[k - 1])
    BY <1>1, PlacedIs
  <1>3. PICK s : s = Order
    OBVIOUS
  <1>4. s \in [1..n -> Items] /\ \A k, l \in 1..n : k < l => <<s[k], s[l]>> \in Sooner
    BY <1>1, <1>3
  <1> DEFINE T == {k \in Nat : k <= n => PlacedSoFar(s, k, f[k])}
  <1>5. 0 \in T
    <2>1. 1..0 = {}
      OBVIOUS
    <2>2. PlacedSoFar(s, 0, {})
      BY <2>1, Zenon DEF PlacedSoFar
    <2> QED
      BY <1>2, <2>2
  <1>6. ASSUME NEW k \in Nat, k \in T PROVE k + 1 \in T
    <2> SUFFICES ASSUME k + 1 <= n PROVE PlacedSoFar(s, k + 1, f[k + 1])
      OBVIOUS
    <2>1. k + 1 \in 1..n /\ (k + 1) - 1 = k /\ PlacedSoFar(s, k, f[k]) /\ f[k] \in SUBSET Items
      BY <1>6
    <2>2. f[k + 1] = StepOf(s[k + 1], f[k])
      BY <1>2, <1>3, <2>1
    <2>3. PICK m \in 1..n : m = k + 1 /\ m - 1 = k
      BY <2>1
    <2>4. PlacedSoFar(s, m, StepOf(s[m], f[k]))
      BY <1>4, <2>1, <2>3, PlacedStep
    <2> QED
      BY <2>2, <2>3, <2>4
  <1> HIDE DEF T
  <1>7. n \in T
    BY <1>5, <1>6, Induction
  <1>8. PlacedSoFar(s, n, Placed) /\ Placed \in SUBSET Items
    BY <1>2, <1>7 DEF T
  <1>9. \A i \in Items : \E k \in 1..n : s[k] = i
    BY <1>1, <1>3
  <1>10. sel # Nobody => sel \in Placed
    <2> SUFFICES ASSUME sel # Nobody PROVE sel \in Placed
      OBVIOUS
    <2>1. sel \in Items
      OBVIOUS
    <2>2. PICK k \in 1..n : s[k] = sel
      BY <1>9, <2>1
    <2>3. rank(sel) = 0
      BY <2>1, RankIs
    <2>4. ~(rank(s[k]) > 0)
      BY <2>2, <2>3
    <2> QED
      BY <1>8, <2>2, <2>4 DEF PlacedSoFar
  <1>11. \A i \in Items \ Placed : (Tiny /\ rank(i) > 1) \/ \E j \in Placed : Overprints(i, j) /\ ~Ahead(i, j)
    <2> TAKE i \in Items \ Placed
    <2>1. PICK k \in 1..n : s[k] = i
      BY <1>9
    <2>2. s[k] \in Placed \/ (rank(s[k]) > 0 /\ ((Tiny /\ rank(s[k]) > 1) \/ \E j \in Placed : Overprints(s[k], j) /\ ~Ahead(s[k], j)))
      BY <1>8, Zenon DEF PlacedSoFar
    <2>3. (Tiny /\ rank(s[k]) > 1) \/ \E j \in Placed : Overprints(s[k], j) /\ ~Ahead(s[k], j)
      BY <2>1, <2>2
    <2> QED
      BY <2>1, <2>3
  <1>12. \A i, j \in Placed : i # j => ~Overprints(i, j)
    BY <1>8 DEF PlacedSoFar
  <1> QED
    BY <1>8, <1>10, <1>11, <1>12 DEF LabelsOK

-----------------------------------------------------------------------------
(* MapView: outlines.                                                      *)

\* What a vector along the x axis, or straight up, has as its turns.
Forth(a, b) == a > 0 \/ (a = 0 /\ b > 0)

LEMMA SignLess ==
    ASSUME NEW a \in Int, NEW b \in Int, b > 0
    PROVE  (a * b = 0 <=> a = 0) /\ (a * b < 0 <=> a < 0) /\ a * b \in Int
  BY Signs

LEMMA TurnOn ==
    ASSUME NEW u \in Int, NEW uu \in Int, NEW v \in Int, NEW vv \in Int, NEW w \in Int, NEW ww \in Int,
           Forth(u, uu), Forth(v, vv), Forth(w, ww), u * vv - uu * v > 0, v * ww - vv * w > 0
    PROVE  u * ww - uu * w > 0
  <1> DEFINE a == u * vv - uu * v
             b == v * ww - vv * w
             c == u * ww - uu * w
  <1>1. a \in Int /\ b \in Int /\ c \in Int /\ a > 0 /\ b > 0
    OBVIOUS
  <1>2. c * v = w * a + u * b
    OBVIOUS
  <1>3. u >= 0 /\ v >= 0 /\ w >= 0
    BY DEF Forth
  <1>4. v > 0
    <2> SUFFICES ASSUME v = 0 PROVE FALSE
      BY <1>3
    <2>1. w * a >= 0 /\ u * b >= 0 /\ w * a \in Int /\ u * b \in Int
      BY <1>1, <1>3, Signs
    <2>2. w * a + u * b = 0
      BY <1>2
    <2>3. u * b = 0
      BY <2>1, <2>2
    <2>4. u = 0
      <3> HIDE DEF a, b, c
      <3> QED
        BY <1>1, <2>3, SignLess
    <2>5. a = 0
      BY <2>4
    <2> QED
      BY <1>1, <2>5
  <1>5. u > 0 \/ w > 0
    <2> SUFFICES ASSUME u = 0, w = 0 PROVE FALSE
      BY <1>3
    <2>1. uu > 0
      BY DEF Forth
    <2>2. uu * v > 0
      BY <1>4, <2>1, Signs
    <2>3. a = 0 - uu * v
      OBVIOUS
    <2> QED
      BY <1>1, <2>2, <2>3
  <1> SUFFICES c > 0
    OBVIOUS
  <1> HIDE DEF a, b, c
  <1>6. w * a >= 0 /\ u * b >= 0 /\ w * a \in Int /\ u * b \in Int /\ (w > 0 => w * a > 0) /\ (u > 0 => u * b > 0)
    BY <1>1, <1>3, Signs
  <1>7. c * v > 0
    BY <1>2, <1>5, <1>6
  <1> QED
    BY <1>1, <1>4, <1>7, Signs

LEMMA TurnBy ==
    ASSUME NEW u \in Int, NEW uu \in Int, NEW w \in Int, NEW ww \in Int, NEW z \in Int, NEW zz \in Int,
           Forth(u, uu), (w = 0 /\ ww = 0) \/ Forth(w, ww), (z = 0 /\ zz = 0) \/ Forth(z, zz), z * uu - zz * u >= 0, u * ww - uu * w >= 0
    PROVE  z * ww - zz * w >= 0
  <1> DEFINE a == z * uu - zz * u
             b == u * ww - uu * w
             c == z * ww - zz * w
  <1>1. a \in Int /\ b \in Int /\ c \in Int /\ a >= 0 /\ b >= 0
    OBVIOUS
  <1>2. c * u = a * w + b * z
    OBVIOUS
  <1>3. u >= 0 /\ w >= 0 /\ z >= 0
    BY DEF Forth
  <1>4. CASE u > 0
    <2> SUFFICES c >= 0
      OBVIOUS
    <2> HIDE DEF a, b, c
    <2>1. a * w >= 0 /\ b * z >= 0 /\ a * w \in Int /\ b * z \in Int
      BY <1>1, <1>3
    <2>2. c * u >= 0
      BY <1>2, <2>1
    <2> QED
      BY <1>1, <1>4, <2>2, Signs
  <1>5. CASE u = 0
    <2>1. uu > 0
      BY <1>5 DEF Forth
    <2>2. b = (-w) * uu /\ -w \in Int
      BY <1>5
    <2>3. -w >= 0
      <3> HIDE DEF a, b, c
      <3> QED
        BY <1>1, <2>1, <2>2, Signs
    <2>4. w = 0 /\ ww >= 0
      BY <1>3, <2>3 DEF Forth
    <2>5. c = z * ww
      BY <2>4
    <2> QED
      BY <1>3, <2>4, <2>5
  <1> QED
    BY <1>3, <1>4, <1>5

LEMMA TurnNot ==
    ASSUME NEW u \in Int, NEW uu \in Int, NEW d \in Int, NEW dd \in Int, NEW t \in Int, NEW tt \in Int,
           Forth(u, uu), Forth(d, dd), u * dd - uu * d = 0, u * tt - uu * t >= 0, d * tt - dd * t <= 0
    PROVE  u * tt - uu * t = 0 /\ d * tt - dd * t = 0
  <1> DEFINE a == u * tt - uu * t
             b == d * tt - dd * t
  <1>1. a \in Int /\ b \in Int /\ a >= 0 /\ b <= 0
    OBVIOUS
  <1>2. a * d = b * u /\ a * dd = b * uu
    <2>1. a * d - b * u = t * (u * dd - uu * d) /\ a * dd - b * uu = tt * (u * dd - uu * d)
      OBVIOUS
    <2> QED
      BY <2>1
  <1>3. u >= 0 /\ d >= 0
    BY DEF Forth
  <1>4. u > 0 <=> d > 0
    <2>1. ASSUME u = 0, d > 0 PROVE FALSE
      <3>1. uu > 0
        BY <2>1 DEF Forth
      <3>2. uu * d > 0
        BY <2>1, <3>1, Signs
      <3> QED
        BY <2>1, <3>2
    <2>2. ASSUME d = 0, u > 0 PROVE FALSE
      <3>1. dd > 0
        BY <2>2 DEF Forth
      <3>2. u * dd > 0
        BY <2>2, <3>1, Signs
      <3> QED
        BY <2>2, <3>2
    <2> QED
      BY <1>3, <2>1, <2>2
  <1> SUFFICES a = 0 /\ b = 0
    OBVIOUS
  <1> HIDE DEF a, b
  <1>5. ASSUME NEW x \in Int, NEW y \in Int, x > 0, y > 0, a * x = b * y PROVE a = 0 /\ b = 0
    <2>1. a * x >= 0 /\ ~(b * y > 0) /\ a * x \in Int /\ b * y \in Int
      BY <1>1, <1>5, Signs
    <2>2. a * x = 0 /\ b * y = 0
      BY <1>5, <2>1
    <2> QED
      BY <1>1, <1>5, <2>2, SignLess
  <1>6. CASE d > 0
    BY <1>2, <1>4, <1>5, <1>6
  <1>7. CASE d = 0
    <2>1. uu > 0 /\ dd > 0
      BY <1>3, <1>4, <1>7 DEF Forth
    <2> QED
      BY <1>2, <1>5, <2>1
  <1> QED
    BY <1>3, <1>6, <1>7

\* One point after another, from left to right (e = 1) or from right to left (-1).
Points == Int \X Int
East(e, p, q) == e * (q[1] - p[1])
North(e, p, q) == e * (q[2] - p[2])
After(e, p, q) == Forth(East(e, p, q), North(e, p, q))

LEMMA AfterOrder ==
    ASSUME NEW e \in {1, -1}, NEW p \in Points, NEW q \in Points, NEW r \in Points
    PROVE  /\ ~After(e, p, p) /\ (p # q => After(e, p, q) \/ After(e, q, p)) /\ (After(e, p, q) => ~After(e, q, p) /\ p # q)
           /\ After(e, p, q) /\ After(e, q, r) => After(e, p, r)
           /\ After(1, p, q) <=> LeftOf(p, q)
           /\ After(-e, p, q) <=> After(e, q, p)
  <1>1. PICK p1 \in Int, p2 \in Int, q1 \in Int, q2 \in Int, r1 \in Int, r2 \in Int :
            p = <<p1, p2>> /\ q = <<q1, q2>> /\ r = <<r1, r2>>
    BY DEF Points
  <1>2. p[1] = p1 /\ p[2] = p2 /\ q[1] = q1 /\ q[2] = q2 /\ r[1] = r1 /\ r[2] = r2
    BY <1>1
  <1>3. CASE e = 1
    BY <1>1, <1>2, <1>3 DEF After, East, North, Forth, LeftOf
  <1>4. CASE e = -1
    BY <1>1, <1>2, <1>4 DEF After, East, North, Forth, LeftOf
  <1> QED
    BY <1>3, <1>4

LEMMA AheadIs ==
    ASSUME NEW e \in {1, -1}, NEW p \in Points, NEW q \in Points
    PROVE  /\ East(e, p, q) \in Int /\ North(e, p, q) \in Int
           /\ East(e, q, p) = -East(e, p, q) /\ North(e, q, p) = -North(e, p, q)
           /\ p = q => East(e, p, q) = 0 /\ North(e, p, q) = 0
  <1>1. PICK p1 \in Int, p2 \in Int, q1 \in Int, q2 \in Int : p1 = p[1] /\ p2 = p[2] /\ q1 = q[1] /\ q2 = q[2]
    BY DEF Points
  <1>2. CASE e = 1
    BY <1>1, <1>2 DEF East, North
  <1>3. CASE e = -1
    BY <1>1, <1>3 DEF East, North
  <1> QED
    BY <1>2, <1>3

\* Scaling both vectors by e changes no turn.
LEMMA Turned ==
    ASSUME NEW e \in {1, -1}, NEW o \in Points, NEW a \in Points, NEW b \in Points
    PROVE  /\ Cross(o, a, b) = East(e, o, a) * North(e, o, b) - North(e, o, a) * East(e, o, b)
           /\ Cross(o, a, b) = East(e, o, a) * North(e, a, b) - North(e, o, a) * East(e, a, b)
  <1>1. PICK o1 \in Int, o2 \in Int, a1 \in Int, a2 \in Int, b1 \in Int, b2 \in Int :
            o1 = o[1] /\ o2 = o[2] /\ a1 = a[1] /\ a2 = a[2] /\ b1 = b[1] /\ b2 = b[2]
    BY DEF Points
  <1>2. PICK u \in Int, uu \in Int, v \in Int, vv \in Int, w \in Int, ww \in Int :
            /\ u = e * (a1 - o1) /\ uu = e * (a2 - o2)
            /\ v = e * (b1 - o1) /\ vv = e * (b2 - o2)
            /\ w = e * (b1 - a1) /\ ww = e * (b2 - a2)
    OBVIOUS
  <1>3. w = v - u /\ ww = vv - uu
    BY <1>2
  <1>4. Cross(o, a, b) = (a1 - o1) * (b2 - o2) - (a2 - o2) * (b1 - o1)
    BY <1>1 DEF Cross
  <1>5. (a1 - o1) * (b2 - o2) - (a2 - o2) * (b1 - o1) = u * vv - uu * v
    <2>1. CASE e = 1
      BY <1>2, <2>1
    <2>2. CASE e = -1
      <3>1. u = -(a1 - o1) /\ uu = -(a2 - o2) /\ v = -(b1 - o1) /\ vv = -(b2 - o2)
        BY <1>2, <2>2
      <3> QED
        BY <3>1
    <2> QED
      BY <2>1, <2>2
  <1>6. u * vv - uu * v = u * ww - uu * w
    <2>1. u * (vv - uu) - uu * (v - u) = u * vv - uu * v
      OBVIOUS
    <2> QED
      BY <1>3, <2>1
  <1>7. /\ East(e, o, a) = u /\ North(e, o, a) = uu /\ East(e, o, b) = v /\ North(e, o, b) = vv
        /\ East(e, a, b) = w /\ North(e, a, b) = ww
    BY <1>1, <1>2 DEF East, North
  <1> QED
    BY <1>4, <1>5, <1>6, <1>7

LEMMA CrossAlong ==
    ASSUME NEW e \in {1, -1}, NEW a \in Points, NEW b \in Points, NEW c \in Points, NEW q \in Points,
           After(e, a, b), After(e, b, c), After(e, b, q), Cross(a, b, c) > 0, Cross(b, c, q) > 0
    PROVE  Cross(a, b, q) > 0
  <1>1. PICK u \in Int, uu \in Int, v \in Int, vv \in Int :
            /\ u = East(e, a, b) /\ uu = North(e, a, b)
            /\ v = East(e, b, c) /\ vv = North(e, b, c)
    BY AheadIs
  <1>21. Cross(a, b, c) = u * vv - uu * v
    BY <1>1, Turned
  <1>2. PICK w \in Int, ww \in Int :
            /\ w = East(e, b, q) /\ ww = North(e, b, q)
    BY AheadIs
  <1>22. Cross(b, c, q) = v * ww - vv * w
    BY <1>1, <1>2, Turned
  <1>3. Cross(a, b, q) = u * ww - uu * w
    BY <1>1, <1>2, Turned
  <1>4. Forth(u, uu) /\ Forth(v, vv) /\ Forth(w, ww)
    BY <1>1, <1>2 DEF After
  <1> QED
    BY <1>1, <1>2, <1>21, <1>22, <1>3, <1>4, TurnOn

\* A new edge from c to q, and a point p that is not after c.
LEMMA CrossBefore ==
    ASSUME NEW e \in {1, -1}, NEW a \in Points, NEW c \in Points, NEW q \in Points, NEW p \in Points,
           After(e, a, c), After(e, c, q), p = c \/ After(e, p, c), Cross(a, c, p) >= 0, Cross(a, c, q) >= 0
    PROVE  Cross(c, q, p) >= 0
  <1>1. PICK u \in Int, uu \in Int, w \in Int, ww \in Int :
            /\ u = East(e, a, c) /\ uu = North(e, a, c)
            /\ w = East(e, c, q) /\ ww = North(e, c, q)
    BY AheadIs
  <1>21. Cross(a, c, q) = u * ww - uu * w
    BY <1>1, Turned
  <1>2. PICK t \in Int, tt \in Int :
            /\ t = East(e, c, p) /\ tt = North(e, c, p)
    BY AheadIs
  <1>22. Cross(a, c, p) = u * tt - uu * t
    BY <1>1, <1>2, Turned
  <1>3. Cross(c, q, p) = w * tt - ww * t
    BY <1>1, <1>2, Turned
  <1>4. PICK z \in Int, zz \in Int : z = -t /\ zz = -tt /\ z = East(e, p, c) /\ zz = North(e, p, c)
    <2>1. -t = East(e, p, c) /\ -tt = North(e, p, c)
      BY <1>2, AheadIs
    <2> QED
      BY <2>1
  <1>5. Forth(u, uu) /\ Forth(w, ww) /\ ((z = 0 /\ zz = 0) \/ Forth(z, zz))
    <2>1. Forth(u, uu) /\ Forth(w, ww)
      BY <1>1 DEF After
    <2>2. p = c => z = 0 /\ zz = 0
      BY <1>1, <1>4, AheadIs
    <2>3. After(e, p, c) => Forth(z, zz)
      BY <1>4 DEF After
    <2> QED
      BY <2>1, <2>2, <2>3
  <1>6. z * uu - zz * u >= 0
    <2>1. z * uu - zz * u = u * tt - uu * t
      BY <1>4
    <2> QED
      BY <1>22, <2>1
  <1>7. u * ww - uu * w >= 0
    BY <1>21
  <1>8. z * ww - zz * w >= 0
    BY <1>5, <1>6, <1>7, TurnBy
  <1>9. z * ww - zz * w = w * tt - ww * t
    BY <1>4
  <1> QED
    BY <1>3, <1>8, <1>9

\* A new edge from c to q, and a point p after c, when q is below the old edge from c to b.
LEMMA CrossBeyond ==
    ASSUME NEW e \in {1, -1}, NEW b \in Points, NEW c \in Points, NEW q \in Points, NEW p \in Points,
           After(e, c, b), After(e, c, q), After(e, c, p), Cross(c, b, q) <= 0, Cross(c, b, p) >= 0
    PROVE  Cross(c, q, p) >= 0
  <1>1. PICK u \in Int, uu \in Int, w \in Int, ww \in Int :
            /\ u = East(e, c, b) /\ uu = North(e, c, b)
            /\ w = East(e, c, q) /\ ww = North(e, c, q)
    BY AheadIs
  <1>21. Cross(c, b, q) = u * ww - uu * w
    BY <1>1, Turned
  <1>2. PICK z \in Int, zz \in Int :
            /\ z = East(e, c, p) /\ zz = North(e, c, p)
    BY AheadIs
  <1>22. Cross(c, b, p) = u * zz - uu * z
    BY <1>1, <1>2, Turned
  <1>3. Cross(c, q, p) = w * zz - ww * z
    BY <1>1, <1>2, Turned
  <1>4. Forth(u, uu) /\ Forth(w, ww) /\ Forth(z, zz)
    BY <1>1, <1>2 DEF After
  <1>5. w * uu - ww * u >= 0
    <2>1. w * uu - ww * u = -(u * ww - uu * w)
      OBVIOUS
    <2> QED
      BY <1>21, <2>1
  <1>6. u * zz - uu * z >= 0
    BY <1>22
  <1>7. w * zz - ww * z >= 0
    BY <1>4, <1>5, <1>6, TurnBy
  <1> QED
    BY <1>3, <1>7

\* Where the two halves meet straight on, every point is on the line.
LEMMA CrossFlat ==
    ASSUME NEW e \in {1, -1}, NEW x \in Points, NEW g \in Points, NEW y \in Points, NEW p \in Points,
           After(e, x, g), After(e, y, g), Cross(x, g, y) = 0, Cross(x, g, p) >= 0, Cross(g, y, p) >= 0
    PROVE  Cross(x, g, p) = 0 /\ Cross(g, y, p) = 0
  <1>1. PICK u \in Int, uu \in Int, c \in Int, cc \in Int :
            /\ u = East(e, x, g) /\ uu = North(e, x, g)
            /\ c = East(e, g, y) /\ cc = North(e, g, y)
    BY AheadIs
  <1>21. Cross(x, g, y) = u * cc - uu * c
    BY <1>1, Turned
  <1>2. PICK t \in Int, tt \in Int :
            /\ t = East(e, g, p) /\ tt = North(e, g, p)
    BY AheadIs
  <1>22. Cross(x, g, p) = u * tt - uu * t
    BY <1>1, <1>2, Turned
  <1>3. Cross(g, y, p) = c * tt - cc * t
    BY <1>1, <1>2, Turned
  <1>4. PICK d \in Int, dd \in Int : d = -c /\ dd = -cc /\ d = East(e, y, g) /\ dd = North(e, y, g)
    <2>1. -c = East(e, y, g) /\ -cc = North(e, y, g)
      BY <1>1, AheadIs
    <2> QED
      BY <2>1
  <1>5. Forth(u, uu) /\ Forth(d, dd)
    BY <1>1, <1>4 DEF After
  <1>6. u * dd - uu * d = 0
    <2>1. u * dd - uu * d = -(u * cc - uu * c)
      BY <1>4
    <2> QED
      BY <1>21, <2>1
  <1>7. d * tt - dd * t <= 0 /\ d * tt - dd * t = -(c * tt - cc * t)
    <2>1. d * tt - dd * t = -(c * tt - cc * t)
      BY <1>4
    <2> QED
      BY <1>3, <2>1
  <1>8. u * tt - uu * t >= 0
    BY <1>22
  <1>11. d * tt - dd * t <= 0
    BY <1>7
  <1>9. u * tt - uu * t = 0 /\ d * tt - dd * t = 0
    BY <1>5, <1>6, <1>8, <1>11, TurnNot
  <1>10. c * tt - cc * t = 0
    BY <1>7, <1>9
  <1> QED
    BY <1>22, <1>3, <1>9, <1>10

Shoelace(u, uu, v, vv, w, ww) == (v - u) * (ww - uu) - (vv - uu) * (w - u)
LEMMA ShoelaceIs ==
    ASSUME NEW u \in Int, NEW uu \in Int, NEW v \in Int, NEW vv \in Int, NEW w \in Int, NEW ww \in Int
    PROVE  /\ Shoelace(u, uu, v, vv, w, ww) \in Int /\ Shoelace(u, uu, v, vv, w, ww) = Shoelace(v, vv, w, ww, u, uu)
           /\ Shoelace(u, uu, u, uu, w, ww) = 0 /\ Shoelace(u, uu, v, vv, v, vv) = 0 /\ Shoelace(u, uu, v, vv, u, uu) = 0
  <1>1. (v - u) * (ww - uu) - (vv - uu) * (w - u) = v * ww - v * uu - u * ww - vv * w + vv * u + uu * w
    OBVIOUS
  <1>2. (w - v) * (uu - vv) - (ww - vv) * (u - v) = v * ww - v * uu - u * ww - vv * w + vv * u + uu * w
    OBVIOUS
  <1>3. (u - u) * (ww - uu) - (uu - uu) * (w - u) = 0
    OBVIOUS
  <1>4. (v - u) * (vv - uu) - (vv - uu) * (v - u) = 0
    OBVIOUS
  <1>5. (v - u) * (uu - uu) - (vv - uu) * (u - u) = 0
    OBVIOUS
  <1> QED
    BY <1>1, <1>2, <1>3, <1>4, <1>5 DEF Shoelace

LEMMA CrossIs ==
    ASSUME NEW o \in Points, NEW a \in Points, NEW b \in Points
    PROVE  /\ Cross(o, a, b) \in Int /\ Cross(o, a, b) = Cross(a, b, o)
           /\ Cross(o, o, b) = 0 /\ Cross(o, b, b) = 0 /\ Cross(o, b, o) = 0
  <1>1. o[1] \in Int /\ o[2] \in Int /\ a[1] \in Int /\ a[2] \in Int /\ b[1] \in Int /\ b[2] \in Int
    BY DEF Points
  <1>2. \A p, q, r : Cross(p, q, r) = Shoelace(p[1], p[2], q[1], q[2], r[1], r[2])
    BY DEF Cross, Shoelace
  <1>3. PICK u \in Int, uu \in Int, v \in Int, vv \in Int, w \in Int, ww \in Int :
            u = o[1] /\ uu = o[2] /\ v = a[1] /\ vv = a[2] /\ w = b[1] /\ ww = b[2]
    BY <1>1
  <1>4. /\ Shoelace(u, uu, v, vv, w, ww) \in Int /\ Shoelace(u, uu, v, vv, w, ww) = Shoelace(v, vv, w, ww, u, uu)
        /\ Shoelace(u, uu, u, uu, w, ww) = 0
    BY ShoelaceIs
  <1>5. Shoelace(u, uu, w, ww, w, ww) = 0 /\ Shoelace(u, uu, w, ww, u, uu) = 0
    BY ShoelaceIs
  <1>6. Cross(o, a, b) = Shoelace(u, uu, v, vv, w, ww) /\ Cross(a, b, o) = Shoelace(v, vv, w, ww, u, uu)
    BY <1>2, <1>3, Zenon
  <1>7. /\ Cross(o, o, b) = Shoelace(u, uu, u, uu, w, ww) /\ Cross(o, b, b) = Shoelace(u, uu, w, ww, w, ww)
        /\ Cross(o, b, o) = Shoelace(u, uu, w, ww, u, uu)
    BY <1>2, <1>3, Zenon
  <1> QED
    BY <1>4, <1>5, <1>6, <1>7

LEMMA ListIs ==
    ASSUME NEW S, NEW m \in Nat, NEW c \in [1..m -> S]
    PROVE  c \in Seq(S) /\ Len(c) = m
  <1>1. c \in Seq(S)
    BY SeqDef
  <1> QED
    BY <1>1, LenProperties

\* What is popped when q comes.
LEMMA PoppedIs ==
    ASSUME NEW m \in Nat \ {0}, NEW c \in [1..m -> Points], NEW q \in Points
    PROVE  \E n \in 1..m : /\ Popped(c, q) = SubSeq(c, 1, n)
                           /\ n >= 2 => Cross(c[n - 1], c[n], q) > 0
                           /\ n < m => ~(Cross(c[n], c[n + 1], q) > 0)
  <1> DEFINE H == {n \in 0..Len(c) : n < 2 \/ Turns(SubSeq(c, 1, n), q)}
  <1>1. c \in Seq(Points) /\ Len(c) = m
    BY ListIs
  <1>2. ASSUME NEW n \in 2..m PROVE Turns(SubSeq(c, 1, n), q) <=> Cross(c[n - 1], c[n], q) > 0
    <2>1. \A i \in 1..n : c[i] \in Points
      OBVIOUS
    <2>2. n \in Int /\ 1 \in Int /\ 1 <= n
      OBVIOUS
    <2>3. Len(SubSeq(c, 1, n)) = n - 1 + 1 /\ \A i \in 1..(n - 1 + 1) : SubSeq(c, 1, n)[i] = c[1 + i - 1]
      BY <2>1, <2>2, SubSeqProperties
    <2>4. Len(SubSeq(c, 1, n)) = n /\ SubSeq(c, 1, n)[n] = c[n] /\ SubSeq(c, 1, n)[n - 1] = c[n - 1]
      BY <2>2, <2>3
    <2> QED
      BY <2>4 DEF Turns
  <1>3. H \in SUBSET Int /\ H \subseteq 0..m /\ IsFiniteSet(H) /\ 1 \in H
    <2>1. IsFiniteSet(0..m) /\ H \in SUBSET (0..m)
      BY <1>1, FS_Interval
    <2>2. IsFiniteSet(H)
      <3> HIDE DEF H
      <3> QED
        BY <2>1, FS_Subset
    <2>3. 1 \in H
      BY <1>1
    <2> QED
      BY <2>1, <2>2, <2>3
  <1>4. Max(H) \in H /\ \A x \in H : x <= Max(H)
    <2> HIDE DEF H
    <2> QED
      BY <1>3, GreatestIs
  <1>5. PICK n \in 1..m : n = Max(H)
    <2> HIDE DEF H
    <2>1. Max(H) \in 0..m /\ 1 <= Max(H)
      BY <1>3, <1>4
    <2> QED
      BY <2>1
  <1>6. n >= 2 => Cross(c[n - 1], c[n], q) > 0
    <2>1. n \in H
      BY <1>4, <1>5
    <2>2. n >= 2 => Turns(SubSeq(c, 1, n), q) /\ n \in 2..m
      BY <2>1
    <2> QED
      BY <1>2, <2>2
  <1>7. n < m => ~(Cross(c[n], c[n + 1], q) > 0)
    <2> SUFFICES ASSUME n < m, Cross(c[n], c[n + 1], q) > 0 PROVE FALSE
      OBVIOUS
    <2>1. n + 1 \in 2..m /\ (n + 1) - 1 = n
      OBVIOUS
    <2>2. Turns(SubSeq(c, 1, n + 1), q)
      BY <1>2, <2>1
    <2>3. n + 1 \in H
      BY <1>1, <2>1, <2>2
    <2> QED
      BY <1>4, <1>5, <2>3
  <1>8. Popped(c, q) = SubSeq(c, 1, n)
    BY <1>5 DEF Popped
  <1> QED
    BY <1>6, <1>7, <1>8

\* What was put up so far, after the points s[1] to s[k] on the way e.
Along(e, s) == \A i, j \in DOMAIN s : i < j => s[i] = s[j] \/ After(e, s[i], s[j])
ChainOK(e, s, k, c) ==
    \E m \in Nat \ {0} :
        /\ c \in [1..m -> Points] /\ c[1] = s[1] /\ c[m] = s[k] /\ (k > 1 => m > 1)
        /\ \A i \in 1..m : \E j \in 1..k : c[i] = s[j]
        /\ (\A i \in 1..(m - 1) : After(e, c[i], c[i + 1])) \/ (m = 2 /\ c[1] = c[2] /\ \A j \in 1..k : s[j] = c[1])
        /\ \A i \in 1..(m - 2) : Cross(c[i], c[i + 1], c[i + 2]) > 0
        /\ \A i \in 1..(m - 1), j \in 1..k : Cross(c[i], c[i + 1], s[j]) >= 0

\* A chain goes on: each of its points is before those that follow.
LEMMA ChainGoesOn ==
    ASSUME NEW e \in {1, -1}, NEW m \in Nat \ {0}, NEW c \in [1..m -> Points], \A i \in 1..(m - 1) : After(e, c[i], c[i + 1])
    PROVE  \A n, l \in 1..m : n < l => After(e, c[n], c[l])
  <1> DEFINE T == {d \in Nat : \A n \in 1..m : n + d + 1 <= m => After(e, c[n], c[n + d + 1])}
  <1>1. 0 \in T
    OBVIOUS
  <1>2. ASSUME NEW d \in Nat, d \in T PROVE d + 1 \in T
    <2>1. ASSUME NEW n \in 1..m, n + (d + 1) + 1 <= m PROVE After(e, c[n], c[n + (d + 1) + 1])
      <3>1. n + d + 1 \in 1..(m - 1) /\ n + d + 1 \in 1..m /\ (n + d + 1) + 1 = n + (d + 1) + 1 /\ n + (d + 1) + 1 \in 1..m
        BY <2>1
      <3>2. After(e, c[n], c[n + d + 1]) /\ After(e, c[n + d + 1], c[n + (d + 1) + 1])
        BY <1>2, <3>1
      <3>3. c[n] \in Points /\ c[n + d + 1] \in Points /\ c[n + (d + 1) + 1] \in Points
        BY <3>1
      <3> QED
        BY <3>2, <3>3, AfterOrder
    <2> QED
      BY <2>1
  <1>3. Nat \subseteq T
    <2> HIDE DEF T
    <2> QED
      BY <1>1, <1>2, Induction
  <1> TAKE n \in 1..m, l \in 1..m
  <1> HAVE n < l
  <1>4. PICK d \in Nat : d = l - n - 1
    OBVIOUS
  <1>5. n + d + 1 = l /\ n + d + 1 <= m
    BY <1>4
  <1>6. n + d + 1 <= m => After(e, c[n], c[n + d + 1])
    <2>1. d \in T
      <3> HIDE DEF T
      <3> QED
        BY <1>3
    <2> QED
      BY <2>1
  <1> QED
    BY <1>5, <1>6

\* The edges that stay turn to the left for the new point too.
LEMMA EdgesTurn ==
    ASSUME NEW e \in {1, -1}, NEW m \in Nat \ {0}, NEW c \in [1..m -> Points], \A i \in 1..(m - 1) : After(e, c[i], c[i + 1]),
           \A i \in 1..(m - 2) : Cross(c[i], c[i + 1], c[i + 2]) > 0,
           NEW q \in Points, NEW n \in 1..m, \A i \in 1..(n - 1) : After(e, c[i], q), n >= 2 => Cross(c[n - 1], c[n], q) > 0
    PROVE  \A i \in 1..(n - 1) : Cross(c[i], c[i + 1], q) > 0
  <1> DEFINE T == {d \in Nat : n - 1 - d >= 1 => Cross(c[n - 1 - d], c[n - d], q) > 0}
  <1>1. 0 \in T
    OBVIOUS
  <1>2. ASSUME NEW d \in Nat, d \in T PROVE d + 1 \in T
    <2> SUFFICES ASSUME n - 1 - (d + 1) >= 1 PROVE Cross(c[n - 1 - (d + 1)], c[n - (d + 1)], q) > 0
      OBVIOUS
    <2>1. PICK i \in 1..m : i = n - 1 - (d + 1)
      OBVIOUS
    <2>2. i + 1 = n - (d + 1) /\ i + 1 = n - 1 - d /\ i + 2 = n - d /\ i + 1 \in 1..m /\ i + 2 \in 1..m
      BY <2>1
    <2>3. i \in 1..(m - 2) /\ i \in 1..(m - 1) /\ i + 1 \in 1..(m - 1) /\ i + 1 \in 1..(n - 1) /\ (i + 1) + 1 = i + 2
      BY <2>1
    <2>4. Cross(c[i + 1], c[i + 2], q) > 0
      <3>1. n - 1 - d >= 1 /\ n - 1 - d = i + 1 /\ n - d = i + 2
        BY <2>2, <2>3
      <3>2. Cross(c[n - 1 - d], c[n - d], q) > 0
        BY <1>2, <3>1
      <3> QED
        BY <3>1, <3>2
    <2>5. After(e, c[i], c[i + 1]) /\ After(e, c[i + 1], c[i + 2]) /\ After(e, c[i + 1], q) /\ Cross(c[i], c[i + 1], c[i + 2]) > 0
      BY <2>3
    <2>6. c[i] \in Points /\ c[i + 1] \in Points /\ c[i + 2] \in Points
      BY <2>2
    <2>7. Cross(c[i], c[i + 1], q) > 0
      BY <2>4, <2>5, <2>6, CrossAlong
    <2> QED
      BY <2>1, <2>2, <2>7
  <1>3. Nat \subseteq T
    <2> HIDE DEF T
    <2> QED
      BY <1>1, <1>2, Induction
  <1> TAKE i \in 1..(n - 1)
  <1>4. PICK d \in Nat : d = n - 1 - i
    OBVIOUS
  <1>5. n - 1 - d = i /\ n - d = i + 1 /\ n - 1 - d >= 1
    BY <1>4
  <1>6. n - 1 - d >= 1 => Cross(c[n - 1 - d], c[n - d], q) > 0
    <2>1. d \in T
      <3> HIDE DEF T
      <3> QED
        BY <1>3
    <2> QED
      BY <2>1
  <1> QED
    BY <1>5, <1>6

LEMMA PushedIs ==
    ASSUME NEW m \in Nat \ {0}, NEW c \in [1..m -> Points], NEW n \in 1..m, NEW q \in Points, NEW d, d = Append(SubSeq(c, 1, n), q)
    PROVE  /\ n + 1 \in Nat \ {0} /\ d \in [1..(n + 1) -> Points] /\ d[n + 1] = q /\ \A i \in 1..n : d[i] = c[i]
  <1>1. \A i \in 1..n : c[i] \in Points
    OBVIOUS
  <1> DEFINE t == SubSeq(c, 1, n)
  <1>2. n \in Int /\ 1 \in Int /\ 1 <= n
    OBVIOUS
  <1>3. t \in Seq(Points) /\ Len(t) = n - 1 + 1 /\ \A i \in 1..(n - 1 + 1) : t[i] = c[1 + i - 1]
    BY <1>1, <1>2, SubSeqProperties
  <1>4. Len(t) = n /\ \A i \in 1..n : t[i] = c[i]
    <2> HIDE DEF t
    <2>1. n - 1 + 1 = n /\ \A i \in 1..n : 1 + i - 1 = i
      OBVIOUS
    <2> QED
      BY <1>3, <2>1
  <1>5. d = Append(t, q)
    OBVIOUS
  <1> HIDE DEF t
  <1>6. d \in Seq(Points) /\ Len(d) = n + 1 /\ (\A i \in 1..n : d[i] = t[i]) /\ d[n + 1] = q
    BY <1>3, <1>4, <1>5, AppendProperties
  <1>7. d \in [1..(n + 1) -> Points]
    BY <1>6, LenProperties
  <1> QED
    BY <1>4, <1>6, <1>7

\* The first points are all the same: a chain starts again.
LEMMA ChainStarts ==
    ASSUME NEW e \in {1, -1}, NEW N \in Nat \ {0}, NEW s \in [1..N -> Points], Along(e, s), NEW k \in 1..(N - 1),
           NEW d \in [1..2 -> Points], d[1] = s[1], d[2] = s[k + 1], \A j \in 1..k : s[j] = s[1]
    PROVE  ChainOK(e, s, k + 1, d)
  <1>1. k \in 1..N /\ k + 1 \in 1..N /\ 1 \in 1..N /\ s[1] \in Points /\ s[k + 1] \in Points
    OBVIOUS
  <1>2. s[1] = s[k + 1] \/ After(e, s[1], s[k + 1])
    BY <1>1 DEF Along
  <1>3. \A j \in 1..(k + 1) : s[j] = s[1] \/ s[j] = s[k + 1]
    <2> TAKE j \in 1..(k + 1)
    <2>1. j \in 1..k \/ j = k + 1
      OBVIOUS
    <2> QED
      BY <2>1
  <1>4. \A i \in 1..(2 - 1), j \in 1..(k + 1) : Cross(d[i], d[i + 1], s[j]) >= 0
    <2> TAKE i \in 1..(2 - 1), j \in 1..(k + 1)
    <2>1. i = 1 /\ d[i] = s[1] /\ d[i + 1] = s[k + 1]
      OBVIOUS
    <2>2. Cross(s[1], s[k + 1], s[1]) = 0 /\ Cross(s[1], s[k + 1], s[k + 1]) = 0
      BY <1>1, CrossIs
    <2>3. Cross(s[1], s[k + 1], s[j]) = 0
      BY <1>3, <2>2
    <2> QED
      BY <2>1, <2>3
  <1>5. (\A i \in 1..(2 - 1) : After(e, d[i], d[i + 1])) \/ (2 = 2 /\ d[1] = d[2] /\ \A j \in 1..(k + 1) : s[j] = d[1])
    <2>1. CASE s[1] = s[k + 1]
      BY <1>3, <2>1
    <2>2. CASE After(e, s[1], s[k + 1])
      <3>1. \A i \in 1..(2 - 1) : i = 1 /\ i + 1 = 2
        OBVIOUS
      <3> QED
        BY <2>2, <3>1
    <2> QED
      BY <1>2, <2>1, <2>2
  <1>6. \A i \in 1..2 : \E j \in 1..(k + 1) : d[i] = s[j]
    <2> TAKE i \in 1..2
    <2>1. (i = 1 \/ i = 2) /\ 1 \in 1..(k + 1) /\ k + 1 \in 1..(k + 1)
      OBVIOUS
    <2> QED
      BY <2>1
  <1>7. \A i \in 1..(2 - 2) : Cross(d[i], d[i + 1], d[i + 2]) > 0
    OBVIOUS
  <1>8. 2 \in Nat \ {0} /\ (k + 1 > 1 => 2 > 1)
    OBVIOUS
  <1> QED
    BY <1>4, <1>5, <1>6, <1>7, <1>8, Zenon DEF ChainOK

\* The new edge has every earlier point on its left.
LEMMA EdgeTurns ==
    ASSUME NEW e \in {1, -1}, NEW m \in Nat \ {0}, NEW c \in [1..m -> Points], \A i \in 1..(m - 1) : After(e, c[i], c[i + 1]),
           NEW q \in Points, NEW n \in 1..m, After(e, c[n], q),
           n >= 2 => Cross(c[n - 1], c[n], q) > 0, n < m => ~(Cross(c[n], c[n + 1], q) > 0),
           NEW p \in Points, c[1] = p \/ After(e, c[1], p), p = c[m] \/ After(e, p, c[m]), \A i \in 1..(m - 1) : Cross(c[i], c[i + 1], p) >= 0
    PROVE  Cross(c[n], q, p) >= 0
  <1>1. c[n] \in Points /\ c[1] \in Points /\ c[m] \in Points
    OBVIOUS
  <1>2. CASE After(e, c[n], p)
    <2>1. n < m
      <3> SUFFICES ASSUME n = m PROVE FALSE
        OBVIOUS
      <3> QED
        BY <1>1, <1>2, AfterOrder
    <2>2. n \in 1..(m - 1) /\ n + 1 \in 1..m
      BY <2>1
    <2>3. c[n + 1] \in Points /\ After(e, c[n], c[n + 1]) /\ Cross(c[n], c[n + 1], p) >= 0
      BY <2>2
    <2>4. Cross(c[n], c[n + 1], q) <= 0
      <3>1. Cross(c[n], c[n + 1], q) \in Int
        BY <1>1, <2>3, CrossIs
      <3> QED
        BY <2>1, <3>1
    <2> QED
      BY <1>1, <1>2, <2>3, <2>4, CrossBeyond
  <1>3. CASE ~After(e, c[n], p)
    <2>1. p = c[n] \/ After(e, p, c[n])
      BY <1>1, <1>3, AfterOrder
    <2>2. CASE n = 1
      <3>1. p = c[n]
        BY <1>1, <1>3, <2>2
      <3> QED
        BY <1>1, <3>1, CrossIs
    <2>3. CASE n # 1
      <3>1. n - 1 \in 1..(m - 1) /\ n - 1 \in 1..m /\ n >= 2 /\ (n - 1) + 1 = n
        BY <2>3
      <3>2. c[n - 1] \in Points /\ After(e, c[n - 1], c[n]) /\ Cross(c[n - 1], c[n], p) >= 0 /\ Cross(c[n - 1], c[n], q) > 0
        BY <3>1
      <3>3. Cross(c[n - 1], c[n], q) >= 0
        <4>1. Cross(c[n - 1], c[n], q) \in Int
          BY <1>1, <3>2, CrossIs
        <4> QED
          BY <3>2, <4>1
      <3> QED
        BY <1>1, <2>1, <3>2, <3>3, CrossBefore
    <2> QED
      BY <2>2, <2>3
  <1> QED
    BY <1>2, <1>3

LEMMA ChainStep ==
    ASSUME NEW e \in {1, -1}, NEW N \in Nat \ {0}, NEW s \in [1..N -> Points], Along(e, s), NEW k \in 1..(N - 1),
           NEW c, ChainOK(e, s, k, c)
    PROVE  ChainOK(e, s, k + 1, Append(Popped(c, s[k + 1]), s[k + 1]))
  <1>1. PICK m \in Nat \ {0} :
        /\ c \in [1..m -> Points] /\ c[1] = s[1] /\ c[m] = s[k] /\ (k > 1 => m > 1)
        /\ \A i \in 1..m : \E j \in 1..k : c[i] = s[j]
        /\ (\A i \in 1..(m - 1) : After(e, c[i], c[i + 1])) \/ (m = 2 /\ c[1] = c[2] /\ \A j \in 1..k : s[j] = c[1])
        /\ \A i \in 1..(m - 2) : Cross(c[i], c[i + 1], c[i + 2]) > 0
        /\ \A i \in 1..(m - 1), j \in 1..k : Cross(c[i], c[i + 1], s[j]) >= 0
    BY Zenon DEF ChainOK
  <1>2. PICK q \in Points : q = s[k + 1]
    OBVIOUS
  <1>3. PICK n \in 1..m : /\ Popped(c, q) = SubSeq(c, 1, n)
                          /\ n >= 2 => Cross(c[n - 1], c[n], q) > 0
                          /\ n < m => ~(Cross(c[n], c[n + 1], q) > 0)
    BY <1>1, PoppedIs
  <1>4. PICK d : d = Append(SubSeq(c, 1, n), q)
    OBVIOUS
  <1>10. c \in [1..m -> Points]
    BY <1>1
  <1>11. d \in [1..(n + 1) -> Points]
    BY <1>4, <1>10, PushedIs
  <1>12. d[n + 1] = q
    BY <1>4, <1>10, PushedIs
  <1>13. \A i \in 1..n : d[i] = c[i]
    BY <1>4, <1>10, PushedIs
  <1>14. n + 1 \in Nat \ {0}
    OBVIOUS
  <1>5. n + 1 \in Nat \ {0} /\ d \in [1..(n + 1) -> Points] /\ d[n + 1] = q /\ \A i \in 1..n : d[i] = c[i]
    BY <1>11, <1>12, <1>13, <1>14
  <1> SUFFICES ChainOK(e, s, k + 1, d)
    BY <1>2, <1>3, <1>4
  <1>6. 1..k \subseteq 1..N /\ k + 1 \in 1..N /\ k + 1 \in DOMAIN s /\ 1..k \subseteq DOMAIN s /\ 1 \in 1..k /\ k \in 1..k
    OBVIOUS
  <1>7. \A j \in 1..k : s[j] \in Points /\ (s[j] = q \/ After(e, s[j], q))
    BY <1>2, <1>6 DEF Along
  <1>8. CASE ~(\A i \in 1..(m - 1) : After(e, c[i], c[i + 1]))
    <2>1. m = 2 /\ c[1] = c[2] /\ \A j \in 1..k : s[j] = s[1]
      BY <1>1, <1>8
    <2>2. n = 1
      <3> SUFFICES ASSUME n = 2 PROVE FALSE
        BY <2>1
      <3>1. Cross(c[1], c[2], q) > 0 /\ c[1] \in Points
        BY <1>1, <1>3, <2>1
      <3> QED
        BY <2>1, <3>1, CrossIs
    <2>3. d \in [1..2 -> Points] /\ d[1] = s[1] /\ d[2] = s[k + 1]
      BY <1>1, <1>2, <1>5, <2>2
    <2> QED
      BY <2>1, <2>3, ChainStarts
  <1>9. CASE \A i \in 1..(m - 1) : After(e, c[i], c[i + 1])
    <2>1. \A i, l \in 1..m : i < l => After(e, c[i], c[l])
      BY <1>1, <1>9, ChainGoesOn
    <2>2. \A i \in 1..m : c[i] \in Points /\ (c[i] = q \/ After(e, c[i], q))
      BY <1>1, <1>7
    <2>3. \A i \in 1..(m - 1) : After(e, c[i], q)
      <3> TAKE i \in 1..(m - 1)
      <3>1. i \in 1..m /\ m \in 1..m /\ i < m
        OBVIOUS
      <3>2. After(e, c[i], c[m])
        BY <2>1, <3>1
      <3> QED
        BY <2>2, <3>1, <3>2, AfterOrder
    <2>4. CASE ~After(e, c[n], q)
      \* Only the first point is there, and q is the same.
      <3>1. n = m /\ c[n] = q
        BY <2>2, <2>3, <2>4
      <3>2. n = 1
        <4> SUFFICES ASSUME n # 1 PROVE FALSE
          OBVIOUS
        <4>1. n >= 2 /\ n - 1 \in 1..m
          OBVIOUS
        <4>2. Cross(c[n - 1], q, q) > 0 /\ c[n - 1] \in Points
          BY <1>1, <1>3, <3>1, <4>1
        <4> QED
          BY <4>2, CrossIs
      <3>3. k = 1
        BY <1>1, <3>1, <3>2
      <3>4. d \in [1..2 -> Points] /\ d[1] = s[1] /\ d[2] = s[k + 1] /\ \A j \in 1..k : s[j] = s[1]
        BY <1>1, <1>2, <1>5, <3>2, <3>3
      <3> QED
        BY <3>4, ChainStarts
    <2>5. CASE After(e, c[n], q)
      <3>1. \A j \in 1..k : (c[1] = s[j] \/ After(e, c[1], s[j])) /\ (s[j] = c[m] \/ After(e, s[j], c[m]))
        <4> TAKE j \in 1..k
        <4>1. j \in DOMAIN s /\ 1 \in DOMAIN s /\ k \in DOMAIN s /\ (j = 1 \/ 1 < j) /\ (j = k \/ j < k)
          BY <1>6
        <4> QED
          BY <1>1, <4>1 DEF Along
      <3>2. \A j \in 1..k : Cross(c[n], q, s[j]) >= 0
        <4> TAKE j \in 1..k
        <4>1. PICK p \in Points : p = s[j]
          BY <1>7
        <4>2. (c[1] = p \/ After(e, c[1], p)) /\ (p = c[m] \/ After(e, p, c[m])) /\ \A i \in 1..(m - 1) : Cross(c[i], c[i + 1], p) >= 0
          BY <1>1, <3>1, <4>1
        <4>3. Cross(c[n], q, p) >= 0
          BY <1>1, <1>3, <1>9, <2>5, <4>2, EdgeTurns
        <4> QED
          BY <4>1, <4>3
      <3>3. Cross(c[n], q, q) >= 0
        BY <2>2, CrossIs
      <3>4. \A i \in 1..(n - 1) : Cross(c[i], c[i + 1], q) > 0
        <4>1. \A i \in 1..(n - 1) : After(e, c[i], q)
          BY <2>3
        <4> QED
          BY <1>1, <1>3, <1>9, <4>1, EdgesTurn
      <3>5. \A i \in 1..n : (i \in 1..(n - 1) => d[i] = c[i] /\ d[i + 1] = c[i + 1]) /\ (i = n => d[i] = c[n] /\ d[i + 1] = q)
        <4> TAKE i \in 1..n
        <4>1. i \in 1..(n - 1) => i + 1 \in 1..n
          OBVIOUS
        <4> QED
          BY <1>5, <4>1
      <3>6. \A i \in 1..((n + 1) - 1) : (i \in 1..(n - 1) /\ i \in 1..(m - 1)) \/ i = n
        OBVIOUS
      <3>7. (n + 1) - 1 = n /\ (n + 1) - 2 = n - 1
        OBVIOUS
      <3>8. \A i \in 1..((n + 1) - 1) : After(e, d[i], d[i + 1])
        BY <1>9, <2>5, <3>5, <3>6, <3>7
      <3>9. \A i \in 1..((n + 1) - 1), j \in 1..(k + 1) : Cross(d[i], d[i + 1], s[j]) >= 0
        <4> TAKE i \in 1..((n + 1) - 1), j \in 1..(k + 1)
        <4>1. j \in 1..k \/ (j = k + 1 /\ s[j] = q)
          BY <1>2
        <4>2. CASE i = n
          <5>1. Cross(c[n], q, s[j]) >= 0
            BY <3>2, <3>3, <4>1
          <5> QED
            <6>1. d[n] = c[n] /\ d[n + 1] = q
              BY <1>5
            <6> QED
              BY <4>2, <5>1, <6>1
        <4>3. CASE i # n
          <5>1. i \in 1..(n - 1) /\ i \in 1..(m - 1) /\ i \in 1..n
            BY <4>3
          <5>2. Cross(c[i], c[i + 1], s[j]) >= 0
            <6>1. CASE j \in 1..k
              BY <1>1, <5>1, <6>1
            <6>2. CASE s[j] = q
              <7>1. Cross(c[i], c[i + 1], q) > 0 /\ i + 1 \in 1..m /\ i \in 1..m
                BY <3>4, <5>1
              <7>2. Cross(c[i], c[i + 1], q) \in Int
                BY <2>2, <7>1, CrossIs
              <7> QED
                BY <6>2, <7>1, <7>2
            <6> QED
              BY <4>1, <6>1, <6>2
          <5> QED
            BY <3>5, <5>1, <5>2
        <4> QED
          BY <4>2, <4>3
      <3>10. \A i \in 1..((n + 1) - 2) : Cross(d[i], d[i + 1], d[i + 2]) > 0
        <4> TAKE i \in 1..((n + 1) - 2)
        <4>1. i \in 1..(n - 1) /\ i \in 1..n /\ i + 1 \in 1..n /\ i \in 1..(m - 1) /\ (i + 1) + 1 = i + 2
          OBVIOUS
        <4>2. CASE i + 1 = n
          <5>1. d[i] = c[i] /\ d[i + 1] = c[i + 1] /\ d[i + 2] = q
            BY <3>5, <4>1, <4>2
          <5> QED
            BY <3>4, <4>1, <5>1
        <4>3. CASE i + 1 # n
          <5>1. i + 1 \in 1..(n - 1) /\ i \in 1..(m - 2)
            BY <4>3
          <5>2. d[i] = c[i] /\ d[i + 1] = c[i + 1] /\ d[i + 2] = c[i + 2]
            BY <3>5, <4>1, <5>1
          <5> QED
            BY <1>1, <5>1, <5>2
        <4> QED
          BY <4>2, <4>3
      <3>11. \A i \in 1..(n + 1) : \E j \in 1..(k + 1) : d[i] = s[j]
        <4> TAKE i \in 1..(n + 1)
        <4>1. CASE i = n + 1
          BY <1>2, <1>5, <4>1
        <4>2. CASE i # n + 1
          <5>1. i \in 1..n /\ i \in 1..m
            BY <4>2
          <5>2. PICK j \in 1..k : c[i] = s[j]
            BY <1>1, <5>1
          <5>3. j \in 1..(k + 1)
            OBVIOUS
          <5> QED
            BY <1>5, <5>1, <5>2, <5>3
        <4> QED
          BY <4>1, <4>2
      <3>12. d[1] = s[1] /\ d[n + 1] = s[k + 1] /\ (k + 1 > 1 => n + 1 > 1)
        BY <1>1, <1>2, <1>5
      <3> QED
        BY <1>5, <3>8, <3>9, <3>10, <3>11, <3>12, Zenon DEF ChainOK
    <2> QED
      BY <2>4, <2>5
  <1> QED
    BY <1>8, <1>9

\* What a point makes of the chain so far.
Grown(c, q) == Append(Popped(c, q), q)
LEMMA GrownIs ==
    ASSUME NEW c \in Seq(Points), NEW q \in Points
    PROVE  Grown(c, q) \in Seq(Points) /\ (c = <<>> => Grown(c, q) = <<q>>)
  <1>1. CASE c = <<>>
    <2> DEFINE H == {n \in 0..Len(c) : n < 2 \/ Turns(SubSeq(c, 1, n), q)}
    <2>1. Len(c) = 0
      BY <1>1, EmptySeq
    <2>2. H = {0}
      <3>1. 0..0 = {0}
        OBVIOUS
      <3> QED
        BY <2>1, <3>1
    <2>3. Max(H) \in H
      <3>1. PICK S : S = {0}
        OBVIOUS
      <3>2. S \in SUBSET Int /\ IsFiniteSet(S) /\ S # {}
        <4>1. IsFiniteSet({0})
          BY FS_Singleton
        <4> QED
          BY <3>1, <4>1
      <3>3. Max(S) \in S
        BY <3>2, GreatestIs
      <3> HIDE DEF H
      <3> QED
        BY <2>2, <3>1, <3>3
    <2>4. Max(H) = 0
      <3> HIDE DEF H
      <3> QED
        BY <2>2, <2>3
    <2>5. Popped(c, q) = SubSeq(c, 1, 0)
      <3>1. Popped(c, q) = SubSeq(c, 1, Max(H))
        BY DEF Popped
      <3> HIDE DEF H
      <3> QED
        BY <2>4, <3>1
    <2>6. SubSeq(c, 1, 0) = <<>>
      BY <1>1
    <2>7. Append(<<>>, q) = <<q>>
      OBVIOUS
    <2>8. Grown(c, q) = <<q>>
      BY <2>5, <2>6, <2>7 DEF Grown
    <2> QED
      BY <2>8
  <1>2. CASE c # <<>>
    <2>1. PICK m \in Nat \ {0} : c \in [1..m -> Points]
      <3>1. Len(c) \in Nat /\ c \in [1..Len(c) -> Points]
        BY LenProperties
      <3>2. Len(c) # 0
        BY <1>2, EmptySeq
      <3> QED
        BY <3>1, <3>2
    <2>2. PICK n \in 1..m : Popped(c, q) = SubSeq(c, 1, n)
      <3>1. PICK n \in 1..m : /\ Popped(c, q) = SubSeq(c, 1, n)
                              /\ n >= 2 => Cross(c[n - 1], c[n], q) > 0
                              /\ n < m => ~(Cross(c[n], c[n + 1], q) > 0)
        BY <2>1, PoppedIs
      <3> QED
        BY <3>1
    <2>3. PICK d : d = Append(SubSeq(c, 1, n), q)
      OBVIOUS
    <2>4. d \in [1..(n + 1) -> Points] /\ n + 1 \in Nat
      BY <2>1, <2>3, PushedIs
    <2>5. d \in Seq(Points)
      BY <2>4, SeqDef
    <2> QED
      BY <1>2, <2>2, <2>3, <2>5 DEF Grown
  <1> QED
    BY <1>1, <1>2

IsChain(f, s) == f = [n \in 0..Len(s) |-> IF n = 0 THEN <<>> ELSE Append(Popped(f[n - 1], s[n]), s[n])]

LEMMA ChainIs ==
    ASSUME NEW e \in {1, -1}, NEW N \in Nat \ {0}, NEW s \in [1..N -> Points], Along(e, s)
    PROVE  ChainOK(e, s, N, Chain(s))
  <1>1. s \in Seq(Points) /\ Len(s) = N
    BY ListIs
  <1> DEFINE F == [k \in 1..N |-> [c \in Seq(Points) |-> Grown(c, s[k])]]
  <1>2. \A k \in 1..N : s[k] \in Points
    OBVIOUS
  <1>3. F \in [1..N -> [Seq(Points) -> Seq(Points)]]
    BY <1>2, GrownIs
  <1>4. \A k \in 1..N, c \in Seq(Points) : F[k][c] = Grown(c, s[k])
    OBVIOUS
  <1> HIDE DEF F
  <1>5. PICK f \in [0..N -> Seq(Points)] : f[0] = <<>> /\ \A k \in 1..N : f[k] = F[k][f[k - 1]]
    <2>1. PICK V, z, G : V = Seq(Points) /\ z = <<>> /\ G = F
      OBVIOUS
    <2>2. z \in V /\ G \in [1..N -> [V -> V]]
      BY <1>3, <2>1
    <2>3. Iterates(N, V, z, G) # {}
      BY <2>2, Repeats
    <2>4. \E h \in [0..N -> V] : h[0] = z /\ \A k \in 1..N : h[k] = G[k][h[k - 1]]
      BY <2>3 DEF Iterates
    <2> QED
      BY <2>1, <2>4
  <1>6. \A k \in 1..N : f[k] = Grown(f[k - 1], s[k])
    <2> TAKE k \in 1..N
    <2>1. k - 1 \in 0..N
      OBVIOUS
    <2>2. f[k - 1] \in Seq(Points)
      BY <2>1
    <2> QED
      BY <1>4, <1>5, <2>2
  <1>7. IsChain(f, s)
    <2>1. ASSUME NEW k \in 0..N PROVE f[k] = IF k = 0 THEN <<>> ELSE Append(Popped(f[k - 1], s[k]), s[k])
      <3>1. CASE k = 0
        BY <1>5, <3>1
      <3>2. CASE k # 0
        <4>1. k \in 1..N
          BY <3>2
        <4> QED
          BY <1>6, <3>2, <4>1 DEF Grown
      <3> QED
        BY <3>1, <3>2
    <2>2. f = [k \in 0..N |-> f[k]]
      OBVIOUS
    <2> QED
      BY <1>1, <2>1, <2>2, Zenon DEF IsChain
  <1>8. Chain(s) = (CHOOSE h : IsChain(h, s))[N]
    BY <1>1 DEF Chain, IsChain
  <1>9. PICK g : g = CHOOSE h : IsChain(h, s)
    OBVIOUS
  <1>10. IsChain(g, s)
    BY <1>7, <1>9, Zenon
  <1>11. \A k \in 0..N : g[k] = IF k = 0 THEN <<>> ELSE Append(Popped(g[k - 1], s[k]), s[k])
    BY <1>1, <1>10, Zenon DEF IsChain
  <1>12. g[0] = <<>>
    <2>1. 0 \in 0..N
      OBVIOUS
    <2> QED
      BY <1>11, <2>1, Zenon
  <1>13. \A k \in 1..N : g[k] = Grown(g[k - 1], s[k])
    <2> TAKE k \in 1..N
    <2>1. k \in 0..N /\ k # 0
      OBVIOUS
    <2> QED
      BY <1>11, <2>1 DEF Grown
  <1> DEFINE T == {k \in Nat : k < N => ChainOK(e, s, k + 1, g[k + 1])}
  <1>14. 0 \in T
    <2>1. 1 \in 1..N /\ 1 - 1 = 0 /\ s[1] \in Points /\ <<>> \in Seq(Points)
      OBVIOUS
    <2>2. Grown(<<>>, s[1]) = <<s[1]>>
      BY <2>1, GrownIs
    <2>3. g[1] = <<s[1]>>
      BY <1>12, <1>13, <2>1, <2>2
    <2>4. PICK d \in [1..1 -> Points] : d = g[1] /\ d[1] = s[1]
      <3>1. <<s[1]>> \in [1..1 -> Points] /\ <<s[1]>>[1] = s[1]
        BY <2>1
      <3> QED
        BY <2>3, <3>1
    <2>5. \A i \in 1..1 : \E j \in 1..1 : d[i] = s[j]
      BY <2>4
    <2>6. ChainOK(e, s, 1, d)
      <3>1. 1 \in Nat \ {0} /\ ~(1 > 1) /\ 1..(1 - 1) = {} /\ 1..(1 - 2) = {}
        OBVIOUS
      <3> QED
        BY <2>4, <2>5, <3>1, Zenon DEF ChainOK
    <2> QED
      BY <2>4, <2>6
  <1>15. ASSUME NEW k \in Nat, k \in T PROVE k + 1 \in T
    <2> SUFFICES ASSUME k + 1 < N PROVE ChainOK(e, s, k + 1 + 1, g[k + 1 + 1])
      OBVIOUS
    <2>1. PICK l \in 1..(N - 1) : l = k + 1
      OBVIOUS
    <2>2. ChainOK(e, s, l, g[l])
      BY <1>15, <2>1
    <2>3. ChainOK(e, s, l + 1, Append(Popped(g[l], s[l + 1]), s[l + 1]))
      BY <2>2, ChainStep
    <2>4. l + 1 \in 1..N /\ (l + 1) - 1 = l
      OBVIOUS
    <2>5. g[l + 1] = Append(Popped(g[l], s[l + 1]), s[l + 1])
      BY <1>13, <2>4 DEF Grown
    <2> QED
      BY <2>1, <2>3, <2>5
  <1>16. Nat \subseteq T
    <2> HIDE DEF T
    <2> QED
      BY <1>14, <1>15, Induction
  <1>17. N - 1 \in T
    <2>1. N - 1 \in Nat
      OBVIOUS
    <2> HIDE DEF T
    <2> QED
      BY <1>16, <2>1
  <1>18. ChainOK(e, s, N, g[N])
    <2>1. N - 1 < N /\ (N - 1) + 1 = N
      OBVIOUS
    <2> QED
      BY <1>17, <2>1
  <1> QED
    BY <1>8, <1>9, <1>18

\* One half of an outline round the points of P, or two points that are the same as all of them.
Half(e, P, m, c) ==
    /\ c \in [1..m -> P]
    /\ \A i \in 1..(m - 1) : After(e, c[i], c[i + 1])
    /\ \A i \in 1..(m - 2) : Cross(c[i], c[i + 1], c[i + 2]) > 0
    /\ \A i \in 1..(m - 1), p \in P : Cross(c[i], c[i + 1], p) >= 0

\* The half that leads from x to y.
HalfWay(e, P, x, y, c) ==
    \E m \in Nat : /\ m >= 2 /\ c \in [1..m -> P] /\ c[1] = x /\ c[m] = y
                   /\ Half(e, P, m, c) \/ (m = 2 /\ \A p \in P : p = x)

LEMMA HalfIs ==
    ASSUME NEW e \in {1, -1}, NEW N \in Nat, N > 1, NEW s \in [1..N -> Points], NEW c, ChainOK(e, s, N, c),
           NEW P \in SUBSET Points, \A i \in 1..N : s[i] \in P, \A p \in P : \E i \in 1..N : p = s[i]
    PROVE  HalfWay(e, P, s[1], s[N], c)
  <1>1. PICK m \in Nat \ {0} :
        /\ c \in [1..m -> Points] /\ c[1] = s[1] /\ c[m] = s[N] /\ (N > 1 => m > 1)
        /\ \A i \in 1..m : \E j \in 1..N : c[i] = s[j]
        /\ (\A i \in 1..(m - 1) : After(e, c[i], c[i + 1])) \/ (m = 2 /\ c[1] = c[2] /\ \A j \in 1..N : s[j] = c[1])
        /\ \A i \in 1..(m - 2) : Cross(c[i], c[i + 1], c[i + 2]) > 0
        /\ \A i \in 1..(m - 1), j \in 1..N : Cross(c[i], c[i + 1], s[j]) >= 0
    BY Zenon DEF ChainOK
  <1>2. m \in Nat /\ m >= 2
    BY <1>1
  <1>3. c \in [1..m -> P]
    <2>1. \A i \in 1..m : c[i] \in P
      BY <1>1
    <2> QED
      BY <1>1, <2>1
  <1>4. \A i \in 1..(m - 1), p \in P : Cross(c[i], c[i + 1], p) >= 0
    <2> TAKE i \in 1..(m - 1), p \in P
    <2>1. PICK j \in 1..N : p = s[j]
      OBVIOUS
    <2> QED
      BY <1>1, <2>1
  <1>5. CASE \A i \in 1..(m - 1) : After(e, c[i], c[i + 1])
    <2>1. Half(e, P, m, c)
      BY <1>1, <1>3, <1>4, <1>5, Zenon DEF Half
    <2> QED
      BY <1>1, <1>2, <1>3, <2>1 DEF HalfWay
  <1>6. CASE m = 2 /\ c[1] = c[2] /\ \A j \in 1..N : s[j] = c[1]
    <2>1. \A p \in P : p = s[1]
      BY <1>1, <1>6
    <2> QED
      BY <1>1, <1>2, <1>3, <1>6, <2>1 DEF HalfWay
  <1> QED
    BY <1>1, <1>5, <1>6

\* Where one half ends and the other starts.
LEMMA HalvesMeet ==
    ASSUME NEW e \in {1, -1}, NEW P \in SUBSET Points, NEW a \in Nat, NEW b \in Nat, a >= 2, b >= 2, a + b > 4,
           NEW c, NEW d, Half(e, P, a, c), Half(-e, P, b, d), c[a] = d[1]
    PROVE  Cross(c[a - 1], c[a], d[2]) > 0
  <1>1. a - 1 \in 1..a /\ a \in 1..a /\ a - 1 \in 1..(a - 1) /\ (a - 1) + 1 = a /\ 1 \in 1..b /\ 2 \in 1..b /\ 1 \in 1..(b - 1) /\ 1 + 1 = 2
    OBVIOUS
  <1>2. PICK x, g, y : x = c[a - 1] /\ g = c[a] /\ y = d[2]
    OBVIOUS
  <1>3. x \in P /\ g \in P /\ y \in P /\ After(e, x, g) /\ g = d[1] /\ After(-e, g, y)
    BY <1>1, <1>2 DEF Half
  <1>4. x \in Points /\ g \in Points /\ y \in Points
    BY <1>3
  <1>5. After(e, y, g)
    BY <1>3, <1>4, AfterOrder
  <1>6. \A p \in P : Cross(x, g, p) >= 0
    BY <1>1, <1>2, <1>3 DEF Half
  <1>7. \A p \in P : Cross(g, y, p) >= 0
    BY <1>1, <1>2, <1>3 DEF Half
  <1>8. Cross(x, g, y) \in Int /\ Cross(x, g, y) >= 0
    BY <1>3, <1>4, <1>6, CrossIs
  <1>9. ASSUME Cross(x, g, y) = 0 PROVE FALSE
    <2>1. \A p \in P : Cross(x, g, p) = 0 /\ Cross(g, y, p) = 0
      <3> TAKE p \in P
      <3>1. p \in Points /\ Cross(x, g, p) >= 0 /\ Cross(g, y, p) >= 0
        BY <1>6, <1>7
      <3> QED
        BY <1>3, <1>4, <1>5, <1>9, <3>1, CrossFlat
    <2>2. CASE a > 2
      <3>1. a - 2 \in 1..(a - 2) /\ a - 2 \in 1..a /\ (a - 2) + 1 = a - 1 /\ (a - 2) + 2 = a
        BY <2>2
      <3>2. c[a - 2] \in P /\ Cross(c[a - 2], x, g) > 0
        BY <1>2, <3>1 DEF Half
      <3>3. Cross(c[a - 2], x, g) = Cross(x, g, c[a - 2])
        <4>1. c[a - 2] \in Points
          BY <3>2
        <4> QED
          BY <1>4, <4>1, CrossIs
      <3> QED
        BY <2>1, <3>2, <3>3
    <2>3. CASE b > 2
      <3>1. 1 \in 1..(b - 2) /\ 3 \in 1..b /\ 1 + 1 = 2 /\ 1 + 2 = 3
        BY <2>3
      <3>2. d[3] \in P /\ Cross(d[1], d[2], d[3]) > 0
        BY <3>1 DEF Half
      <3> QED
        BY <1>2, <1>3, <2>1, <3>2
    <2> QED
      BY <2>2, <2>3
  <1> QED
    BY <1>2, <1>8, <1>9

\* A line goes round the points of P.
Onto(l, n) == (n % l) + 1
GoesRound(line, l, P) ==
    /\ \A n \in 1..l, p \in P : Cross(line[n], line[Onto(l, n)], p) >= 0
    /\ \A n \in 1..l : Cross(line[n], line[Onto(l, n)], line[Onto(l, Onto(l, n))]) > 0

LEMMA OntoIs ==
    ASSUME NEW l \in Nat \ {0}, NEW n \in 1..l
    PROVE  Onto(l, n) = IF n = l THEN 1 ELSE n + 1
  <1>1. CASE n = l
    BY <1>1 DEF Onto
  <1>2. CASE n # l
    BY <1>2 DEF Onto
  <1> QED
    BY <1>1, <1>2

LEMMA FrontIs ==
    ASSUME NEW S, NEW m \in Nat, m >= 2, NEW c \in [1..m -> S]
    PROVE  Front(c) \in Seq(S) /\ Len(Front(c)) = m - 1 /\ \A i \in 1..(m - 1) : Front(c)[i] = c[i]
  <1>1. Len(c) = m
    BY ListIs
  <1>2. Front(c) = SubSeq(c, 1, m - 1)
    BY <1>1 DEF Front
  <1>3. PICK n \in Int : n = m - 1 /\ n \in 1..m
    OBVIOUS
  <1>4. \A i \in 1..n : c[i] \in S
    BY <1>3
  <1>5. n \in Int /\ 1 \in Int /\ 1 <= n
    BY <1>3
  <1>6. SubSeq(c, 1, n) \in Seq(S) /\ Len(SubSeq(c, 1, n)) = n - 1 + 1 /\ \A i \in 1..(n - 1 + 1) : SubSeq(c, 1, n)[i] = c[1 + i - 1]
    BY <1>4, <1>5, SubSeqProperties
  <1>7. n - 1 + 1 = n /\ \A i \in 1..n : 1 + i - 1 = i
    BY <1>3
  <1> QED
    BY <1>2, <1>3, <1>6, <1>7

\* A line of the halves c and d: the edges of c, then those of d.
Joined(line, P, a, c, b, d) ==
    /\ line \in [1..(a + b - 2) -> P] /\ Len(line) = a + b - 2
    /\ \A i \in 1..(a - 1) : line[i] = c[i] /\ line[Onto(a + b - 2, i)] = c[i + 1]
    /\ \A i \in 1..(b - 1) : line[a - 1 + i] = d[i] /\ line[Onto(a + b - 2, a - 1 + i)] = d[i + 1]
LEMMA RoundIs ==
    ASSUME NEW P \in SUBSET Points, NEW a \in Nat, NEW b \in Nat, a >= 2, b >= 2,
           NEW c \in [1..a -> P], NEW d \in [1..b -> P], c[a] = d[1], d[b] = c[1],
           NEW line, line = Front(c) \o Front(d)
    PROVE  Joined(line, P, a, c, b, d)
  <1>1. Front(c) \in Seq(P) /\ Len(Front(c)) = a - 1 /\ \A i \in 1..(a - 1) : Front(c)[i] = c[i]
    BY FrontIs
  <1>2. Front(d) \in Seq(P) /\ Len(Front(d)) = b - 1 /\ \A i \in 1..(b - 1) : Front(d)[i] = d[i]
    BY FrontIs
  <1>3. PICK f, g : f = Front(c) /\ g = Front(d)
    OBVIOUS
  <1>4. /\ line \in Seq(P) /\ Len(line) = Len(f) + Len(g)
        /\ \A i \in 1..(Len(f) + Len(g)) : line[i] = IF i <= Len(f) THEN f[i] ELSE g[i - Len(f)]
    <2>1. f \in Seq(P) /\ g \in Seq(P) /\ line = f \o g
      BY <1>1, <1>2, <1>3
    <2> QED
      BY <2>1, ConcatProperties
  <1>5. PICK l \in Nat \ {0} : l = a + b - 2 /\ Len(f) + Len(g) = l /\ Len(f) = a - 1
    <2>1. Len(f) = a - 1 /\ Len(g) = b - 1
      BY <1>1, <1>2, <1>3
    <2> QED
      BY <2>1
  <1>6. line \in [1..l -> P] /\ Len(line) = l
    BY <1>4, <1>5, LenProperties
  <1>7. \A i \in 1..(a - 1) : line[i] = c[i]
    <2> TAKE i \in 1..(a - 1)
    <2>1. i \in 1..l /\ i <= a - 1
      BY <1>5
    <2> QED
      BY <1>1, <1>3, <1>4, <1>5, <2>1
  <1>8. \A i \in 1..(b - 1) : line[a - 1 + i] = d[i]
    <2> TAKE i \in 1..(b - 1)
    <2>1. a - 1 + i \in 1..l /\ ~(a - 1 + i <= a - 1) /\ (a - 1 + i) - (a - 1) = i
      BY <1>5
    <2> QED
      BY <1>2, <1>3, <1>4, <1>5, <2>1
  <1>9. \A i \in 1..(a - 1) : line[Onto(l, i)] = c[i + 1]
    <2> TAKE i \in 1..(a - 1)
    <2>1. i \in 1..l /\ i # l
      BY <1>5
    <2>2. Onto(l, i) = i + 1
      BY <2>1, OntoIs
    <2>3. CASE i = a - 1
      <3>1. 1 \in 1..(b - 1) /\ a - 1 + 1 = a /\ i + 1 = a
        BY <2>3
      <3>2. line[a] = d[1]
        BY <1>8, <3>1
      <3> QED
        BY <2>2, <3>1, <3>2
    <2>4. CASE i # a - 1
      <3>1. i + 1 \in 1..(a - 1)
        BY <2>4
      <3> QED
        BY <1>7, <2>2, <3>1
    <2> QED
      BY <2>3, <2>4
  <1>10. \A i \in 1..(b - 1) : line[Onto(l, a - 1 + i)] = d[i + 1]
    <2> TAKE i \in 1..(b - 1)
    <2>1. a - 1 + i \in 1..l
      BY <1>5
    <2>2. CASE i = b - 1
      <3>1. a - 1 + i = l /\ i + 1 = b /\ 1 \in 1..(a - 1)
        BY <1>5, <2>2
      <3>2. Onto(l, a - 1 + i) = 1
        BY <2>1, <3>1, OntoIs
      <3> QED
        BY <1>7, <3>1, <3>2
    <2>3. CASE i # b - 1
      <3>1. a - 1 + i # l /\ i + 1 \in 1..(b - 1) /\ (a - 1 + i) + 1 = a - 1 + (i + 1)
        BY <1>5, <2>3
      <3>2. Onto(l, a - 1 + i) = a - 1 + (i + 1)
        BY <2>1, <3>1, OntoIs
      <3> QED
        BY <1>8, <3>1, <3>2
    <2> QED
      BY <2>2, <2>3
  <1> QED
    BY <1>5, <1>6, <1>7, <1>8, <1>9, <1>10 DEF Joined

\* Two halves that meet at both ends go round.
LEMMA HalvesGoRound ==
    ASSUME NEW P \in SUBSET Points, NEW a \in Nat, NEW b \in Nat, a >= 2, b >= 2, a + b > 4,
           NEW c \in [1..a -> P], NEW d \in [1..b -> P], c[a] = d[1], d[b] = c[1], Half(1, P, a, c), Half(-1, P, b, d),
           NEW line, line = Front(c) \o Front(d)
    PROVE  GoesRound(line, a + b - 2, P)
  <1>11. Joined(line, P, a, c, b, d)
    BY RoundIs
  <1>9. \A i \in 1..(a - 1) : line[i] = c[i] /\ line[Onto(a + b - 2, i)] = c[i + 1]
    BY <1>11 DEF Joined
  <1>10. \A i \in 1..(b - 1) : line[a - 1 + i] = d[i] /\ line[Onto(a + b - 2, a - 1 + i)] = d[i + 1]
    BY <1>11 DEF Joined
  <1>1. PICK l \in Nat \ {0} : l = a + b - 2
    OBVIOUS
  <1>2. \A i \in 1..(a - 1) : line[i] = c[i] /\ line[Onto(l, i)] = c[i + 1]
    BY <1>1, <1>9
  <1>3. \A i \in 1..(b - 1) : line[a - 1 + i] = d[i] /\ line[Onto(l, a - 1 + i)] = d[i + 1]
    BY <1>1, <1>10
  <1>4. ASSUME NEW n \in 1..l PROVE (\E i \in 1..(a - 1) : n = i) \/ (\E i \in 1..(b - 1) : n = a - 1 + i)
    <2>1. CASE n <= a - 1
      <3>1. n \in 1..(a - 1)
        BY <2>1
      <3> QED
        BY <3>1
    <2>2. CASE ~(n <= a - 1)
      <3>1. n - (a - 1) \in 1..(b - 1) /\ n = a - 1 + (n - (a - 1))
        BY <1>1, <2>2
      <3> QED
        BY <3>1
    <2> QED
      BY <2>1, <2>2
  <1>5. \A n \in 1..l, p \in P : Cross(line[n], line[Onto(l, n)], p) >= 0
    <2> TAKE n \in 1..l, p \in P
    <2>1. CASE \E i \in 1..(a - 1) : n = i
      <3>1. n \in 1..(a - 1)
        BY <2>1
      <3>2. line[n] = c[n] /\ line[Onto(l, n)] = c[n + 1]
        BY <1>2, <3>1
      <3>3. Cross(c[n], c[n + 1], p) >= 0
        BY <3>1 DEF Half
      <3> QED
        BY <3>2, <3>3
    <2>2. CASE \E i \in 1..(b - 1) : n = a - 1 + i
      <3>1. PICK i \in 1..(b - 1) : n = a - 1 + i
        BY <2>2
      <3>2. line[n] = d[i] /\ line[Onto(l, n)] = d[i + 1]
        BY <1>3, <3>1
      <3>3. Cross(d[i], d[i + 1], p) >= 0
        BY DEF Half
      <3> QED
        BY <3>2, <3>3
    <2> QED
      BY <1>4, <2>1, <2>2
  <1>6. Cross(c[a - 1], c[a], d[2]) > 0
    <2>1. PICK e, g : e = 1 /\ g = -1
      OBVIOUS
    <2>2. e \in {1, -1} /\ Half(e, P, a, c) /\ Half(-e, P, b, d)
      BY <2>1
    <2> QED
      BY <2>2, HalvesMeet
  <1>7. Cross(d[b - 1], d[b], c[2]) > 0
    <2>1. PICK e : e = -1
      OBVIOUS
    <2>2. e \in {1, -1} /\ Half(e, P, b, d) /\ Half(-e, P, a, c) /\ b + a > 4
      BY <2>1
    <2> QED
      BY <2>2, HalvesMeet
  <1>8. \A n \in 1..l : Cross(line[n], line[Onto(l, n)], line[Onto(l, Onto(l, n))]) > 0
    <2> TAKE n \in 1..l
    <2>1. ASSUME NEW i \in 1..(a - 2), n = i PROVE Cross(line[n], line[Onto(l, n)], line[Onto(l, Onto(l, n))]) > 0
      <3>1. i \in 1..(a - 1) /\ i + 1 \in 1..(a - 1) /\ (i + 1) + 1 = i + 2 /\ n \in 1..l /\ n # l
        BY <1>1, <2>1
      <3>2. Onto(l, n) = i + 1
        BY <2>1, <3>1, OntoIs
      <3>3. line[n] = c[i] /\ line[Onto(l, n)] = c[i + 1] /\ line[Onto(l, Onto(l, n))] = c[i + 2]
        BY <1>2, <2>1, <3>1, <3>2
      <3> QED
        BY <3>3 DEF Half
    <2>2. ASSUME n = a - 1 PROVE Cross(line[n], line[Onto(l, n)], line[Onto(l, Onto(l, n))]) > 0
      <3>1. a - 1 \in 1..(a - 1) /\ (a - 1) + 1 = a /\ n # l /\ 1 \in 1..(b - 1) /\ a - 1 + 1 = a /\ 1 + 1 = 2
        BY <1>1, <2>2
      <3>2. Onto(l, n) = a
        BY <2>2, <3>1, OntoIs
      <3>3. line[n] = c[a - 1] /\ line[Onto(l, n)] = c[a]
        BY <1>2, <2>2, <3>1
      <3>4. line[Onto(l, a)] = d[2]
        BY <1>3, <3>1
      <3> QED
        BY <1>6, <3>2, <3>3, <3>4
    <2>3. ASSUME NEW i \in 1..(b - 2), n = a - 1 + i PROVE Cross(line[n], line[Onto(l, n)], line[Onto(l, Onto(l, n))]) > 0
      <3>1. i \in 1..(b - 1) /\ i + 1 \in 1..(b - 1) /\ (i + 1) + 1 = i + 2 /\ n # l /\ n + 1 = a - 1 + (i + 1)
        BY <1>1, <2>3
      <3>2. Onto(l, n) = a - 1 + (i + 1)
        BY <2>3, <3>1, OntoIs
      <3>3. line[n] = d[i] /\ line[Onto(l, n)] = d[i + 1] /\ line[Onto(l, Onto(l, n))] = d[i + 2]
        BY <1>3, <2>3, <3>1, <3>2
      <3> QED
        BY <3>3 DEF Half
    <2>4. ASSUME n = l PROVE Cross(line[n], line[Onto(l, n)], line[Onto(l, Onto(l, n))]) > 0
      <3>1. b - 1 \in 1..(b - 1) /\ (b - 1) + 1 = b /\ n = a - 1 + (b - 1) /\ 1 \in 1..(a - 1) /\ 1 + 1 = 2
        BY <1>1, <2>4
      <3>2. Onto(l, n) = 1
        BY <2>4, OntoIs
      <3>3. line[n] = d[b - 1] /\ line[Onto(l, n)] = d[b]
        BY <1>3, <3>1
      <3>4. line[Onto(l, 1)] = c[2]
        BY <1>2, <3>1
      <3> QED
        BY <1>7, <3>2, <3>3, <3>4
    <2>5. (n \in 1..(a - 2)) \/ n = a - 1 \/ (n - (a - 1) \in 1..(b - 2) /\ n = a - 1 + (n - (a - 1))) \/ n = l
      BY <1>1
    <2> QED
      BY <2>1, <2>2, <2>3, <2>4, <2>5
  <1> QED
    BY <1>1, <1>5, <1>8 DEF GoesRound

\* The points from left to right, equal ones in the order they came.
Earlier(points) ==
    LET n == DOMAIN points
    IN {e \in n \X n : LeftOf(points[e[1]], points[e[2]]) \/ (points[e[1]] = points[e[2]] /\ e[1] < e[2])}
LEMMA EarlierIs ==
    ASSUME NEW c \in Nat, NEW points \in [1..c -> Points]
    PROVE  /\ \A i \in 1..c : <<i, i>> \notin Earlier(points)
           /\ \A i, j, k \in 1..c : <<i, j>> \in Earlier(points) /\ <<j, k>> \in Earlier(points) => <<i, k>> \in Earlier(points)
           /\ \A i, j \in 1..c : i # j => <<i, j>> \in Earlier(points) \/ <<j, i>> \in Earlier(points)
  <1>1. \A i, j \in 1..c : <<i, j>> \in Earlier(points) <=> After(1, points[i], points[j]) \/ (points[i] = points[j] /\ i < j)
    <2> TAKE i \in 1..c, j \in 1..c
    <2>1. points[i] \in Points /\ points[j] \in Points /\ DOMAIN points = 1..c
      OBVIOUS
    <2>2. After(1, points[i], points[j]) <=> LeftOf(points[i], points[j])
      <3>1. 1 \in {1, -1}
        OBVIOUS
      <3> QED
        BY <2>1, <3>1, AfterOrder
    <2> QED
      BY <2>1, <2>2 DEF Earlier
  <1>2. \A i \in 1..c : points[i] \in Points
    OBVIOUS
  <1>3. \A p, q, r \in Points : /\ ~After(1, p, p) /\ (p # q => After(1, p, q) \/ After(1, q, p)) /\ (After(1, p, q) => ~After(1, q, p) /\ p # q)
                                /\ After(1, p, q) /\ After(1, q, r) => After(1, p, r)
    <2>1. 1 \in {1, -1}
      OBVIOUS
    <2> QED
      BY <2>1, AfterOrder
  <1>4. \A i \in 1..c : <<i, i>> \notin Earlier(points)
    BY <1>1, <1>2, <1>3
  <1>5. \A i, j, k \in 1..c : <<i, j>> \in Earlier(points) /\ <<j, k>> \in Earlier(points) => <<i, k>> \in Earlier(points)
    <2> SUFFICES ASSUME NEW i \in 1..c, NEW j \in 1..c, NEW k \in 1..c, <<i, j>> \in Earlier(points), <<j, k>> \in Earlier(points)
                 PROVE  <<i, k>> \in Earlier(points)
      OBVIOUS
    <2>1. After(1, points[i], points[j]) \/ (points[i] = points[j] /\ i < j)
      BY <1>1
    <2>2. After(1, points[j], points[k]) \/ (points[j] = points[k] /\ j < k)
      BY <1>1
    <2>3. After(1, points[i], points[k]) \/ (points[i] = points[k] /\ i < k)
      <3>1. points[i] \in Points /\ points[j] \in Points /\ points[k] \in Points
        OBVIOUS
      <3>2. CASE After(1, points[i], points[j]) /\ After(1, points[j], points[k])
        BY <1>3, <3>1, <3>2
      <3> QED
        BY <2>1, <2>2, <3>2
    <2> QED
      BY <1>1, <2>3
  <1>6. \A i, j \in 1..c : i # j => <<i, j>> \in Earlier(points) \/ <<j, i>> \in Earlier(points)
    <2> TAKE i \in 1..c, j \in 1..c
    <2> HAVE i # j
    <2>1. CASE points[i] = points[j]
      BY <1>1, <2>1
    <2>2. CASE points[i] # points[j]
      <3>1. After(1, points[i], points[j]) \/ After(1, points[j], points[i])
        BY <1>2, <1>3, <2>2
      <3> QED
        BY <1>1, <3>1
    <2> QED
      BY <2>1, <2>2
  <1> QED
    BY <1>4, <1>5, <1>6

Sorted(points) == [k \in DOMAIN points |-> points[InOrder(DOMAIN points, Earlier(points))[k]]]
SortOf(c, points, s) ==
    /\ s \in [1..c -> Points] /\ Along(1, s)
    /\ \A i \in 1..c : \E j \in 1..c : s[i] = points[j]
    /\ \A j \in 1..c : \E i \in 1..c : s[i] = points[j]

LEMMA SortedIs ==
    ASSUME NEW c \in Nat, NEW points \in [1..c -> Points]
    PROVE  SortOf(c, points, Sorted(points))
  <1>1. PICK S, before : S = 1..c /\ before = Earlier(points)
    OBVIOUS
  <1>13. IsFiniteSet(S)
    BY <1>1, FS_Interval
  <1>2. Cardinality(S) = c
    BY <1>1, FS_Interval
  <1>3. /\ \A i \in S : <<i, i>> \notin before
        /\ \A i, j, k \in S : <<i, j>> \in before /\ <<j, k>> \in before => <<i, k>> \in before
        /\ \A i, j \in S : i # j => <<i, j>> \in before \/ <<j, i>> \in before
    BY <1>1, EarlierIs, Zenon
  <1>4. /\ Cardinality(S) \in Nat /\ InOrder(S, before) \in [1..Cardinality(S) -> S]
        /\ \A k, l \in 1..Cardinality(S) : k < l => <<InOrder(S, before)[k], InOrder(S, before)[l]>> \in before
        /\ \A i \in S : \E k \in 1..Cardinality(S) : InOrder(S, before)[k] = i
    BY <1>3, <1>13, Sorts
  <1>5. PICK o : o = InOrder(S, before)
    OBVIOUS
  <1>6. /\ o \in [1..c -> 1..c] /\ \A k, l \in 1..c : k < l => <<o[k], o[l]>> \in before
        /\ \A i \in 1..c : \E k \in 1..c : o[k] = i
    BY <1>1, <1>2, <1>4, <1>5
  <1>7. DOMAIN points = 1..c /\ Sorted(points) = [k \in 1..c |-> points[o[k]]]
    BY <1>1, <1>5 DEF Sorted
  <1>8. PICK s : s = Sorted(points)
    OBVIOUS
  <1>9. s \in [1..c -> Points] /\ \A k \in 1..c : s[k] = points[o[k]]
    BY <1>6, <1>7, <1>8
  <1>10. Along(1, s)
    <2> SUFFICES ASSUME NEW i \in 1..c, NEW j \in 1..c, i < j PROVE s[i] = s[j] \/ After(1, s[i], s[j])
      BY <1>9 DEF Along
    <2>1. <<o[i], o[j]>> \in Earlier(points) /\ o[i] \in 1..c /\ o[j] \in 1..c
      BY <1>1, <1>6
    <2>2. LeftOf(points[o[i]], points[o[j]]) \/ points[o[i]] = points[o[j]]
      BY <2>1 DEF Earlier
    <2>3. After(1, points[o[i]], points[o[j]]) <=> LeftOf(points[o[i]], points[o[j]])
      <3>1. 1 \in {1, -1} /\ points[o[i]] \in Points /\ points[o[j]] \in Points
        BY <2>1
      <3> QED
        BY <3>1, AfterOrder
    <2> QED
      BY <1>9, <2>2, <2>3
  <1>11. \A i \in 1..c : \E j \in 1..c : s[i] = points[j]
    BY <1>6, <1>9
  <1>12. \A j \in 1..c : \E i \in 1..c : s[i] = points[j]
    <2> TAKE j \in 1..c
    <2>1. PICK i \in 1..c : o[i] = j
      BY <1>6
    <2> QED
      BY <1>9, <2>1
  <1>14. SortOf(c, points, s)
    BY <1>9, <1>10, <1>11, <1>12 DEF SortOf
  <1> QED
    BY <1>8, <1>14

LEMMA BackIs ==
    ASSUME NEW c \in Nat \ {0}, NEW s \in [1..c -> Points], Along(1, s)
    PROVE  /\ Reverse(s) \in [1..c -> Points] /\ Along(-1, Reverse(s))
           /\ \A i \in 1..c : Reverse(s)[i] = s[c - i + 1]
  <1>1. Len(s) = c
    BY ListIs
  <1>2. PICK r : r = Reverse(s)
    OBVIOUS
  <1>3. r = [i \in 1..c |-> s[(c - i) + 1]]
    BY <1>1, <1>2 DEF Reverse
  <1>4. \A i \in 1..c : c - i + 1 \in 1..c
    OBVIOUS
  <1>5. r \in [1..c -> Points] /\ \A i \in 1..c : r[i] = s[c - i + 1]
    BY <1>3, <1>4
  <1>6. Along(-1, r)
    <2> SUFFICES ASSUME NEW i \in 1..c, NEW j \in 1..c, i < j PROVE r[i] = r[j] \/ After(-1, r[i], r[j])
      BY <1>5 DEF Along
    <2>1. c - i + 1 \in 1..c /\ c - j + 1 \in 1..c /\ c - j + 1 < c - i + 1
      OBVIOUS
    <2>2. s[c - j + 1] = s[c - i + 1] \/ After(1, s[c - j + 1], s[c - i + 1])
      BY <2>1 DEF Along
    <2>3. r[j] = r[i] \/ After(1, r[j], r[i])
      BY <1>5, <2>2
    <2>4. After(-1, r[i], r[j]) <=> After(1, r[j], r[i])
      <3>1. PICK e \in {1, -1} : e = 1
        OBVIOUS
      <3>2. r[i] \in Points /\ r[j] \in Points
        BY <1>5
      <3>3. After(-e, r[i], r[j]) <=> After(e, r[j], r[i])
        BY <3>2, AfterOrder
      <3> QED
        BY <3>1, <3>3
    <2> QED
      BY <2>3, <2>4
  <1> QED
    BY <1>2, <1>5, <1>6

HullOK(line, P) ==
    \E l \in Nat : /\ Len(line) = l /\ line \in [1..l -> P]
                   /\ l > 2 => GoesRound(line, l, P)

LEMMA HullIs ==
    ASSUME NEW c \in Nat \ {0}, NEW points \in [1..c -> Points],
           NEW P \in SUBSET Points, \A i \in 1..c : points[i] \in P, \A p \in P : \E i \in 1..c : p = points[i]
    PROVE  HullOK(hull(points), P)
  <1>1. Len(points) = c /\ DOMAIN points = 1..c
    BY ListIs
  <1>2. CASE c < 3
    <2>1. hull(points) = points
      BY <1>1, <1>2 DEF hull
    <2>2. points \in [1..c -> P] /\ ~(c > 2)
      BY <1>2
    <2> QED
      BY <1>1, <2>1, <2>2 DEF HullOK
  <1>3. CASE ~(c < 3)
    <2>1. PICK s : s = Sorted(points)
      OBVIOUS
    <2>2. PICK r : r = Reverse(s)
      OBVIOUS
    <2>3. hull(points) = Front(Chain(s)) \o Front(Chain(r))
      BY <1>1, <1>3, <2>1, <2>2 DEF hull, Sorted, Earlier
    <2>4. /\ s \in [1..c -> Points] /\ Along(1, s)
          /\ \A i \in 1..c : \E j \in 1..c : s[i] = points[j]
          /\ \A j \in 1..c : \E i \in 1..c : s[i] = points[j]
      <3>1. c \in Nat
        OBVIOUS
      <3>2. SortOf(c, points, Sorted(points))
        BY <3>1, SortedIs
      <3>3. SortOf(c, points, s)
        BY <2>1, <3>2
      <3> QED
        BY <3>3 DEF SortOf
    <2>5. r \in [1..c -> Points] /\ Along(-1, r) /\ \A i \in 1..c : r[i] = s[c - i + 1]
      BY <2>2, <2>4, BackIs
    <2>6. (\A i \in 1..c : s[i] \in P) /\ \A p \in P : \E i \in 1..c : p = s[i]
      <3>1. ASSUME NEW i \in 1..c PROVE s[i] \in P
        <4>1. PICK j \in 1..c : s[i] = points[j]
          BY <2>4
        <4> QED
          BY <4>1
      <3>2. ASSUME NEW p \in P PROVE \E i \in 1..c : p = s[i]
        <4>1. PICK j \in 1..c : p = points[j]
          OBVIOUS
        <4>2. PICK i \in 1..c : s[i] = points[j]
          BY <2>4
        <4> QED
          BY <4>1, <4>2
      <3> QED
        BY <3>1, <3>2
    <2>7. (\A i \in 1..c : r[i] \in P) /\ \A p \in P : \E i \in 1..c : p = r[i]
      <3>1. ASSUME NEW i \in 1..c PROVE r[i] \in P
        <4>1. c - i + 1 \in 1..c
          OBVIOUS
        <4> QED
          BY <2>5, <2>6, <4>1
      <3>2. ASSUME NEW p \in P PROVE \E i \in 1..c : p = r[i]
        <4>1. PICK i \in 1..c : p = s[i]
          BY <2>6
        <4>2. c - i + 1 \in 1..c /\ c - (c - i + 1) + 1 = i
          OBVIOUS
        <4> QED
          BY <2>5, <4>1, <4>2
      <3> QED
        BY <3>1, <3>2
    <2>8. PICK a, b : a = Chain(s) /\ b = Chain(r)
      OBVIOUS
    <2>9. ChainOK(1, s, c, a) /\ ChainOK(-1, r, c, b)
      <3>1. PICK e \in {1, -1} : e = 1
        OBVIOUS
      <3>2. ChainOK(e, s, c, a)
        BY <2>4, <2>8, <3>1, ChainIs
      <3>3. PICK g \in {1, -1} : g = -1
        OBVIOUS
      <3>4. ChainOK(g, r, c, b)
        BY <2>5, <2>8, <3>3, ChainIs
      <3> QED
        BY <3>1, <3>2, <3>3, <3>4
    <2>10. PICK m \in Nat : /\ m >= 2 /\ a \in [1..m -> P] /\ a[1] = s[1] /\ a[m] = s[c]
                            /\ Half(1, P, m, a) \/ (m = 2 /\ \A p \in P : p = s[1])
      <3>1. PICK e \in {1, -1} : e = 1
        OBVIOUS
      <3>2. ChainOK(e, s, c, a) /\ c > 1 /\ c \in Nat
        BY <1>3, <2>9, <3>1
      <3>3. HalfWay(e, P, s[1], s[c], a)
        BY <2>4, <2>6, <3>2, HalfIs
      <3> QED
        BY <3>1, <3>3 DEF HalfWay
    <2>11. PICK n \in Nat : /\ n >= 2 /\ b \in [1..n -> P] /\ b[1] = r[1] /\ b[n] = r[c]
                            /\ Half(-1, P, n, b) \/ (n = 2 /\ \A p \in P : p = r[1])
      <3>1. PICK e \in {1, -1} : e = -1
        OBVIOUS
      <3>2. ChainOK(e, r, c, b) /\ c > 1 /\ c \in Nat
        BY <1>3, <2>9, <3>1
      <3>3. HalfWay(e, P, r[1], r[c], b)
        BY <2>5, <2>7, <3>2, HalfIs
      <3> QED
        BY <3>1, <3>3 DEF HalfWay
    <2>12. a[m] = b[1] /\ b[n] = a[1]
      <3>1. 1 \in 1..c /\ c \in 1..c /\ c - 1 + 1 = c /\ c - c + 1 = 1
        OBVIOUS
      <3>2. r[1] = s[c] /\ r[c] = s[1]
        BY <2>5, <3>1
      <3> QED
        BY <2>10, <2>11, <3>2
    <2>13. PICK line : line = Front(a) \o Front(b) /\ hull(points) = line
      BY <2>3, <2>8
    <2>14. Joined(line, P, m, a, n, b)
      BY <2>10, <2>11, <2>12, <2>13, RoundIs
    <2>15. line \in [1..(m + n - 2) -> P] /\ Len(line) = m + n - 2 /\ m + n - 2 \in Nat
      BY <2>10, <2>11, <2>14 DEF Joined
    <2>16. ASSUME m + n - 2 > 2 PROVE GoesRound(line, m + n - 2, P)
      <3>1. m + n > 4 /\ 1 \in 1..(m - 1) /\ 1 \in 1..m /\ 2 \in 1..m /\ 1 \in 1..(n - 1) /\ 1 \in 1..n /\ 2 \in 1..n /\ 1 + 1 = 2
        BY <2>10, <2>11, <2>16
      <3>2. ASSUME Half(1, P, m, a) PROVE Half(-1, P, n, b)
        <4> SUFFICES ASSUME \A p \in P : p = r[1] PROVE FALSE
          BY <2>11
        <4>1. After(1, a[1], a[2]) /\ a[1] \in P /\ a[2] \in P
          BY <3>1, <3>2, <2>10 DEF Half
        <4>2. a[1] = a[2] /\ a[1] \in Points /\ 1 \in {1, -1}
          BY <4>1
        <4> QED
          BY <4>1, <4>2, AfterOrder
      <3>3. ASSUME Half(-1, P, n, b) PROVE Half(1, P, m, a)
        <4> SUFFICES ASSUME \A p \in P : p = s[1] PROVE FALSE
          BY <2>10
        <4>1. After(-1, b[1], b[2]) /\ b[1] \in P /\ b[2] \in P
          BY <3>1, <3>3, <2>11 DEF Half
        <4>2. b[1] = b[2] /\ b[1] \in Points /\ -1 \in {1, -1}
          BY <4>1
        <4> QED
          BY <4>1, <4>2, AfterOrder
      <3>4. Half(1, P, m, a) /\ Half(-1, P, n, b)
        <4>1. ~(m = 2 /\ n = 2)
          BY <2>16
        <4> QED
          BY <2>10, <2>11, <3>2, <3>3, <4>1
      <3> QED
        BY <2>10, <2>11, <2>12, <2>13, <3>1, <3>4, HalvesGoRound
    <2> QED
      BY <2>13, <2>15, <2>16 DEF HullOK
  <1> QED
    BY <1>2, <1>3

LEMMA ListedIs ==
    ASSUME NEW S, IsFiniteSet(S)
    PROVE  /\ Cardinality(S) \in Nat /\ SetToSeq(S) \in [1..Cardinality(S) -> S]
           /\ \A x \in S : \E n \in 1..Cardinality(S) : SetToSeq(S)[n] = x
  <1>1. PICK n \in Nat : n = Cardinality(S)
    BY FS_CardinalityType
  <1>2. PICK g \in [1..n -> S] : IsInjective(g)
    <2>1. \E g : g \in Bijection(1..n, S)
      <3>1. ExistsBijection(1..Cardinality(S), S)
        BY FS_CardinalityType
      <3> QED
        BY <1>1, <3>1 DEF ExistsBijection
    <2> QED
      BY <2>1 DEF Bijection, Injection, IsInjective
  <1>3. PICK f : f = SetToSeq(S)
    OBVIOUS
  <1>4. f = CHOOSE h \in [1..n -> S] : IsInjective(h)
    BY <1>1, <1>3 DEF SetToSeq
  <1>5. f \in [1..n -> S] /\ IsInjective(f)
    BY <1>2, <1>4, Zenon
  <1>6. f \in Injection(1..n, S)
    BY <1>5 DEF Injection, IsInjective
  <1>7. f \in Surjection(1..n, S)
    <2>1. IsFiniteSet(1..n) /\ Cardinality(1..n) = n
      BY FS_Interval
    <2> QED
      BY <1>1, <1>6, <2>1, FS_Injection
  <1>8. \A x \in S : \E k \in 1..n : f[k] = x
    BY <1>7 DEF Surjection
  <1> QED
    BY <1>1, <1>3, <1>5, <1>8

-----------------------------------------------------------------------------
(* MapView: the invariant.                                                 *)

Calm == drag \notin Items /\ ~cut => laid = pos /\ (~queued => LabelsOK(labels))
MapInv == MapViewTypeOK /\ ViewOK(vp) /\ ViewKept /\ Calm

LEMMA MoveIs ==
    ASSUME MapViewTypeOK, Move
    PROVE  moves' \in 0..MaxMoves
  <1>1. MaxMoves \in Nat /\ moves \in 0..MaxMoves /\ moves > 0 /\ moves' = moves - 1
    BY MapViewAssumption DEF MapViewAssumption, MapViewTypeOK, Move
  <1> QED
    BY <1>1

LEMMA LabelsStay ==
    ASSUME UNCHANGED <<pos, vp, sel, sought, labels>>, LabelsOK(labels)
    PROVE  LabelsOK(labels)'
  <1>1. Shrunk' = Shrunk
    BY DEF Shrunk
  <1>2. Tiny' <=> Tiny
    BY <1>1 DEF Tiny
  <1>3. \A i : rank(i)' = rank(i)
    BY DEF rank
  <1>4. \A i, j : Ahead(i, j)' <=> Ahead(i, j)
    BY <1>3 DEF Ahead, Degree
  <1>5. \A i : HalfWidth(i)' = HalfWidth(i)
    BY <1>1 DEF HalfWidth
  <1>6. \A i, j : Overprints(i, j)' <=> Overprints(i, j)
    BY <1>1, <1>5 DEF Overprints, Below
  <1> QED
    BY <1>2, <1>3, <1>4, <1>6 DEF LabelsOK

LEMMA MapInit ==
    MapViewInit => MapInv
  <1> SUFFICES ASSUME MapViewInit PROVE MapInv
    OBVIOUS
  <1> USE DEF MapViewInit
  <1>1. pos \in [Items -> Int \X Int] /\ laid \in [Items -> Int \X Int]
    BY MapViewAssumption DEF MapViewAssumption
  <1>2. ViewOK(vp)
    BY <1>1, FittedIs
  <1>3. MapViewTypeOK
    <2>1. moves \in 0..MaxMoves
      BY MapViewAssumption DEF MapViewAssumption
    <2>2. ~Lt(vp.k, Q(2, 25)) /\ ~Lt(Whole(3), vp.k)
      BY <1>2 DEF ViewOK
    <2>3. {pos, laid} \subseteq [Items -> Int \X Int]
      BY <1>1
    <2>4. sel \in Items \cup {Nobody} /\ sought \in Queries \cup {NoQuery} /\ labels \subseteq Items
      OBVIOUS
    <2>5. {queued, cut} \subseteq BOOLEAN /\ drag \in Items \cup {Nobody, Pinch}
      OBVIOUS
    <2> QED
      BY <2>1, <2>2, <2>3, <2>4, <2>5 DEF MapViewTypeOK
  <1>4. ViewKept
    BY DEF ViewKept
  <1> QED
    BY <1>2, <1>3, <1>4 DEF MapInv, Calm

\* What is left alone by a step that draws, or moves the view.
LEMMA RenderIs ==
    ASSUME MapInv, Render, Move, pos' \in [Items -> Int \X Int], sel' \in Items \cup {Nobody}, sought' \in Queries \cup {NoQuery},
           drag' \in Items \cup {Nobody, Pinch}, ViewOK(vp)', ViewKept'
    PROVE  MapInv'
  <1>1. MapViewTypeOK'
    <2>1. moves' \in 0..MaxMoves
      BY MoveIs DEF MapInv
    <2>3. (~Lt(vp.k, Q(2, 25)) /\ ~Lt(Whole(3), vp.k))'
      BY DEF ViewOK
    <2>4. ({pos, laid} \subseteq [Items -> Int \X Int])'
      BY DEF Render
    <2>5. (labels \subseteq Items /\ {queued, cut} \subseteq BOOLEAN)'
      BY DEF Render
    <2> QED
      BY <2>1, <2>3, <2>4, <2>5 DEF MapViewTypeOK
  <1>2. Calm'
    BY DEF Calm, Render
  <1> QED
    BY <1>1, <1>2 DEF MapInv

LEMMA ApplyViewIs ==
    ASSUME MapInv, ApplyView, Move, Steady, ViewOK(vp)', ViewKept'
    PROVE  MapInv'
  <1>1. MapViewTypeOK'
    <2>1. moves' \in 0..MaxMoves
      BY MoveIs DEF MapInv
    <2>2. (~Lt(vp.k, Q(2, 25)) /\ ~Lt(Whole(3), vp.k))'
      BY DEF ViewOK
    <2>3. ({pos, laid} \subseteq [Items -> Int \X Int])' /\ sel' \in Items \cup {Nobody} /\ sought' \in Queries \cup {NoQuery}
      BY DEF MapInv, MapViewTypeOK, ApplyView, Steady
    <2>4. (labels \subseteq Items /\ {queued, cut} \subseteq BOOLEAN)' /\ drag' \in Items \cup {Nobody, Pinch}
      BY DEF MapInv, MapViewTypeOK, ApplyView, Steady
    <2> QED
      BY <2>1, <2>2, <2>3, <2>4 DEF MapViewTypeOK
  <1>2. Calm'
    BY DEF MapInv, Calm, ApplyView, Steady
  <1> QED
    BY <1>1, <1>2 DEF MapInv

LEMMA ViewStays ==
    ASSUME UNCHANGED <<vp, kept>>, ViewKept, ViewOK(vp)
    PROVE  ViewKept' /\ ViewOK(vp)'
  <1>1. ViewKept'
    BY DEF ViewKept, Screen
  <1> QED
    BY <1>1 DEF ViewOK

LEMMA MapStays ==
    ASSUME MapInv, UNCHANGED mapview_vars
    PROVE  MapInv'
  <1>1. MapViewTypeOK'
    BY DEF MapInv, MapViewTypeOK, mapview_vars
  <1>2. ViewKept' /\ ViewOK(vp)'
    BY ViewStays DEF MapInv, mapview_vars
  <1>3. Calm'
    <2>1. LabelsOK(labels) => LabelsOK(labels)'
      BY LabelsStay DEF mapview_vars
    <2> QED
      BY <2>1 DEF MapInv, Calm, mapview_vars
  <1> QED
    BY <1>1, <1>2, <1>3 DEF MapInv

LEMMA CullKeeps ==
    ASSUME MapInv, Cull
    PROVE  MapInv'
  <1>1. ViewKept' /\ ViewOK(vp)'
    BY ViewStays DEF MapInv, Cull
  <1>2. vp.k \in Fr /\ pos \in [Items -> Int \X Int] /\ sel \in Items \cup {Nobody}
    BY ViewPositive DEF MapInv, MapViewTypeOK
  <1>3. Placed \subseteq Items /\ LabelsOK(Placed)
    BY <1>2, PlacedHolds
  <1>4. MapViewTypeOK'
    BY <1>3 DEF MapInv, MapViewTypeOK, Cull
  <1>5. LabelsOK(labels)'
    <2>1. PICK shown : shown = Placed
      OBVIOUS
    <2>2. LabelsOK(shown) /\ labels' = shown
      BY <1>3, <2>1 DEF Cull
    <2>3. UNCHANGED <<pos, vp, sel, sought>>
      BY DEF Cull
    <2>4. LabelsOK(shown) => LabelsOK(labels)'
      <3>1. Shrunk' = Shrunk
        BY <2>3 DEF Shrunk
      <3>2. Tiny' <=> Tiny
        BY <3>1 DEF Tiny
      <3>3. \A i : rank(i)' = rank(i)
        BY <2>3 DEF rank
      <3>4. \A i, j : Ahead(i, j)' <=> Ahead(i, j)
        BY <3>3 DEF Ahead, Degree
      <3>5. \A i : HalfWidth(i)' = HalfWidth(i)
        BY <3>1 DEF HalfWidth
      <3>6. \A i, j : Overprints(i, j)' <=> Overprints(i, j)
        BY <2>3, <3>1, <3>5 DEF Overprints, Below
      <3> QED
        BY <2>2, <2>3, <3>2, <3>3, <3>4, <3>6 DEF LabelsOK
    <2> QED
      BY <2>2, <2>4
  <1>6. Calm'
    BY <1>5 DEF MapInv, Calm, Cull
  <1> QED
    BY <1>1, <1>4, <1>6 DEF MapInv

LEMMA FingersKeep ==
    ASSUME MapInv, SecondFinger \/ LiftFingers
    PROVE  MapInv'
  <1>1. UNCHANGED <<pos, laid, vp, sel, sought, queued, labels, kept, moves>> /\ drag' \in {Nobody, Pinch} /\ cut' \in BOOLEAN
    BY DEF SecondFinger, LiftFingers, MapInv, MapViewTypeOK
  <1>2. ViewKept' /\ ViewOK(vp)'
    BY <1>1, ViewStays DEF MapInv
  <1>3. MapViewTypeOK'
    BY <1>1 DEF MapInv, MapViewTypeOK
  <1>4. Calm'
    <2>1. LabelsOK(labels) => LabelsOK(labels)'
      BY <1>1, LabelsStay
    <2>2. CASE SecondFinger
      BY <2>2 DEF Calm, SecondFinger
    <2>3. CASE LiftFingers
      BY <2>1, <2>3, ItemsAre DEF MapInv, Calm, LiftFingers
    <2> QED
      BY <2>2, <2>3
  <1> QED
    BY <1>2, <1>3, <1>4 DEF MapInv

LEMMA DragKeeps ==
    ASSUME MapInv, NEW i \in Items, NEW p \in Spots, DragMove(i, p)
    PROVE  MapInv'
  <1>1. ViewKept' /\ ViewOK(vp)'
    BY ViewStays DEF MapInv, DragMove
  <1>2. p \in Int \X Int
    BY MapViewAssumption DEF MapViewAssumption
  <1>3. pos' \in [Items -> Int \X Int]
    BY <1>2 DEF MapInv, MapViewTypeOK, DragMove
  <1>4. MapViewTypeOK'
    <2>1. moves' \in 0..MaxMoves
      BY MoveIs DEF MapInv, DragMove
    <2> QED
      BY <1>3, <2>1 DEF MapInv, MapViewTypeOK, DragMove
  <1>5. Calm'
    BY DEF Calm, DragMove
  <1> QED
    BY <1>1, <1>4, <1>5 DEF MapInv

LEMMA DropKeeps ==
    ASSUME MapInv, Drop
    PROVE  MapInv'
  <1>1. ViewKept' /\ ViewOK(vp)'
    BY ViewStays DEF MapInv, Drop
  <1>2. MapViewTypeOK'
    BY DEF MapInv, MapViewTypeOK, Drop, Render
  <1>3. Calm'
    BY DEF Calm, Drop, Render
  <1> QED
    BY <1>1, <1>2, <1>3 DEF MapInv

LEMMA FitKeeps ==
    ASSUME MapInv, Fit \/ Relayout
    PROVE  MapInv'
  <1>1. pos' \in [Items -> Int \X Int]
    BY MapViewAssumption DEF MapInv, MapViewTypeOK, Fit, Relayout, Steady, MapViewAssumption
  <1>2. vp' = Fitted(pos')
    BY DEF Fit, Relayout, Steady
  <1>3. ViewOK(vp')
    BY <1>1, <1>2, FittedIs
  <1>4. ViewOK(vp)' /\ ViewKept'
    BY <1>3 DEF ViewOK, ViewKept, Fit, Relayout
  <1>5. CASE Fit
    BY <1>4, <1>5, ApplyViewIs DEF Fit
  <1>6. CASE Relayout
    BY <1>1, <1>4, <1>6, RenderIs DEF Relayout, MapInv, MapViewTypeOK
  <1> QED
    BY <1>5, <1>6

LEMMA ZoomKeeps ==
    ASSUME MapInv, NEW f \in {Whole(2), Q(1, 2)}, NEW s \in Pointer, Zoom(f, Spot(s))
    PROVE  MapInv'
  <1>1. s \in Int \X Int
    BY MapViewAssumption DEF MapViewAssumption
  <1>2. Spot(s) \in Fr \X Fr /\ f \in Fr
    BY <1>1, SpotIs, Scales
  <1>3. vp \in [k : Fr, x : Fr, y : Fr] /\ vp.k[1] > 0
    BY ViewPositive DEF MapInv, ViewOK
  <1>4. ViewOK(vp') /\ Screen(vp', World(vp, Spot(s))) = Spot(s)
    BY <1>2, <1>3, ZoomedIs DEF Zoom
  <1>5. ViewOK(vp)' /\ ViewKept'
    BY <1>4 DEF ViewOK, ViewKept, Zoom
  <1> QED
    BY <1>5, ApplyViewIs DEF Zoom

\* A view that is centred on p with a scale within the limits.
LEMMA CentreKeeps ==
    ASSUME MapInv, NEW p \in Fr \X Fr, CentreOn(p, ReadableScale)
    PROVE  ViewOK(vp)' /\ ViewKept'
  <1>1. vp.k \in Fr /\ ~Lt(vp.k, Q(2, 25)) /\ ~Lt(Whole(3), vp.k)
    BY DEF MapInv, ViewOK
  <1>2. ReadableScale \in {vp.k, Q(9, 10)} /\ ReadableScale \in Fr /\ ~Lt(ReadableScale, vp.k)
    BY <1>1, Scales, MinMaxQ DEF ReadableScale
  <1>3. ~Lt(ReadableScale, Q(2, 25)) /\ ~Lt(Whole(3), ReadableScale)
    BY <1>1, <1>2, Scales, LtOrder
  <1>4. ViewOK(vp') /\ Screen(vp', p) = Centre
    BY <1>2, <1>3, CentredIs DEF CentreOn
  <1> QED
    BY <1>4 DEF ViewOK, ViewKept, CentreOn

LEMMA SelectKeeps ==
    ASSUME MapInv, NEW i \in Items \cup {Nobody}, Select(i)
    PROVE  MapInv'
  <1>1. ViewKept' /\ ViewOK(vp)'
    BY ViewStays DEF MapInv, Select
  <1> QED
    BY <1>1, RenderIs DEF Select, MapInv, MapViewTypeOK

LEMMA FocusKeeps ==
    ASSUME MapInv, NEW i \in Items, Focus(i)
    PROVE  MapInv'
  <1>1. pos[i] \in Int \X Int
    BY DEF MapInv, MapViewTypeOK
  <1>2. ViewKept' /\ ViewOK(vp)'
    BY <1>1, SpotIs, CentreKeeps DEF Focus
  <1> QED
    BY <1>2, RenderIs DEF Focus, MapInv, MapViewTypeOK

LEMMA SearchKeeps ==
    ASSUME MapInv, NEW q \in Queries \cup {NoQuery}, search(q)
    PROVE  MapInv'
  <1>1. ViewKept' /\ ViewOK(vp)'
    <2>1. CASE UNCHANGED <<vp, kept>>
      BY <2>1, ViewStays DEF MapInv
    <2>2. CASE \E i \in First(q) : CentreOn(Spot(pos[i]), ReadableScale)
      <3>1. PICK i \in First(q) : CentreOn(Spot(pos[i]), ReadableScale)
        BY <2>2
      <3>2. pos[i] \in Int \X Int
        BY DEF First, MapInv, MapViewTypeOK
      <3> QED
        BY <3>1, <3>2, SpotIs, CentreKeeps
    <2> QED
      BY <2>1, <2>2 DEF search
  <1> QED
    BY <1>1, RenderIs DEF search, MapInv, MapViewTypeOK

LEMMA PanKeeps ==
    ASSUME MapInv, NEW dx \in {-Wide, Wide}, Pan(dx)
    PROVE  MapInv'
  <1>1. dx \in Int
    BY MapViewAssumption DEF MapViewAssumption
  <1>2. vp \in [k : Fr, x : Fr, y : Fr] /\ vp.x \in Fr
    BY DEF MapInv, ViewOK
  <1>3. Plus(vp.x, Whole(dx)) \in Fr
    BY <1>1, <1>2, WholeIs, FrClosed
  <1>4. ViewOK(vp')
    BY <1>2, <1>3 DEF MapInv, ViewOK, Pan
  <1>5. ViewOK(vp)' /\ ViewKept'
    BY <1>4 DEF ViewOK, ViewKept, Pan
  <1> QED
    BY <1>5, ApplyViewIs DEF Pan

LEMMA MiniKeeps ==
    ASSUME MapInv, NEW i \in Items, MiniJump(i)
    PROVE  MapInv'
  <1>1. laid \in [Items -> Int \X Int] /\ laid[i] \in Int \X Int
    BY DEF MapInv, MapViewTypeOK
  <1>2. MiniWorld(Dot(i)) = Spot(laid[i]) /\ Spot(laid[i]) \in Fr \X Fr
    BY <1>1, MiniIs, SpotIs
  <1>3. vp.k \in Fr /\ ~Lt(vp.k, Q(2, 25)) /\ ~Lt(Whole(3), vp.k)
    BY DEF MapInv, ViewOK
  <1>4. ViewOK(vp') /\ Screen(vp', Spot(laid[i])) = Centre
    BY <1>2, <1>3, CentredIs DEF MiniJump
  <1>5. ~cut => laid = pos
    BY ItemsAre DEF MapInv, Calm, MiniJump
  <1>6. ViewOK(vp)' /\ ViewKept'
    BY <1>4, <1>5 DEF ViewOK, ViewKept, MiniJump
  <1> QED
    BY <1>6, ApplyViewIs DEF MiniJump

LEMMA MapNext ==
    MapInv /\ [MapViewNext]_mapview_vars => MapInv'
  <1> SUFFICES ASSUME MapInv, [MapViewNext]_mapview_vars PROVE MapInv'
    OBVIOUS
  <1>1. CASE UNCHANGED mapview_vars
    BY <1>1, MapStays
  <1>2. CASE Cull
    BY <1>2, CullKeeps
  <1>3. CASE Fit \/ Relayout
    BY <1>3, FitKeeps
  <1>4. CASE Drop
    BY <1>4, DropKeeps
  <1>5. CASE SecondFinger \/ LiftFingers
    BY <1>5, FingersKeep
  <1>6. CASE \E f \in {Whole(2), Q(1, 2)}, s \in Pointer : Zoom(f, Spot(s))
    BY <1>6, ZoomKeeps
  <1>7. CASE Select(Nobody) \/ \E i \in Items : Select(i)
    BY <1>7, SelectKeeps
  <1>8. CASE \E dx \in {-Wide, Wide} : Pan(dx)
    BY <1>8, PanKeeps
  <1>9. CASE \E i \in Items : Focus(i) \/ MiniJump(i) \/ \E p \in Spots : DragMove(i, p)
    BY <1>9, FocusKeeps, MiniKeeps, DragKeeps
  <1>10. CASE \E q \in Queries \cup {NoQuery} : search(q)
    BY <1>10, SearchKeeps
  <1> QED
    BY <1>1, <1>2, <1>3, <1>4, <1>5, <1>6, <1>7, <1>8, <1>9, <1>10, Zenon DEF MapViewNext

LEMMA OutlineIs ==
    ASSUME pos \in [Items -> Int \X Int], laid = pos, NEW g \in Outlined
    PROVE  HullOK(Outline(g, laid), {pos[i] : i \in Members(g)})
  <1>1. PICK M : M = Members(g)
    OBVIOUS
  <1>2. M \in SUBSET Items /\ IsFiniteSet(M)
    <2>1. M \in SUBSET Items /\ IsFiniteSet(Items)
      BY <1>1, ItemsAre DEF Members
    <2> QED
      BY <2>1, FS_Subset
  <1>3. PICK n, f : n = Cardinality(M) /\ f = SetToSeq(M)
    OBVIOUS
  <1>4. n \in Nat /\ f \in [1..n -> M] /\ \A x \in M : \E k \in 1..n : f[k] = x
    BY <1>2, <1>3, ListedIs
  <1>5. n \in Nat \ {0}
    <2>1. Cardinality(M) > 1
      BY <1>1 DEF Outlined
    <2> QED
      BY <1>3, <1>4, <2>1
  <1>6. PICK points : points = [k \in 1..n |-> laid[f[k]]]
    OBVIOUS
  <1>7. points \in [1..n -> Points]
    <2>1. \A k \in 1..n : laid[f[k]] \in Points
      BY <1>2, <1>4 DEF Points
    <2> QED
      BY <1>6, <2>1
  <1>8. PICK P \in SUBSET Points : P = {pos[i] : i \in M}
    <2>1. {pos[i] : i \in M} \in SUBSET Points
      BY <1>2 DEF Points
    <2> QED
      BY <2>1
  <1>9. \A k \in 1..n : points[k] \in P
    BY <1>4, <1>6, <1>8
  <1>10. \A p \in P : \E k \in 1..n : p = points[k]
    <2> TAKE p \in P
    <2>1. PICK i \in M : p = pos[i]
      BY <1>8
    <2>2. PICK k \in 1..n : f[k] = i
      BY <1>4
    <2> QED
      BY <1>6, <2>1, <2>2
  <1>11. HullOK(hull(points), P)
    BY <1>5, <1>7, <1>9, <1>10, HullIs
  <1>12. Outline(g, laid) = hull(points)
    BY <1>1, <1>3, <1>6 DEF Outline
  <1> QED
    BY <1>1, <1>8, <1>11, <1>12

LEMMA OutlinesAre ==
    MapInv => OutlinesHold
  <1> SUFFICES ASSUME MapInv, AtRest, NEW g \in Outlined
               PROVE  LET line == Outline(g, laid)
                          next(n) == line[(n % Len(line)) + 1]
                      IN /\ Range(line) \subseteq {pos[i] : i \in Members(g)}
                         /\ Len(line) > 2 =>
                                /\ \A n \in DOMAIN line : \A i \in Members(g) : Cross(line[n], next(n), pos[i]) >= 0
                                /\ \A n \in DOMAIN line : Cross(line[n], next(n), next((n % Len(line)) + 1)) > 0
    BY DEF OutlinesHold
  <1>1. pos \in [Items -> Int \X Int] /\ laid = pos
    BY ItemsAre DEF MapInv, MapViewTypeOK, Calm, AtRest
  <1>2. PICK line : line = Outline(g, laid)
    OBVIOUS
  <1>3. PICK P : P = {pos[i] : i \in Members(g)}
    OBVIOUS
  <1>4. HullOK(line, P)
    BY <1>1, <1>2, <1>3, OutlineIs
  <1>5. PICK l \in Nat : Len(line) = l /\ line \in [1..l -> P] /\ (l > 2 => GoesRound(line, l, P))
    BY <1>4 DEF HullOK
  <1>6. Range(line) \subseteq P
    BY <1>5 DEF Range
  <1>7. l > 2 => \A n \in DOMAIN line : \A i \in Members(g) : Cross(line[n], line[(n % l) + 1], pos[i]) >= 0
    <2> SUFFICES ASSUME l > 2, NEW n \in 1..l, NEW i \in Members(g) PROVE Cross(line[n], line[(n % l) + 1], pos[i]) >= 0
      BY <1>5
    <2>1. pos[i] \in P
      BY <1>3
    <2>2. Cross(line[n], line[Onto(l, n)], pos[i]) >= 0
      BY <1>5, <2>1, Zenon DEF GoesRound
    <2> QED
      BY <2>2 DEF Onto
  <1>8. l > 2 => \A n \in DOMAIN line : Cross(line[n], line[(n % l) + 1], line[(((n % l) + 1) % l) + 1]) > 0
    <2> SUFFICES ASSUME l > 2, NEW n \in 1..l PROVE Cross(line[n], line[(n % l) + 1], line[(((n % l) + 1) % l) + 1]) > 0
      BY <1>5
    <2>1. Cross(line[n], line[Onto(l, n)], line[Onto(l, Onto(l, n))]) > 0
      BY <1>5, Zenon DEF GoesRound
    <2> QED
      BY <2>1 DEF Onto
  <1> QED
    BY <1>2, <1>3, <1>5, <1>6, <1>7, <1>8, Zenon

LEMMA FocusIs ==
    FocusIsWhole
  <1>1. ASSUME NEW c \in Cables, CableLights(c) PROVE Lights(c[1]) \/ Lights(c[2])
    BY <1>1 DEF CableLights, Lights
  <1>2. ASSUME NEW g \in Outlined, NEW i \in Members(g), Lights(i) PROVE OutlineLights(g)
    BY <1>2 DEF OutlineLights, Lights
  <1> QED
    BY <1>1, <1>2 DEF FocusIsWhole

LEMMA LabelsAre ==
    MapInv => LabelsGiveWay
  <1> SUFFICES ASSUME MapInv, AtRest, ~queued
               PROVE  /\ \A i, j \in labels : i # j /\ i # sel /\ j # sel => ~Overprints(i, j)
                      /\ sel # Nobody => sel \in labels /\ \A i \in labels \ {sel} : ~Overprints(i, sel)
                      /\ \A i \in Items \ labels : (Tiny /\ rank(i) > 1) \/ \E j \in labels : Overprints(i, j) /\ ~Ahead(i, j)
    BY DEF LabelsGiveWay
  <1>1. LabelsOK(labels)
    BY ItemsAre DEF MapInv, Calm, AtRest
  <1> QED
    BY <1>1 DEF LabelsOK

LEMMA MapRead ==
    MapInv => MapViewTypeOK /\ MapReads
  BY OutlinesAre, FocusIs, LabelsAre DEF MapInv, MapReads

\* The map shows what it has: labels that give way to what matters more,
\* outlines that go round their devices, a focus without gaps, and the view
\* where the last step of the operator wanted it.
THEOREM MapViewHolds ==
    MapViewSpec => [](MapViewTypeOK /\ MapReads)
  <1>1. MapViewInit => MapInv
    BY MapInit
  <1>2. MapInv /\ [MapViewNext]_mapview_vars => MapInv'
    BY MapNext
  <1>3. MapInv => MapViewTypeOK /\ MapReads
    BY MapRead
  <1> QED
    BY <1>1, <1>2, <1>3, PTL DEF MapViewSpec

-----------------------------------------------------------------------------
(* Readings: times.                                                        *)

\* What Math.round makes of s units of which one lasts u.
RoundedTo(s, u, r) == r \in Nat /\ 2 * u * r <= 2 * s + u /\ 2 * s + u < 2 * u * r + 2 * u
LEMMA RoundedIs ==
    ASSUME NEW s \in Nat, NEW unit \in Nat \ {0}
    PROVE  RoundedTo(s, unit, Rounded(s, unit))
  <1>1. PICK a \in Nat, d \in Nat \ {0} : a = 2 * s + unit /\ d = 2 * unit
    OBVIOUS
  <1>2. PICK q \in Int, r \in Int : q = a \div d /\ r = a % d /\ a = d * q + r /\ r \in 0..(d - 1)
    BY Parts
  <1>3. q >= 0
    <2> SUFFICES ASSUME q <= -1 PROVE FALSE
      OBVIOUS
    <2>1. d * q <= d * (-1)
      OBVIOUS
    <2> QED
      BY <1>2, <2>1
  <1>4. Rounded(s, unit) = q
    BY <1>1, <1>2 DEF Rounded
  <1>5. d * q <= a /\ a < d * q + d
    BY <1>2
  <1>6. d * q = 2 * unit * q
    BY <1>1
  <1> QED
    BY <1>1, <1>3, <1>4, <1>5, <1>6 DEF RoundedTo

\* And for the three units of the dashboard.
LEMMA RoundedBy ==
    ASSUME NEW s \in Nat
    PROVE  RoundedTo(s, 60, Rounded(s, 60)) /\ RoundedTo(s, 3600, Rounded(s, 3600)) /\ RoundedTo(s, 86400, Rounded(s, 86400))
  <1>1. 60 \in Nat \ {0} /\ 3600 \in Nat \ {0} /\ 86400 \in Nat \ {0}
    OBVIOUS
  <1> QED
    BY <1>1, RoundedIs

\* The greater of two numbers.
LEMMA GreaterIs ==
    ASSUME NEW a \in Int, NEW b \in Int
    PROVE  Max({a, b}) = IF a >= b THEN a ELSE b
  <1>1. PICK S \in SUBSET Int : S = {a, b}
    OBVIOUS
  <1>2. IsFiniteSet(S)
    <2>1. IsFiniteSet({a})
      BY FS_Singleton
    <2>2. S = {a} \cup {b}
      BY <1>1
    <2> QED
      BY <2>1, <2>2, FS_AddElement
  <1>3. Max(S) \in S /\ \A x \in S : x <= Max(S)
    BY <1>1, <1>2, GreatestIs
  <1> QED
    BY <1>1, <1>3

\* What is said of s seconds ago and of s seconds to come, in seconds.
LEMMA AgoIs ==
    ASSUME NEW s \in Nat
    PROVE  \E t \in Nat : /\ Seconds(ago(s)) = t /\ ago(s).unit = UnitOf(s)
                          /\ IF s < 60 THEN t = 0
                             ELSE t = UnitOf(s) * Rounded(s, UnitOf(s))
  <1>1. Rounded(s, 60) \in Nat /\ Rounded(s, 3600) \in Nat /\ Rounded(s, 86400) \in Nat
    BY RoundedBy DEF RoundedTo
  <1>2. CASE s < 60
    BY <1>2 DEF Seconds, ago, UnitOf, Minutes, HoursUnit, Days
  <1>3. CASE ~(s < 60)
    BY <1>1, <1>3 DEF Seconds, ago, Reading, UnitOf, Minutes, HoursUnit, Days
  <1> QED
    BY <1>2, <1>3

LEMMA UntilIs ==
    ASSUME NEW s \in Nat
    PROVE  \E n \in Nat : /\ until(s).n = n /\ Seconds(until(s)) = n * until(s).unit
                          /\ s = 0 => until(s).unit = 60 /\ n = 0
                          /\ s # 0 => until(s).unit = UnitOf(s) /\ n = IF s < 30 THEN 1 ELSE Rounded(s, UnitOf(s))
  <1>1. Rounded(s, 60) \in Nat /\ Rounded(s, 3600) \in Nat /\ Rounded(s, 86400) \in Nat
    BY RoundedBy DEF RoundedTo
  <1>2. CASE s = 0
    BY <1>2 DEF Seconds, until, Minutes
  <1>3. CASE s # 0 /\ s < 3600
    <2>1. until(s) = [n |-> Max({1, Rounded(s, 60)}), unit |-> 60]
      BY <1>3 DEF until, Minutes, HoursUnit
    <2>2. Max({1, Rounded(s, 60)}) = IF 1 >= Rounded(s, 60) THEN 1 ELSE Rounded(s, 60)
      <3>1. PICK r \in Nat : r = Rounded(s, 60)
        BY <1>1
      <3>2. Max({1, r}) = IF 1 >= r THEN 1 ELSE r
        BY GreaterIs
      <3> QED
        BY <3>1, <3>2
    <2>3. Max({1, Rounded(s, 60)}) = IF s < 30 THEN 1 ELSE Rounded(s, 60)
      <3>4. PICK r : r = Rounded(s, 60) /\ RoundedTo(s, 60, r)
        BY RoundedBy
      <3>1. r \in Nat /\ r = Rounded(s, 60) /\ 120 * r <= 2 * s + 60 /\ 2 * s + 60 < 120 * r + 120
        BY <3>4 DEF RoundedTo
      <3>2. s < 30 => r = 0
        BY <3>1
      <3>3. ~(s < 30) => r >= 1
        BY <3>1
      <3> QED
        BY <2>2, <3>1, <3>2, <3>3
    <2> QED
      BY <1>1, <1>3, <2>1, <2>3 DEF Seconds, UnitOf, Minutes, HoursUnit
  <1>4. CASE ~(s < 3600)
    BY <1>1, <1>4 DEF Seconds, until, Reading, UnitOf, Minutes, HoursUnit, Days
  <1> QED
    BY <1>2, <1>3, <1>4

\* The seconds of each as numbers of one of three units.
Ago(s, t) == t \in Nat /\ IF s < 60 THEN t = 0 ELSE
             IF s < 3600 THEN t <= s + 30 /\ s < t + 30 /\ t <= 3600
             ELSE IF s < 86400 THEN t <= s + 1800 /\ s < t + 1800 /\ 3600 <= t /\ t <= 86400
             ELSE t <= s + 43200 /\ s < t + 43200 /\ 86400 <= t

\* A time ago is told to within half of its unit, and stays in the range of
\* its unit: at most an hour in minutes, at most a day in hours.
LEMMA AgoNear ==
    ASSUME NEW s \in Nat
    PROVE  Ago(s, Seconds(ago(s))) /\ Near(s, ago(s))
  <1>1. PICK t \in Nat : /\ Seconds(ago(s)) = t /\ ago(s).unit = UnitOf(s)
                         /\ IF s < 60 THEN t = 0 ELSE t = UnitOf(s) * Rounded(s, UnitOf(s))
    BY AgoIs
  <1>2. PICK a, b, c : /\ a = Rounded(s, 60) /\ b = Rounded(s, 3600) /\ c = Rounded(s, 86400)
                       /\ RoundedTo(s, 60, a) /\ RoundedTo(s, 3600, b) /\ RoundedTo(s, 86400, c)
    BY RoundedBy
  <1>3. /\ a \in Nat /\ b \in Nat /\ c \in Nat
        /\ 120 * a <= 2 * s + 60 /\ 2 * s + 60 < 120 * a + 120
        /\ 7200 * b <= 2 * s + 3600 /\ 2 * s + 3600 < 7200 * b + 7200
        /\ 172800 * c <= 2 * s + 86400 /\ 2 * s + 86400 < 172800 * c + 172800
    BY <1>2 DEF RoundedTo
  <1>4. 60 \div 2 = 30 /\ 3600 \div 2 = 1800 /\ 86400 \div 2 = 43200
    OBVIOUS
  <1>5. CASE s < 60
    <2>1. UnitOf(s) = 60 /\ Near(s, ago(s)) <=> t \in s - 60..s + 60
      BY <1>1, <1>5 DEF UnitOf, Near, Minutes, HoursUnit
    <2> QED
      BY <1>1, <1>5, <2>1 DEF Ago
  <1>6. CASE ~(s < 60) /\ s < 3600
    <2>1. UnitOf(s) = 60
      BY <1>6 DEF UnitOf, Minutes, HoursUnit
    <2>2. t = 60 * a
      BY <1>1, <1>2, <1>6, <2>1
    <2>3. t <= s + 30 /\ s < t + 30 /\ t <= 3600
      BY <1>3, <1>6, <2>2
    <2>4. Near(s, ago(s)) <=> t \in s - 30..s + 30
      BY <1>1, <1>4, <1>6, <2>1 DEF Near, Minutes
    <2> QED
      BY <1>1, <1>6, <2>3, <2>4 DEF Ago
  <1>7. CASE ~(s < 3600) /\ s < 86400
    <2>1. UnitOf(s) = 3600
      BY <1>7 DEF UnitOf, Minutes, HoursUnit, Days
    <2>2. t = 3600 * b
      BY <1>1, <1>2, <1>7, <2>1
    <2>3. t <= s + 1800 /\ s < t + 1800 /\ 3600 <= t /\ t <= 86400
      BY <1>3, <1>7, <2>2
    <2>4. Near(s, ago(s)) <=> t \in s - 1800..s + 1800
      BY <1>1, <1>4, <1>7, <2>1 DEF Near, Minutes
    <2> QED
      BY <1>1, <1>7, <2>3, <2>4 DEF Ago
  <1>8. CASE ~(s < 86400)
    <2>1. UnitOf(s) = 86400
      BY <1>8 DEF UnitOf, Minutes, HoursUnit, Days
    <2>2. t = 86400 * c
      BY <1>1, <1>2, <1>8, <2>1
    <2>3. t <= s + 43200 /\ s < t + 43200 /\ 86400 <= t
      BY <1>3, <1>8, <2>2
    <2>4. Near(s, ago(s)) <=> t \in s - 43200..s + 43200
      BY <1>1, <1>4, <1>8, <2>1 DEF Near, Minutes
    <2> QED
      BY <1>1, <1>8, <2>3, <2>4 DEF Ago
  <1> QED
    BY <1>5, <1>6, <1>7, <1>8

\* A second later is never told as earlier.
LEMMA AgoGrows ==
    ASSUME NEW s \in Nat
    PROVE  Seconds(ago(s)) <= Seconds(ago(s + 1))
  <1>1. PICK t \in Nat : /\ Seconds(ago(s)) = t
                         /\ IF s < 60 THEN t = 0 ELSE t = UnitOf(s) * Rounded(s, UnitOf(s))
    BY AgoIs
  <1>2. PICK v \in Nat : /\ Seconds(ago(s + 1)) = v
                         /\ IF s + 1 < 60 THEN v = 0 ELSE v = UnitOf(s + 1) * Rounded(s + 1, UnitOf(s + 1))
    <2>1. s + 1 \in Nat
      OBVIOUS
    <2> QED
      BY <2>1, AgoIs
  <1>3. CASE UnitOf(s) = UnitOf(s + 1) /\ ~(s < 60)
    <2>1. PICK u \in Nat \ {0} : u = UnitOf(s)
      BY DEF UnitOf, Minutes, HoursUnit, Days
    <2>2. PICK a \in Nat, b \in Nat : a = Rounded(s, u) /\ b = Rounded(s + 1, u) /\ t = u * a /\ v = u * b
      <3>1. s + 1 \in Nat
        OBVIOUS
      <3>2. Rounded(s, u) \in Nat /\ Rounded(s + 1, u) \in Nat
        BY <3>1, RoundedIs DEF RoundedTo
      <3> QED
        BY <1>1, <1>2, <1>3, <2>1, <3>2
    <2>3. 2 * u * a <= 2 * s + u /\ 2 * (s + 1) + u < 2 * u * b + 2 * u
      <3>1. s + 1 \in Nat
        OBVIOUS
      <3> QED
        BY <2>2, <3>1, RoundedIs DEF RoundedTo
    <2>4. a <= b
      <3> SUFFICES ASSUME a >= b + 1 PROVE FALSE
        OBVIOUS
      <3>1. u * a >= u * (b + 1)
        OBVIOUS
      <3>2. u * (b + 1) = u * b + u
        OBVIOUS
      <3>3. 2 * u * a = 2 * (u * a) /\ 2 * u * b = 2 * (u * b)
        OBVIOUS
      <3> QED
        BY <2>3, <3>1, <3>2, <3>3
    <2>5. u * a <= u * b
      BY <2>4
    <2> QED
      BY <1>1, <1>2, <2>2, <2>5
  <1>4. CASE UnitOf(s) # UnitOf(s + 1) \/ s < 60
    <2>1. s < 60 \/ s + 1 = 3600 \/ s + 1 = 86400
      BY <1>4 DEF UnitOf, Minutes, HoursUnit, Days
    <2>2. s + 1 \in Nat
      OBVIOUS
    <2>3. Ago(s, t) /\ Ago(s + 1, v)
      BY <1>1, <1>2, <2>2, AgoNear
    <2>4. t <= v
      BY <2>1, <2>3 DEF Ago
    <2> QED
      BY <1>1, <1>2, <2>4
  <1> QED
    BY <1>3, <1>4

\* From a minute on, both are told alike.
LEMMA AsAgo ==
    ASSUME NEW s \in Nat, s >= 60
    PROVE  until(s) = ago(s)
  <1>1. CASE s < 3600
    <2>3. PICK r : r = Rounded(s, 60) /\ RoundedTo(s, 60, r)
      BY RoundedBy
    <2>1. r \in Nat /\ r = Rounded(s, 60) /\ 120 * r <= 2 * s + 60 /\ 2 * s + 60 < 120 * r + 120
      BY <2>3 DEF RoundedTo
    <2>2. Max({1, r}) = r
      <3>1. 1 \in Int /\ r >= 1 /\ Max({1, r}) = IF 1 >= r THEN 1 ELSE r
        BY <2>1, GreaterIs
      <3> QED
        BY <2>1, <3>1
    <2> QED
      BY <1>1, <2>1, <2>2 DEF until, ago, Reading, UnitOf, Minutes, HoursUnit
  <1>2. CASE ~(s < 3600)
    BY <1>2 DEF until, ago, Reading, UnitOf, Minutes, HoursUnit, Days
  <1> QED
    BY <1>1, <1>2

\* What is still to come is told near enough, as zero only when it is now,
\* and a second later never as earlier.
LEMMA UntilNear ==
    ASSUME NEW s \in Nat
    PROVE  /\ Near(s, until(s)) /\ (until(s).n = 0 <=> s = 0)
           /\ Seconds(until(s)) <= Seconds(until(s + 1))
  <1>1. PICK n \in Nat : /\ until(s).n = n /\ Seconds(until(s)) = n * until(s).unit
                         /\ s = 0 => until(s).unit = 60 /\ n = 0
                         /\ s # 0 => until(s).unit = UnitOf(s) /\ n = IF s < 30 THEN 1 ELSE Rounded(s, UnitOf(s))
    BY UntilIs
  <1>2. PICK m \in Nat : /\ until(s + 1).n = m /\ Seconds(until(s + 1)) = m * until(s + 1).unit
                         /\ until(s + 1).unit = UnitOf(s + 1) /\ m = IF s + 1 < 30 THEN 1 ELSE Rounded(s + 1, UnitOf(s + 1))
    <2>1. s + 1 \in Nat /\ s + 1 # 0
      OBVIOUS
    <2> QED
      BY <2>1, UntilIs
  <1>3. CASE s < 60
    <2>1. UnitOf(s) = 60 /\ UnitOf(s + 1) = 60
      BY <1>3 DEF UnitOf, Minutes, HoursUnit
    <2>7. PICK a : a = Rounded(s, 60) /\ RoundedTo(s, 60, a)
      BY RoundedBy
    <2>2. a \in Nat /\ a = Rounded(s, 60) /\ 120 * a <= 2 * s + 60 /\ 2 * s + 60 < 120 * a + 120
      BY <2>7 DEF RoundedTo
    <2>8. PICK b : b = Rounded(s + 1, 60) /\ RoundedTo(s + 1, 60, b)
      <3>1. s + 1 \in Nat
        OBVIOUS
      <3> QED
        BY <3>1, RoundedBy
    <2>6. b \in Nat /\ b = Rounded(s + 1, 60) /\ 120 * b <= 2 * (s + 1) + 60 /\ 2 * (s + 1) + 60 < 120 * b + 120
      BY <2>8 DEF RoundedTo
    <2>3. (s = 0 => n = 0) /\ (s # 0 => n = 1) /\ m = 1
      <3>1. s >= 30 => a = 1
        BY <1>3, <2>2
      <3>2. s + 1 >= 30 => b = 1
        BY <1>3, <2>6
      <3> QED
        BY <1>1, <1>2, <2>1, <2>2, <2>6, <3>1, <3>2
    <2>4. Seconds(until(s)) = n * 60 /\ Seconds(until(s + 1)) = m * 60 /\ until(s).unit = 60
      BY <1>1, <1>2, <2>1
    <2>5. Near(s, until(s)) <=> n * 60 \in s - 60..s + 60
      BY <1>3, <2>4 DEF Near, Minutes
    <2> QED
      BY <1>1, <1>3, <2>3, <2>4, <2>5
  <1>4. CASE ~(s < 60)
    <2>1. until(s) = ago(s) /\ until(s + 1) = ago(s + 1)
      <3>1. s + 1 \in Nat /\ s + 1 >= 60 /\ s >= 60
        BY <1>4
      <3> QED
        BY <3>1, AsAgo
    <2>2. s # 0 /\ n # 0
      <3>1. Ago(s, Seconds(ago(s)))
        BY AgoNear
      <3>2. Seconds(ago(s)) > 0
        BY <1>4, <3>1 DEF Ago
      <3>3. n # 0
        <4> SUFFICES ASSUME n = 0 PROVE FALSE
          OBVIOUS
        <4>1. UnitOf(s) \in Nat
          BY DEF UnitOf, Minutes, HoursUnit, Days
        <4>2. Seconds(until(s)) = 0
          BY <1>1, <1>4, <4>1
        <4> QED
          BY <2>1, <3>2, <4>2
      <3> QED
        BY <1>4, <3>3
    <2> QED
      BY <1>1, <2>1, <2>2, AgoNear, AgoGrows
  <1> QED
    BY <1>3, <1>4

\* Every time is told as SomeTimes are (ago and until of app.js): to within half
\* of its unit, never as earlier than one before it, and what is still to come
\* never as now.
THEOREM TimesAlwaysTold == TimesTold(Int)
  <1> SUFFICES ASSUME NEW s \in Int
               PROVE  /\ s >= 0 => Near(s, ago(s)) /\ Near(s, until(s))
                      /\ s >= 0 /\ s + 1 \in Int =>
                             Seconds(ago(s)) <= Seconds(ago(s + 1)) /\ Seconds(until(s)) <= Seconds(until(s + 1))
                      /\ until(s).n = 0 <=> s <= 0
    BY DEF TimesTold
  <1>1. CASE s \in Nat
    BY <1>1, AgoNear, AgoGrows, UntilNear
  <1>2. CASE s < 0
    BY <1>2 DEF until
  <1> QED
    BY <1>1, <1>2

-----------------------------------------------------------------------------
(* Readings: versions.                                                     *)

\* The sign of a difference.
LEMMA SignIs ==
    ASSUME NEW m \in Int, NEW n \in Int
    PROVE  /\ Sign(m - n) \in {-1, 0, 1} /\ Sign(m - n) = -Sign(n - m)
           /\ (Sign(m - n) = 1 <=> m > n) /\ (Sign(m - n) = 0 <=> m = n)
  BY DEF Sign

\* Two sequences have one first difference at most, whichever is named first.
LEMMA GapIs ==
    ASSUME NEW a \in Seq(Nat), NEW b \in Seq(Nat)
    PROVE  \/ FirstGap(a, b) = {} /\ FirstGap(b, a) = {} /\ \A i \in DOMAIN a \cap DOMAIN b : a[i] = b[i]
           \/ \E i \in DOMAIN a \cap DOMAIN b :
                  FirstGap(a, b) = {i} /\ FirstGap(b, a) = {i} /\ a[i] # b[i] /\ \A j \in 1..i - 1 : a[j] = b[j]
  <1>1. DOMAIN a = 1..Len(a) /\ DOMAIN b = 1..Len(b) /\ Len(a) \in Nat /\ Len(b) \in Nat
    BY LenProperties
  <1>2. PICK T : T = {i \in DOMAIN a \cap DOMAIN b : a[i] # b[i]}
    OBVIOUS
  <1>3. FirstGap(a, b) = {i \in T : \A j \in 1..i - 1 : a[j] = b[j]} /\ FirstGap(b, a) = {i \in T : \A j \in 1..i - 1 : a[j] = b[j]}
    <2>1. FirstGap(a, b) = {i \in T : \A j \in 1..i - 1 : a[j] = b[j]}
      BY <1>2 DEF FirstGap
    <2>2. \A i : i \in FirstGap(b, a) <=> i \in T /\ \A j \in 1..i - 1 : a[j] = b[j]
      BY <1>2 DEF FirstGap
    <2> QED
      BY <2>1, <2>2
  <1>4. CASE T = {}
    <2>1. FirstGap(a, b) = {} /\ FirstGap(b, a) = {}
      BY <1>3, <1>4
    <2>2. \A i \in DOMAIN a \cap DOMAIN b : a[i] = b[i]
      BY <1>2, <1>4
    <2> QED
      BY <2>1, <2>2
  <1>5. CASE T # {}
    <2>1. T \subseteq Nat
      BY <1>1, <1>2
    <2>2. PICK i \in T : \A y \in T : i <= y
      BY <1>5, <2>1, LeastIs
    <2>3. i \in DOMAIN a \cap DOMAIN b /\ a[i] # b[i] /\ i \in 1..Len(a) /\ i \in 1..Len(b)
      BY <1>1, <1>2
    <2>4. \A j \in 1..i - 1 : a[j] = b[j]
      <3> TAKE j \in 1..i - 1
      <3>1. j \in DOMAIN a \cap DOMAIN b /\ j \in Nat /\ ~(i <= j)
        BY <1>1, <2>3
      <3>2. j \notin T
        BY <2>2, <3>1
      <3> QED
        BY <1>2, <3>1, <3>2
    <2>5. \A k \in T : (\A j \in 1..k - 1 : a[j] = b[j]) => k = i
      <3> SUFFICES ASSUME NEW k \in T, \A j \in 1..k - 1 : a[j] = b[j], k # i PROVE FALSE
        OBVIOUS
      <3>1. k \in Nat /\ i \in Nat /\ i <= k
        BY <2>1, <2>2
      <3>2. i \in 1..k - 1
        BY <2>3, <3>1
      <3> QED
        BY <2>3, <3>2
    <2>6. {k \in T : \A j \in 1..k - 1 : a[j] = b[j]} = {i}
      <3>1. i \in {k \in T : \A j \in 1..k - 1 : a[j] = b[j]}
        BY <2>4
      <3>2. \A k \in {m \in T : \A j \in 1..m - 1 : a[j] = b[j]} : k = i
        BY <2>5
      <3> QED
        BY <3>1, <3>2
    <2> QED
      BY <1>3, <2>3, <2>4, <2>6
  <1> QED
    BY <1>4, <1>5

\* The smallest of one number.
LEMMA OnlyOne ==
    ASSUME NEW i \in Nat
    PROVE  Min({i}) = i
  <1>1. PICK S : S = {i}
    OBVIOUS
  <1>2. S \in SUBSET Int /\ IsFiniteSet(S) /\ S # {}
    <2>1. IsFiniteSet({i})
      BY FS_Singleton
    <2> QED
      BY <1>1, <2>1
  <1>3. Min(S) \in S
    BY <1>2, SmallestIs
  <1> QED
    BY <1>1, <1>3

\* One sequence of identifiers after another: the first difference decides,
\* and what goes on is after what stops.
Later(a, b) ==
    \E i \in 1..Len(a) : /\ \A j \in 1..(i - 1) : j <= Len(b) /\ a[j] = b[j]
                         /\ i = Len(b) + 1 \/ (i <= Len(b) /\ a[i] > b[i])

\* comparePre is the order Later, and OrderOf is comparePre for equal lengths.
LEMMA PreIs ==
    ASSUME NEW a \in Seq(Nat), NEW b \in Seq(Nat)
    PROVE  /\ comparePre(a, b) \in {-1, 0, 1} /\ comparePre(a, b) = -comparePre(b, a)
           /\ comparePre(a, b) = 1 <=> Later(a, b)
           /\ comparePre(a, b) = 0 <=> a = b
           /\ Len(a) = Len(b) => OrderOf(a, b) = comparePre(a, b)
  <1>1. DOMAIN a = 1..Len(a) /\ DOMAIN b = 1..Len(b) /\ Len(a) \in Nat /\ Len(b) \in Nat
    BY LenProperties
  <1>2. (\A i \in 1..Len(a) : a[i] \in Nat) /\ \A i \in 1..Len(b) : b[i] \in Nat
    BY <1>1, ElementOfSeq
  <1>3. CASE FirstGap(a, b) = {} /\ FirstGap(b, a) = {} /\ \A i \in DOMAIN a \cap DOMAIN b : a[i] = b[i]
    <2>1. comparePre(a, b) = Sign(Len(a) - Len(b)) /\ comparePre(b, a) = Sign(Len(b) - Len(a)) /\ OrderOf(a, b) = 0
      BY <1>3 DEF comparePre, OrderOf
    <2>2. Len(a) > Len(b) => Later(a, b)
      <3> SUFFICES ASSUME Len(a) > Len(b) PROVE Later(a, b)
        OBVIOUS
      <3>1. Len(b) + 1 \in 1..Len(a)
        BY <1>1
      <3>2. \A j \in 1..((Len(b) + 1) - 1) : j <= Len(b) /\ a[j] = b[j]
        BY <1>1, <1>3
      <3> QED
        BY <3>1, <3>2 DEF Later
    <2>3. Later(a, b) => Len(a) > Len(b)
      <3> SUFFICES ASSUME Len(a) <= Len(b), NEW i \in 1..Len(a), i = Len(b) + 1 \/ (i <= Len(b) /\ a[i] > b[i]) PROVE FALSE
        BY <1>1 DEF Later
      <3>1. i \in 1..Len(b) /\ a[i] \in Nat
        BY <1>1, <1>2
      <3>2. a[i] = b[i]
        BY <1>1, <1>3, <3>1
      <3> QED
        BY <1>1, <3>1, <3>2
    <2>4. Len(a) = Len(b) => a = b
      <3> SUFFICES ASSUME Len(a) = Len(b) PROVE a = b
        OBVIOUS
      <3>1. \A i \in 1..Len(a) : a[i] = b[i]
        BY <1>1, <1>3
      <3> QED
        BY <3>1, SeqEqual
    <2>5. /\ Sign(Len(a) - Len(b)) \in {-1, 0, 1} /\ Sign(Len(a) - Len(b)) = -Sign(Len(b) - Len(a))
          /\ (Sign(Len(a) - Len(b)) = 1 <=> Len(a) > Len(b)) /\ (Sign(Len(a) - Len(b)) = 0 <=> Len(a) = Len(b))
      <3>1. PICK m \in Nat, n \in Nat : m = Len(a) /\ n = Len(b)
        BY <1>1
      <3> QED
        BY <3>1 DEF Sign
    <2> QED
      BY <2>1, <2>2, <2>3, <2>4, <2>5
  <1>4. ASSUME NEW i \in DOMAIN a \cap DOMAIN b,
               FirstGap(a, b) = {i} /\ FirstGap(b, a) = {i} /\ a[i] # b[i] /\ \A j \in 1..i - 1 : a[j] = b[j]
        PROVE  /\ comparePre(a, b) \in {-1, 0, 1} /\ comparePre(a, b) = -comparePre(b, a)
               /\ comparePre(a, b) = 1 <=> Later(a, b)
               /\ comparePre(a, b) = 0 <=> a = b
               /\ Len(a) = Len(b) => OrderOf(a, b) = comparePre(a, b)
    <2>1. i \in 1..Len(a) /\ i \in 1..Len(b) /\ i \in Nat /\ a[i] \in Nat /\ b[i] \in Nat
      BY <1>1, <1>2
    <2>2. Min({i}) = i
      BY <2>1, OnlyOne
    <2>3. comparePre(a, b) = Sign(a[i] - b[i]) /\ comparePre(b, a) = Sign(b[i] - a[i]) /\ OrderOf(a, b) = Sign(a[i] - b[i])
      BY <1>4, <2>2 DEF comparePre, OrderOf
    <2>4. /\ Sign(a[i] - b[i]) \in {-1, 0, 1} /\ Sign(a[i] - b[i]) = -Sign(b[i] - a[i])
          /\ (Sign(a[i] - b[i]) = 1 <=> a[i] > b[i]) /\ (Sign(a[i] - b[i]) = 0 <=> a[i] = b[i])
      <3>1. PICK m \in Nat, n \in Nat : m = a[i] /\ n = b[i]
        BY <2>1
      <3> QED
        BY <3>1 DEF Sign
    <2>5. a[i] > b[i] => Later(a, b)
      <3> SUFFICES ASSUME a[i] > b[i] PROVE Later(a, b)
        OBVIOUS
      <3>1. \A j \in 1..(i - 1) : j <= Len(b) /\ a[j] = b[j]
        BY <1>1, <1>4, <2>1
      <3>2. i \in 1..Len(a) /\ i <= Len(b)
        BY <1>1, <2>1
      <3> QED
        BY <3>1, <3>2 DEF Later
    <2>6. Later(a, b) => a[i] > b[i]
      <3> SUFFICES ASSUME NEW k \in 1..Len(a), \A j \in 1..(k - 1) : j <= Len(b) /\ a[j] = b[j],
                          k = Len(b) + 1 \/ (k <= Len(b) /\ a[k] > b[k])
                   PROVE  a[i] > b[i]
        BY DEF Later
      <3>1. k \in Nat /\ a[k] \in Nat
        BY <1>1, <1>2
      <3>2. ~(i < k)
        <4> SUFFICES ASSUME i < k PROVE FALSE
          OBVIOUS
        <4>1. i \in 1..(k - 1)
          BY <2>1, <3>1
        <4> QED
          BY <1>4, <4>1
      <3>3. k <= Len(b) /\ a[k] > b[k]
        BY <1>1, <2>1, <3>1, <3>2
      <3>4. CASE k < i
        <4>1. k \in 1..i - 1
          BY <2>1, <3>1, <3>4
        <4>2. a[k] = b[k]
          BY <1>4, <4>1
        <4> QED
          BY <3>1, <3>3, <4>2
      <3>5. CASE k = i
        BY <3>3, <3>5
      <3> QED
        BY <2>1, <3>1, <3>2, <3>4, <3>5
    <2>7. a # b
      BY <1>4
    <2> QED
      BY <1>4, <2>3, <2>4, <2>5, <2>6, <2>7
  <1> QED
    BY <1>3, <1>4, GapIs

\* Later is transitive: the earlier of the two first differences decides.
LEMMA LaterOn ==
    ASSUME NEW a \in Seq(Nat), NEW b \in Seq(Nat), NEW c \in Seq(Nat), Later(a, b), Later(b, c)
    PROVE  Later(a, c)
  <1>1. Len(a) \in Nat /\ Len(b) \in Nat /\ Len(c) \in Nat
    BY LenProperties
  <1>2. (\A i \in 1..Len(a) : a[i] \in Nat) /\ (\A i \in 1..Len(b) : b[i] \in Nat) /\ \A i \in 1..Len(c) : c[i] \in Nat
    BY ElementOfSeq
  <1>3. PICK i \in 1..Len(a) : /\ \A j \in 1..(i - 1) : j <= Len(b) /\ a[j] = b[j]
                               /\ i = Len(b) + 1 \/ (i <= Len(b) /\ a[i] > b[i])
    BY DEF Later
  <1>4. PICK k \in 1..Len(b) : /\ \A j \in 1..(k - 1) : j <= Len(c) /\ b[j] = c[j]
                               /\ k = Len(c) + 1 \/ (k <= Len(c) /\ b[k] > c[k])
    BY DEF Later
  <1>5. i \in Nat /\ k \in Nat
    BY <1>1
  <1>6. CASE i < k
    <2>1. i \in 1..(k - 1) /\ i \in 1..Len(b)
      BY <1>1, <1>5, <1>6
    <2>2. i <= Len(c) /\ b[i] = c[i] /\ i <= Len(b) /\ a[i] > b[i]
      BY <1>1, <1>3, <1>4, <1>5, <2>1
    <2>3. \A j \in 1..(i - 1) : j <= Len(c) /\ a[j] = c[j]
      <3> TAKE j \in 1..(i - 1)
      <3>1. j \in 1..(k - 1)
        BY <1>5, <1>6
      <3> QED
        BY <1>3, <1>4, <3>1
    <2> QED
      BY <2>2, <2>3 DEF Later
  <1>7. CASE k < i
    <2>1. k \in 1..(i - 1) /\ k \in 1..Len(a)
      BY <1>1, <1>5, <1>7
    <2>2. a[k] = b[k]
      BY <1>3, <2>1
    <2>3. \A j \in 1..(k - 1) : j <= Len(c) /\ a[j] = c[j]
      <3> TAKE j \in 1..(k - 1)
      <3>1. j \in 1..(i - 1)
        BY <1>5, <1>7
      <3> QED
        BY <1>3, <1>4, <3>1
    <2> QED
      BY <1>4, <2>1, <2>2, <2>3 DEF Later
  <1>8. CASE i = k
    <2>1. i <= Len(b) /\ a[i] > b[i] /\ a[i] \in Nat /\ b[i] \in Nat
      BY <1>1, <1>2, <1>3, <1>5, <1>8
    <2>2. i = Len(c) + 1 \/ (i <= Len(c) /\ a[i] > c[i])
      <3> SUFFICES ASSUME i <= Len(c), b[i] > c[i] PROVE a[i] > c[i]
        BY <1>4, <1>8
      <3>1. i \in 1..Len(c)
        BY <1>1, <1>5
      <3>2. PICK z \in Nat : z = c[i]
        BY <1>2, <3>1
      <3>3. PICK x \in Nat, y \in Nat : x = a[i] /\ y = b[i]
        BY <2>1
      <3>4. x > y /\ y > z
        BY <2>1, <3>2, <3>3
      <3>5. x > z
        BY <3>4
      <3> QED
        BY <3>2, <3>3, <3>5
    <2>3. \A j \in 1..(i - 1) : j <= Len(c) /\ a[j] = c[j]
      BY <1>3, <1>4, <1>8
    <2> QED
      BY <2>2, <2>3 DEF Later
  <1> QED
    BY <1>5, <1>6, <1>7, <1>8

\* A version has three numbers, or no number and no pre-release.
LEMMA VersionIs ==
    ASSUME NEW v \in Versions
    PROVE  /\ v.n \in Seq(Nat) /\ v.pre \in Seq(Nat) /\ v = [n |-> v.n, pre |-> v.pre]
           /\ (v.n = <<>> /\ v.pre = <<>> /\ Len(v.n) = 0) \/ (v.n # <<>> /\ Len(v.n) = 3)
  <1>1. CASE v = Unreleased
    <2>1. <<>> \in Seq(Nat) /\ Len(<<>>) = 0
      BY EmptySeq
    <2> QED
      BY <1>1, <2>1 DEF Unreleased
  <1>2. CASE v \in [n : [1..3 -> Nat], pre : Seq(Nat)]
    <2>1. v.n \in [1..3 -> Nat] /\ v.pre \in Seq(Nat) /\ v = [n |-> v.n, pre |-> v.pre]
      BY <1>2
    <2>2. \A f \in [1..3 -> Nat] : f \in Seq(Nat) /\ Len(f) = 3
      <3> TAKE f \in [1..3 -> Nat]
      <3>1. f \in Seq(Nat)
        <4>1. f \in UNION {[1..n -> Nat] : n \in Nat}
          OBVIOUS
        <4> QED
          BY <4>1, SeqDef
      <3>2. DOMAIN f = 1..3 /\ DOMAIN f = 1..Len(f) /\ Len(f) \in Nat
        BY <3>1, LenProperties
      <3>3. PICK n \in Nat : n = Len(f) /\ 1..3 = 1..n
        BY <3>2
      <3>4. n = 3
        <4>1. 3 \in 1..n /\ ~(4 \in 1..n)
          BY <3>3
        <4> QED
          BY <4>1
      <3> QED
        BY <3>1, <3>3, <3>4
    <2>3. v.n \in Seq(Nat) /\ Len(v.n) = 3
      BY <2>1, <2>2
    <2>4. v.n # <<>>
      BY <2>3, EmptySeq
    <2> QED
      BY <2>1, <2>3, <2>4
  <1> QED
    BY <1>1, <1>2 DEF Versions

\* Anything comes after nothing.
LEMMA LaterThanNone ==
    ASSUME NEW a \in Seq(Nat)
    PROVE  (Later(a, <<>>) <=> a # <<>>) /\ ~Later(<<>>, a)
  <1>1. Len(a) \in Nat /\ Len(<<>>) = 0
    BY LenProperties, EmptySeq
  <1>2. a # <<>> => Len(a) >= 1
    BY <1>1, EmptySeq
  <1>3. ~Later(<<>>, a)
    BY <1>1 DEF Later
  <1>4. a # <<>> => Later(a, <<>>)
    <2> SUFFICES ASSUME a # <<>> PROVE Later(a, <<>>)
      OBVIOUS
    <2>1. 1 \in 1..Len(a) /\ 1 = Len(<<>>) + 1
      BY <1>1, <1>2
    <2>2. \A j \in 1..(1 - 1) : j <= Len(<<>>) /\ a[j] = (<<>>)[j]
      OBVIOUS
    <2> QED
      BY <2>1, <2>2 DEF Later
  <1>5. \A b : b = <<>> => ~Later(b, <<>>)
    BY <1>1 DEF Later
  <1> QED
    BY <1>3, <1>4, <1>5

\* Version a is newer than b: its numbers are, or with the same numbers it is
\* the release of a pre-release or the later pre-release.
Newer(a, b) ==
    \/ Later(a.n, b.n)
    \/ a.n = b.n /\ b.pre # <<>> /\ (a.pre = <<>> \/ Later(a.pre, b.pre))

\* CompareVersions is the order Newer.
LEMMA CompareIs ==
    ASSUME NEW a \in Versions, NEW b \in Versions
    PROVE  /\ CompareVersions(a, b) \in {-1, 0, 1} /\ CompareVersions(a, b) = -CompareVersions(b, a)
           /\ (CompareVersions(a, b) = 1 <=> Newer(a, b)) /\ (CompareVersions(a, b) = 0 <=> a = b)
  <1>1. /\ a.n \in Seq(Nat) /\ a.pre \in Seq(Nat) /\ a = [n |-> a.n, pre |-> a.pre]
        /\ (a.n = <<>> /\ a.pre = <<>> /\ Len(a.n) = 0) \/ (a.n # <<>> /\ Len(a.n) = 3)
    BY VersionIs
  <1>2. /\ b.n \in Seq(Nat) /\ b.pre \in Seq(Nat) /\ b = [n |-> b.n, pre |-> b.pre]
        /\ (b.n = <<>> /\ b.pre = <<>> /\ Len(b.n) = 0) \/ (b.n # <<>> /\ Len(b.n) = 3)
    BY VersionIs
  <1>3. a = b <=> a.n = b.n /\ a.pre = b.pre
    BY <1>1, <1>2
  <1>4. CASE a.n = <<>> \/ b.n = <<>>
    <2>1. CompareVersions(a, b) = Sign(Len(a.n) - Len(b.n)) /\ CompareVersions(b, a) = Sign(Len(b.n) - Len(a.n))
      BY <1>4 DEF CompareVersions
    <2>5. PICK x \in Int, y \in Int : x = CompareVersions(a, b) /\ y = CompareVersions(b, a)
      <3>1. \A m \in Int : Sign(m) \in Int
        BY DEF Sign
      <3>2. Len(a.n) - Len(b.n) \in Int /\ Len(b.n) - Len(a.n) \in Int
        BY <1>1, <1>2
      <3>3. Sign(Len(a.n) - Len(b.n)) \in Int /\ Sign(Len(b.n) - Len(a.n)) \in Int
        BY <3>1, <3>2
      <3> QED
        BY <2>1, <3>3
    <2>2. CASE a.n = <<>> /\ b.n = <<>>
      <3>1. CompareVersions(a, b) = 0 /\ CompareVersions(b, a) = 0
        BY <1>1, <1>2, <2>1, <2>2 DEF Sign
      <3>2. ~Newer(a, b)
        BY <1>1, <1>2, <2>2, LaterThanNone DEF Newer
      <3>3. a = b
        BY <1>1, <1>2, <1>3, <2>2
      <3>4. x = 0 /\ y = 0
        BY <2>5, <3>1
      <3>5. x + y = 0 /\ x \in {-1, 0, 1}
        BY <3>4
      <3>6. x = -y
        BY <3>5
      <3>7. /\ x \in {-1, 0, 1} /\ (x = 1 <=> Newer(a, b)) /\ (x = 0 <=> a = b)
        BY <3>2, <3>3, <3>4
      <3> QED
        BY <2>5, <3>6, <3>7
    <2>3. CASE a.n = <<>> /\ b.n # <<>>
      <3>1. CompareVersions(a, b) = -1 /\ CompareVersions(b, a) = 1
        BY <1>1, <1>2, <2>1, <2>3 DEF Sign
      <3>2. ~Newer(a, b)
        BY <1>2, <2>3, LaterThanNone DEF Newer
      <3>3. a # b
        BY <2>3
      <3>4. x = -1 /\ y = 1
        BY <2>5, <3>1
      <3>5. x + y = 0 /\ x \in {-1, 0, 1}
        BY <3>4
      <3>6. x = -y
        BY <3>5
      <3>7. /\ x \in {-1, 0, 1} /\ (x = 1 <=> Newer(a, b)) /\ (x = 0 <=> a = b)
        BY <3>2, <3>3, <3>4
      <3> QED
        BY <2>5, <3>6, <3>7
    <2>4. CASE a.n # <<>> /\ b.n = <<>>
      <3>1. CompareVersions(a, b) = 1 /\ CompareVersions(b, a) = -1
        BY <1>1, <1>2, <2>1, <2>4 DEF Sign
      <3>2. Newer(a, b)
        BY <1>1, <2>4, LaterThanNone DEF Newer
      <3>3. a # b
        BY <2>4
      <3>4. x = 1 /\ y = -1
        BY <2>5, <3>1
      <3>5. x + y = 0 /\ x \in {-1, 0, 1}
        BY <3>4
      <3>6. x = -y
        BY <3>5
      <3>7. /\ x \in {-1, 0, 1} /\ (x = 1 <=> Newer(a, b)) /\ (x = 0 <=> a = b)
        BY <3>2, <3>3, <3>4
      <3> QED
        BY <2>5, <3>6, <3>7
    <2> QED
      BY <1>4, <2>2, <2>3, <2>4
  <1>5. CASE a.n # <<>> /\ b.n # <<>> /\ a.n # b.n
    <2>1. CompareVersions(a, b) = OrderOf(a.n, b.n) /\ CompareVersions(b, a) = OrderOf(b.n, a.n)
      BY <1>5 DEF CompareVersions
    <2>2. OrderOf(a.n, b.n) = comparePre(a.n, b.n) /\ OrderOf(b.n, a.n) = comparePre(b.n, a.n)
      BY <1>1, <1>2, <1>5, PreIs
    <2>3. /\ comparePre(a.n, b.n) \in {-1, 0, 1} /\ comparePre(a.n, b.n) = -comparePre(b.n, a.n)
          /\ (comparePre(a.n, b.n) = 1 <=> Later(a.n, b.n)) /\ (comparePre(a.n, b.n) = 0 <=> a.n = b.n)
      BY <1>1, <1>2, PreIs
    <2> QED
      BY <1>3, <1>5, <2>1, <2>2, <2>3 DEF Newer
  <1>6. CASE a.n # <<>> /\ a.n = b.n
    <2>0. ~Later(a.n, b.n)
      <3>1. comparePre(a.n, a.n) = -comparePre(a.n, a.n) /\ comparePre(a.n, a.n) \in {-1, 0, 1}
            /\ (comparePre(a.n, a.n) = 1 <=> Later(a.n, a.n))
        BY <1>1, PreIs
      <3> QED
        BY <1>6, <3>1
    <2>1. CASE a.pre = <<>> \/ b.pre = <<>>
      <3>1. CompareVersions(a, b) = Sign(Len(b.pre) - Len(a.pre)) /\ CompareVersions(b, a) = Sign(Len(a.pre) - Len(b.pre))
        BY <1>6, <2>1 DEF CompareVersions
      <3>2. /\ Len(a.pre) \in Nat /\ Len(b.pre) \in Nat
            /\ (Len(a.pre) = 0 <=> a.pre = <<>>) /\ (Len(b.pre) = 0 <=> b.pre = <<>>)
        BY <1>1, <1>2, LenProperties, EmptySeq
      <3>3. /\ CompareVersions(a, b) \in {-1, 0, 1} /\ CompareVersions(a, b) = -CompareVersions(b, a)
            /\ (CompareVersions(a, b) = 1 <=> Len(b.pre) > Len(a.pre)) /\ (CompareVersions(a, b) = 0 <=> Len(a.pre) = Len(b.pre))
        <4>1. PICK m \in Nat, n \in Nat : m = Len(a.pre) /\ n = Len(b.pre)
          BY <3>2
        <4>2. CompareVersions(a, b) = Sign(n - m) /\ CompareVersions(b, a) = Sign(m - n)
          BY <3>1, <4>1
        <4>3. /\ Sign(n - m) \in {-1, 0, 1} /\ Sign(n - m) = -Sign(m - n)
              /\ (Sign(n - m) = 1 <=> n > m) /\ (Sign(n - m) = 0 <=> m = n)
          BY DEF Sign
        <4> QED
          BY <4>1, <4>2, <4>3
      <3>4. Len(b.pre) > Len(a.pre) <=> b.pre # <<>> /\ a.pre = <<>>
        BY <2>1, <3>2
      <3>5. Len(a.pre) = Len(b.pre) <=> a.pre = b.pre
        BY <2>1, <3>2
      <3>6. Newer(a, b) <=> b.pre # <<>> /\ a.pre = <<>>
        BY <1>2, <1>6, <2>0, <2>1 DEF Newer
      <3> QED
        BY <1>3, <1>6, <3>3, <3>4, <3>5, <3>6
    <2>2. CASE a.pre # <<>> /\ b.pre # <<>>
      <3>1. CompareVersions(a, b) = comparePre(a.pre, b.pre) /\ CompareVersions(b, a) = comparePre(b.pre, a.pre)
        BY <1>6, <2>2 DEF CompareVersions
      <3>2. /\ comparePre(a.pre, b.pre) \in {-1, 0, 1} /\ comparePre(a.pre, b.pre) = -comparePre(b.pre, a.pre)
            /\ (comparePre(a.pre, b.pre) = 1 <=> Later(a.pre, b.pre)) /\ (comparePre(a.pre, b.pre) = 0 <=> a.pre = b.pre)
        BY <1>1, <1>2, PreIs
      <3>3. Newer(a, b) <=> Later(a.pre, b.pre)
        BY <1>6, <2>0, <2>2 DEF Newer
      <3> QED
        BY <1>3, <1>6, <3>1, <3>2, <3>3
    <2> QED
      BY <2>1, <2>2
  <1> QED
    BY <1>4, <1>5, <1>6

\* Newer is transitive.
LEMMA NewerOn ==
    ASSUME NEW a \in Versions, NEW b \in Versions, NEW c \in Versions, Newer(a, b), Newer(b, c)
    PROVE  Newer(a, c)
  <1>1. /\ a.n \in Seq(Nat) /\ b.n \in Seq(Nat) /\ c.n \in Seq(Nat)
        /\ a.pre \in Seq(Nat) /\ b.pre \in Seq(Nat) /\ c.pre \in Seq(Nat)
    BY VersionIs
  <1>2. CASE Later(a.n, b.n) /\ Later(b.n, c.n)
    <2>1. Later(a.n, c.n)
      BY <1>1, <1>2, LaterOn
    <2> QED
      BY <2>1 DEF Newer
  <1>3. CASE a.n = b.n /\ Later(b.n, c.n)
    BY <1>3 DEF Newer
  <1>4. CASE Later(a.n, b.n) /\ b.n = c.n
    BY <1>4 DEF Newer
  <1>5. CASE ~Later(a.n, b.n) /\ ~Later(b.n, c.n)
    <2>2. b.pre # <<>> /\ Later(b.pre, c.pre) /\ c.pre # <<>> /\ a.n = c.n
      BY <1>5 DEF Newer
    <2>3. a.pre # <<>> => Later(a.pre, c.pre)
      <3>1. a.pre # <<>> => Later(a.pre, b.pre)
        BY <1>5 DEF Newer
      <3> QED
        BY <1>1, <2>2, <3>1, LaterOn
    <2> QED
      BY <2>2, <2>3 DEF Newer
  <1> QED
    BY <1>2, <1>3, <1>4, <1>5 DEF Newer

\* The page's order of the numbers: those of a version that it puts first are
\* the server's too, unless neither is a release.
LEMMA PageIs ==
    ASSUME NEW a \in Versions, NEW b \in Versions
    PROVE  /\ ComparePage(a, b) \in {-1, 0, 1}
           /\ ComparePage(a, b) = 1 => Newer(a, b)
           /\ ComparePage(a, b) = -1 => Newer(b, a)
           /\ ComparePage(a, b) = 0 <=> NumbersOf(a) = NumbersOf(b)
  <1>1. PICK z : z = <<0, 0, 0>>
    OBVIOUS
  <1>2. z \in Seq(Nat) /\ Len(z) = 3 /\ z[1] = 0 /\ z[2] = 0 /\ z[3] = 0
    BY <1>1
  <1>3. /\ a.n \in Seq(Nat) /\ b.n \in Seq(Nat)
        /\ (a.n = <<>> /\ NumbersOf(a) = z) \/ (a.n # <<>> /\ Len(a.n) = 3 /\ NumbersOf(a) = a.n)
        /\ (b.n = <<>> /\ NumbersOf(b) = z) \/ (b.n # <<>> /\ Len(b.n) = 3 /\ NumbersOf(b) = b.n)
    BY <1>1, VersionIs DEF NumbersOf
  <1>4. NumbersOf(a) \in Seq(Nat) /\ NumbersOf(b) \in Seq(Nat) /\ Len(NumbersOf(a)) = Len(NumbersOf(b))
    BY <1>2, <1>3
  <1>5. PICK p \in Seq(Nat), q \in Seq(Nat) : p = NumbersOf(a) /\ q = NumbersOf(b) /\ Len(p) = Len(q)
    BY <1>4
  <1>6. ComparePage(a, b) = comparePre(p, q)
    BY <1>5, PreIs DEF ComparePage
  <1>7. /\ comparePre(p, q) \in {-1, 0, 1} /\ comparePre(p, q) = -comparePre(q, p)
        /\ (comparePre(p, q) = 1 <=> Later(p, q)) /\ (comparePre(p, q) = 0 <=> p = q)
        /\ (comparePre(q, p) = 1 <=> Later(q, p))
    BY PreIs
  <1>8. \A x \in Seq(Nat) : Len(x) = 3 => ~Later(z, x)
    <2> SUFFICES ASSUME NEW x \in Seq(Nat), Len(x) = 3, NEW i \in 1..Len(z),
                        i = Len(x) + 1 \/ (i <= Len(x) /\ z[i] > x[i])
                 PROVE  FALSE
      BY DEF Later
    <2>1. i \in 1..3 /\ z[i] = 0
      BY <1>2
    <2>2. x[i] \in Nat
      BY <2>1, ElementOfSeq
    <2> QED
      BY <2>1, <2>2
  <1>9. Later(p, q) => Newer(a, b)
    <2>1. Later(p, q) => a.n # <<>> /\ p = a.n
      BY <1>2, <1>3, <1>5, <1>8
    <2>2. CASE b.n = <<>>
      BY <1>3, <2>1, <2>2, LaterThanNone DEF Newer
    <2>3. CASE b.n # <<>>
      BY <1>3, <1>5, <2>1, <2>3 DEF Newer
    <2> QED
      BY <2>2, <2>3
  <1>10. Later(q, p) => Newer(b, a)
    <2>1. Later(q, p) => b.n # <<>> /\ q = b.n
      BY <1>2, <1>3, <1>5, <1>8
    <2>2. CASE a.n = <<>>
      BY <1>3, <2>1, <2>2, LaterThanNone DEF Newer
    <2>3. CASE a.n # <<>>
      BY <1>3, <1>5, <2>1, <2>3 DEF Newer
    <2> QED
      BY <2>2, <2>3
  <1>11. ComparePage(a, b) = -1 => comparePre(q, p) = 1
    <2>1. comparePre(q, p) \in {-1, 0, 1}
      BY PreIs
    <2>2. PICK m, n : m = comparePre(p, q) /\ n = comparePre(q, p)
      OBVIOUS
    <2>3. m \in {-1, 0, 1} /\ n \in {-1, 0, 1} /\ m = -n
      BY <1>7, <2>1, <2>2
    <2>4. m = -1 => n = 1
      BY <2>3
    <2> QED
      BY <1>6, <2>2, <2>4
  <1> QED
    BY <1>5, <1>6, <1>7, <1>9, <1>10, <1>11

\* All versions are ordered and shown as SomeVersions are: the order of the
\* server (CompareVersions) is an order, and the update card, which compares
\* the numbers only, does not contradict it.
THEOREM VersionsAlwaysAgree == VersionsOrdered(Versions)
  <1>1. ASSUME NEW a \in Versions, NEW b \in Versions
        PROVE  /\ CompareVersions(a, b) = -CompareVersions(b, a)
               /\ CompareVersions(a, b) = 0 => a = b
               /\ Card(a, b) = "newer than published" => CompareVersions(a, b) > 0
               /\ Card(a, b) = "newest" => NumbersOf(a) = NumbersOf(b)
    <2>1. /\ CompareVersions(a, b) \in {-1, 0, 1} /\ CompareVersions(b, a) \in {-1, 0, 1}
          /\ CompareVersions(a, b) = -CompareVersions(b, a)
          /\ (CompareVersions(a, b) = 0 <=> a = b)
      BY CompareIs
    <2>2. (CompareVersions(a, b) = 1 <=> Newer(a, b)) /\ (CompareVersions(b, a) = 1 <=> Newer(b, a))
      BY CompareIs
    <2>3. /\ ComparePage(a, b) \in {-1, 0, 1}
          /\ ComparePage(a, b) = 1 => Newer(a, b)
          /\ ComparePage(a, b) = -1 => Newer(b, a)
          /\ ComparePage(a, b) = 0 <=> NumbersOf(a) = NumbersOf(b)
      BY PageIs
    <2>4. Card(a, b) = "newer than published" => CompareVersions(a, b) > 0
      <3>1. Card(a, b) = "newer than published" => ComparePage(a, b) > 0
        BY DEF Card
      <3>2. ComparePage(a, b) > 0 => ComparePage(a, b) = 1
        BY <2>3
      <3> QED
        BY <2>2, <2>3, <3>1, <3>2
    <2>5. Card(a, b) = "newest" => NumbersOf(a) = NumbersOf(b)
      <3>1. Card(a, b) = "newest" => ~(CompareVersions(b, a) > 0) /\ ~(ComparePage(a, b) > 0)
        BY DEF Card
      <3> QED
        BY <2>2, <2>3, <3>1
    <2> QED
      BY <2>1, <2>4, <2>5
  <1>2. ASSUME NEW a \in Versions, NEW b \in Versions, NEW c \in Versions,
               CompareVersions(a, b) > 0, CompareVersions(b, c) > 0
        PROVE  CompareVersions(a, c) > 0
    <2>1. Newer(a, b)
      <3>1. CompareVersions(a, b) = 1
        BY <1>2, CompareIs
      <3> QED
        BY <3>1, CompareIs
    <2>2. Newer(b, c)
      <3>1. CompareVersions(b, c) = 1
        BY <1>2, CompareIs
      <3> QED
        BY <3>1, CompareIs
    <2>3. CompareVersions(a, c) = 1
      BY <2>1, <2>2, NewerOn, CompareIs
    <2> QED
      BY <2>3
  <1> QED
    BY <1>1, <1>2 DEF VersionsOrdered

-----------------------------------------------------------------------------
(* The composition: what holds of each screen holds of all side by side.   *)

LEMMA PanelsInit == Init => AccessInit /\ BayInit /\ FiguresInit /\ InventoryInit /\ MapViewInit /\ ServicesInit
  BY DEF Init

\* A step of one screen leaves the others alone.
LEMMA PanelsStep ==
    ASSUME [Next]_panels_vars
    PROVE  /\ [AccessNext]_access_vars /\ [BayNext]_bay_vars /\ [FiguresNext]_figures_vars
           /\ [InventoryNext]_inventory_vars /\ [MapViewNext]_mapview_vars /\ [ServicesNext]_services_vars
  BY DEF Next, InServices, panels_vars

\* Panels implements each of the screens it is composed of.
LEMMA PanelsImplement == Spec => AccessSpec /\ BaySpec /\ FiguresSpec /\ InventorySpec /\ MapViewSpec /\ ServicesSpec
  BY PanelsInit, PanelsStep, PTL DEF Spec, AccessSpec, BaySpec, FiguresSpec, InventorySpec, MapViewSpec, ServicesSpec

\* The map reads as it should while a behaviour works in it: what PanelsHold
\* says of the other screens.
THEOREM MapIsTrue ==
    Spec => []MapTrue
  <1>1. MapViewTypeOK /\ MapReads => MapTrue
    BY DEF MapTrue
  <1> QED
    BY <1>1, PanelsImplement, MapViewHolds, PTL

\* Side by side, and with whichever screen a behaviour works in, the ports, the
\* containers, the overview, the Software screen, the map and the services
\* hold: what is shown of them is true.
THEOREM PanelsHold ==
    Spec => [](PortsTrue /\ ContainersTrue /\ OverviewTrue /\ SoftwareTrue /\ MapTrue /\ ServicesTrue)
  <1>1. FiguresTypeOK /\ FiguresTrue => OverviewTrue
    BY DEF OverviewTrue
  <1> QED
    BY <1>1, PanelsImplement, PortsHold, ContainersHold, FiguresHold, SoftwareHolds, MapIsTrue, ServicesHold, PTL
=============================================================================
