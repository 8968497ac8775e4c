------------------------------ MODULE MCTargets ------------------------------
(***************************************************************************)
(* Targets for TLC: hosts and sources of both families, a name, and files  *)
(* that differ in their groups or in their routers.                        *)
(***************************************************************************)
EXTENDS Targets

Families == [s \in {"h4", "h6", "name", "s4", "t4", "s6"} |->
               CASE s \in {"h4", "s4", "t4"} -> 4
                 [] s \in {"h6", "s6"}       -> 6
                 [] OTHER                    -> 0]
SomeHosts == <<"h4", "name">>
NoFile == [routers |-> <<>>, targets |-> <<>>]

Link(name, source, source6) ==
  [name |-> name, source |-> source, source6 |-> source6, vpn |-> ""]
Rtr(name, links) ==
  [name |-> name, access |-> TRUE, sessions |-> Absent, links |-> links]

\* A group with nothing but hosts.
Plain(hosts) ==
  [router |-> "", host |-> "", hosts |-> hosts, network |-> Absent,
   links |-> {}, interval |-> Absent, count |-> 0, timeout |-> 0, local |-> 0,
   source |-> "", size |-> Absent, tos |-> 0, labels |-> <<>>]
Through(r, hosts) == [Plain(hosts) EXCEPT !.router = r]
File(routers, targets) == [routers |-> routers, targets |-> targets]

-----------------------------------------------------------------------------
\* Two routers whose links differ, in name, sources and families.
\* (two links may share a source, in different VPN instances)
LinksOfR1 == {<<Link("a", "s4", ""), Link("b", "s4", "s6")>>,
              <<Link("a", "s4", ""), Link("b", "", "s6")>>}
LinksOfR2 == <<Link("a", "s4", "s6")>>
TwoRouters == {<<Rtr("r1", ls), Rtr("r2", LinksOfR2)>> : ls \in LinksOfR1}

\* Which hosts, through what.
Where ==
  {[Through(r, <<>>) EXCEPT !.host = h, !.hosts = hs, !.network = n, !.links = ls] :
     r \in {"", "r1", "r2", "r3"}, h \in {"", "h4"},
     hs \in {<<>>, <<"h4">>, <<"h6">>, <<"name">>, <<"h4", "h6">>, <<"h4", "h4">>,
             <<"name", "h4">>},
     n \in {Absent, "ip4", "ip6", "tcp"}, ls \in {{}, {"a"}, {"b"}, {"a", "c"}}}

\* How often, how many.
When ==
  {[Through(r, <<"h4">>) EXCEPT !.interval = i, !.count = c, !.timeout = t, !.local = l,
                                !.size = s, !.source = src] :
     r \in {"", "r1"}, i \in {Absent, 0, 1, 5}, c \in {-1, 0, 3},
     t \in {0, 100}, l \in {-1, 0, 90}, s \in {Absent, 20, 1500}, src \in {"", "t4"}}

\* Pairs: the same host in two groups, of one router or two, with labels.
Some ==
  {[Through(r, hs) EXCEPT !.network = n, !.labels = lb] :
     r \in {"", "r1", "r2"}, hs \in {<<"h4">>, <<"name">>, <<"h6", "name">>},
     n \in {Absent, "ip6"}, lb \in {<<>>, [dc |-> "x"], [link |-> "a", dc |-> ""]}}

GroupFiles ==
  {File(rs, <<tg>>) : rs \in TwoRouters, tg \in Where \cup When}
    \cup {File(rs, <<tg, th>>) : rs \in TwoRouters, tg, th \in Some}

-----------------------------------------------------------------------------
AnyLink == [name : {"", "a", "b"}, source : {"", "s4", "s6", "name"},
            source6 : {"", "s4", "s6"}, vpn : {"", "safe", "unsafe"}]
SomeLinks == {<<>>} \cup {<<l>> : l \in AnyLink}
               \cup {<<l, Link("b", "t4", "")>> : l \in {x \in AnyLink : x.vpn = ""}}
AnyRouter ==
  {[Rtr("r1", ls) EXCEPT !.sessions = n] : ls \in SomeLinks, n \in {Absent, 2}}
    \cup [name : {"", "r1"}, access : BOOLEAN, sessions : {Absent, -1, 0, 1},
          links : {LinksOfR2}]

RouterFiles ==
  {File(rs, <<[Through("r1", hs) EXCEPT !.network = n]>>) :
     rs \in {<<r>> : r \in AnyRouter}
              \cup {<<r, Rtr("r2", LinksOfR2)>> : r \in AnyRouter}
              \cup {<<Rtr("r2", LinksOfR2), r>> : r \in AnyRouter}
              \cup {<<Rtr("r1", LinksOfR2), r>> : r \in AnyRouter},
     hs \in {<<"h4">>, <<"h6">>, <<"h4", "h6">>, <<"name">>}, n \in {Absent, "ip6"}}

AnyFiles == GroupFiles \cup RouterFiles
=============================================================================
