---------------------------- MODULE TargetsProofs -----------------------------
(***************************************************************************)
(* Proofs about the way from the file to the pingers and the schedulers,   *)
(* for any files, hosts, addresses and DNS answers.                        *)
(***************************************************************************)
EXTENDS Targets, SequenceTheorems, TLAPS

-----------------------------------------------------------------------------
(***************************************************************************)
(* Decoding keeps the form of a file.                                      *)
(***************************************************************************)
LEMMA ListLength ==
  ASSUME NEW s, IsList(s)
  PROVE  Len(s) \in Nat /\ DOMAIN s = 1 .. Len(s) /\ \A i \in 1 .. Len(s) : s[i] \in ToSet(s)
BY LenProperties DEF IsList, ToSet

LEMMA DecodedGroup ==
  ASSUME NEW g, GroupForm(g)
  PROVE  /\ GroupForm(DecodeGroup(g))
         /\ DecodeGroup(g).router = g.router /\ DecodeGroup(g).source = g.source
         /\ DecodeGroup(g).interval = DecodeInterval(g)
         /\ DecodeGroup(g).local =
              IF g.router = "" THEN g.local ELSE NonZero(g.local, DefaultInterval)
         /\ DecodeGroup(g).interval \in Int
<1> DEFINE plain == [g EXCEPT
                  !.hosts    = IF g.host # "" /\ @ = <<>> THEN <<g.host>> ELSE @,
                  !.network  = OrDefault(@, "ip"),
                  !.size     = OrDefault(@, DefaultSize),
                  !.interval = DecodeInterval(g)]
           remote == [plain EXCEPT
            !.count   = NonZero(@, DefaultRemoteCount),
            !.timeout = NonZero(@, DefaultRemoteTimeout),
            !.local   = NonZero(@, DefaultInterval)]
<1>1. DecodeInterval(g) \in Int
  <2>1. g.interval \in Int \/ g.interval = Absent
    BY DEF GroupForm, MaybeInt
  <2> QED BY <2>1 DEF DecodeInterval, OrDefault, DefaultInterval, DefaultRemoteInterval
<1>2. /\ DOMAIN plain = DOMAIN g
      /\ plain.router = g.router /\ plain.source = g.source /\ plain.host = g.host
      /\ plain.interval = DecodeInterval(g)
      /\ plain.local = g.local /\ plain.count = g.count /\ plain.timeout = g.timeout
      /\ plain.hosts = IF g.host # "" /\ g.hosts = <<>> THEN <<g.host>> ELSE g.hosts
  BY DEF GroupForm
<1>3. GroupForm(plain)
  <2>1. plain.hosts \in Seq(DOMAIN Family)
    <3>1. g.hosts \in Seq(DOMAIN Family) /\ g.host \in DOMAIN Family \cup {""}
      BY DEF GroupForm
    <3>2. g.host # "" => <<g.host>> \in Seq(DOMAIN Family)
      <4> SUFFICES ASSUME g.host \in DOMAIN Family PROVE <<g.host>> \in Seq(DOMAIN Family)
        BY <3>1
      <4> QED OBVIOUS
    <3> HIDE DEF plain
    <3> QED BY <1>2, <3>1, <3>2
  <2> HIDE DEF plain
  <2> QED BY <1>1, <1>2, <2>1 DEF GroupForm, MaybeInt
<1> HIDE DEF plain
<1>4. /\ DOMAIN remote = DOMAIN plain
      /\ remote.router = plain.router /\ remote.source = plain.source
      /\ remote.interval = plain.interval /\ remote.host = plain.host
      /\ remote.hosts = plain.hosts
      /\ remote.local = NonZero(plain.local, DefaultInterval)
      /\ remote.count = NonZero(plain.count, DefaultRemoteCount)
      /\ remote.timeout = NonZero(plain.timeout, DefaultRemoteTimeout)
  BY <1>3 DEF GroupForm
<1>5. GroupForm(remote)
  <2> HIDE DEF remote
  <2>1. plain.count \in Int /\ plain.timeout \in Int /\ plain.local \in Int
    BY <1>3 DEF GroupForm
  <2>2. {remote.count, remote.timeout, remote.local} \subseteq Int
    BY <1>4, <2>1
       DEF NonZero, DefaultInterval, DefaultRemoteCount, DefaultRemoteTimeout
  <2> QED BY <1>3, <1>4, <2>2 DEF GroupForm
<1>6. DecodeGroup(g) = IF g.router = "" THEN plain ELSE remote
  BY DEF DecodeGroup, plain
<1> HIDE DEF remote
<1> QED BY <1>1, <1>2, <1>3, <1>4, <1>5, <1>6

LEMMA ListLike ==
  ASSUME NEW s, IsList(s), NEW t, DOMAIN t = DOMAIN s, t = [i \in DOMAIN s |-> t[i]]
  PROVE  IsList(t) /\ Len(t) = Len(s)
<1>1. /\ Len(s) \in Nat /\ DOMAIN t = 1 .. Len(s)
      /\ t \in [1 .. Len(s) -> ToSet(t)]
  BY ListLength DEF ToSet
<1> QED BY <1>1 DEF IsList

LEMMA DecodedRouter ==
  ASSUME NEW r, RouterForm(r)
  PROVE  RouterForm(DecodeRouter(r))
<1>1. /\ DOMAIN DecodeRouter(r) = DOMAIN r
      /\ DecodeRouter(r).links = r.links
      /\ DecodeRouter(r).sessions = OrDefault(r.sessions, DefaultRouterSessions)
  BY DEF RouterForm, DecodeRouter
<1>2. OrDefault(r.sessions, DefaultRouterSessions) \in MaybeInt
  BY DEF RouterForm, OrDefault, MaybeInt, DefaultRouterSessions
<1> QED BY <1>1, <1>2 DEF RouterForm

LEMMA DecodedConfig ==
  ASSUME NEW f, ConfigForm(f)
  PROVE  /\ ConfigForm(Decode(f))
         /\ Len(Decode(f).targets) = Len(f.targets)
         /\ \A i \in DOMAIN f.targets : /\ Decode(f).targets[i] = DecodeGroup(f.targets[i])
                                        /\ GroupForm(f.targets[i])
<1> DEFINE rs == Decode(f).routers
           ts == Decode(f).targets
<1>1. /\ rs = [i \in DOMAIN f.routers |-> DecodeRouter(f.routers[i])]
      /\ ts = [i \in DOMAIN f.targets |-> DecodeGroup(f.targets[i])]
  BY DEF Decode
<1>2. /\ \A i \in DOMAIN f.routers : RouterForm(f.routers[i])
      /\ \A i \in DOMAIN f.targets : GroupForm(f.targets[i])
      /\ IsList(f.routers) /\ IsList(f.targets)
  BY DEF ConfigForm, ToSet
<1> HIDE DEF rs, ts
<1>3. IsList(rs)
  BY <1>1, <1>2, ListLike
<1>4. IsList(ts) /\ Len(ts) = Len(f.targets)
  BY <1>1, <1>2, ListLike
<1>5. \A r \in ToSet(rs) : RouterForm(r)
  BY <1>1, <1>2, DecodedRouter DEF ToSet
<1>6. \A g \in ToSet(ts) : GroupForm(g)
  BY <1>1, <1>2, DecodedGroup DEF ToSet
<1> QED BY <1>1, <1>2, <1>3, <1>4, <1>5, <1>6 DEF ConfigForm, rs, ts

-----------------------------------------------------------------------------
(***************************************************************************)
(* Type correctness, and which configuration prepare works on.             *)
(***************************************************************************)
InForce ==
  /\ pc = "validate" => cfg = Decode(file)
  /\ pc \in {"read", "validate"} => at = 0
  /\ Accepted => \/ sc.routers = <<>> /\ sc.targets = <<>>
                 \/ sc = Decode(file) /\ Valid(sc)

Typed == TypeOK /\ ConfigForm(sc) /\ InForce

\* A group of the configuration in force, decoded.
LEMMA GroupInForce ==
  ASSUME Typed, Accepted, NEW i \in 1 .. Len(sc.targets)
  PROVE  /\ GroupForm(sc.targets[i])
         /\ i \in DOMAIN file.targets
         /\ sc.targets[i] = DecodeGroup(file.targets[i])
         /\ sc.targets[i].interval \in Int
         /\ sc.targets[i].local \in Int
         /\ Valid(sc)
<1>1. IsList(sc.targets) /\ sc.targets # <<>> /\ i \in DOMAIN sc.targets
  BY ListLength DEF Typed, ConfigForm
<1>2. sc = Decode(file) /\ Valid(sc) /\ ConfigForm(file)
  BY <1>1 DEF Typed, InForce, TypeOK
<1>3. i \in DOMAIN file.targets
  BY <1>2, DecodedConfig, ListLength DEF ConfigForm
<1>4. sc.targets[i] = DecodeGroup(file.targets[i]) /\ GroupForm(file.targets[i])
  BY <1>2, <1>3, DecodedConfig
<1>5. GroupForm(sc.targets[i]) /\ sc.targets[i].interval \in Int
  BY <1>4, DecodedGroup
<1>6. sc.targets[i].local \in Int
  BY <1>5 DEF GroupForm
<1> QED BY <1>2, <1>3, <1>4, <1>5, <1>6

LEMMA LargerOfTwo ==
  ASSUME NEW a \in Int, NEW b \in Int
  PROVE  /\ Max({a, b}) \in {a, b} /\ Max({a, b}) >= a /\ Max({a, b}) >= b
<1>1. \E x \in {a, b} : \A y \in {a, b} : x >= y
  OBVIOUS
<1> QED BY <1>1 DEF Max

LEMMA LocalIntervalIsInt ==
  ASSUME Typed, Accepted, NEW i \in 0 .. Len(sc.targets)
  PROVE  LocalInterval(GroupAt(i)) \in Int
<1>1. CASE i = 0
  BY <1>1 DEF GroupAt, CliGroup, LocalInterval, CliInterval
<1>2. CASE i # 0
  <2>1. i \in 1 .. Len(sc.targets)
    BY <1>2, ListLength DEF Typed, ConfigForm
  <2> QED BY <1>2, <2>1, GroupInForce DEF GroupAt, LocalInterval
<1> QED BY <1>1, <1>2

LEMMA TypedInit == Init => Typed
<1>1. Len(Previous.targets) \in Nat
  BY PreviousAssumption, ListLength DEF ConfigForm
<1> QED BY <1>1, FilesAssumption, PreviousAssumption
        DEF Init, Typed, TypeOK, InForce, Accepted

LEMMA TypedNext == Typed /\ [Next]_vars => Typed'
<1> SUFFICES ASSUME Typed, [Next]_vars PROVE Typed'
  OBVIOUS
<1> USE DEF Typed, TypeOK, InForce, Accepted
<1>1. CASE Read
  BY <1>1, DecodedConfig DEF Read, working
<1>2. CASE FileMissing
  BY <1>2 DEF FileMissing, working
<1>3. CASE Reject
  BY <1>3 DEF Reject, working
<1>4. CASE Accept
  BY <1>4, ListLength DEF Accept, working, ConfigForm
<1>5. CASE CliHosts
  BY <1>5, ListLength DEF CliHosts, CliInterval, ConfigForm
<1>6. CASE CliFails
  BY <1>6 DEF CliFails, Fails, working
<1>7. CASE MakeSchedulers
  BY <1>7 DEF MakeSchedulers
<1>8. CASE DialerFails
  BY <1>8 DEF DialerFails, Fails, working
<1>9. ASSUME NEW i \in 1 .. Len(sc.targets), RemoteTargets(i) PROVE Typed'
  BY <1>9 DEF RemoteTargets, AtGroup
<1>10. ASSUME NEW i \in 1 .. Len(sc.targets), NoRouter(i) PROVE Typed'
  BY <1>10 DEF NoRouter, AtGroup, working
<1>11. ASSUME NEW i \in 1 .. Len(sc.targets), LocalProbes(i) PROVE Typed'
  <2>1. i \in 0 .. Len(sc.targets) /\ Len(sc.targets) \in Nat
    BY ListLength DEF ConfigForm
  <2>2. LocalInterval(GroupAt(i)) \in Int
    BY <1>11, <2>1, LocalIntervalIsInt DEF LocalProbes
  <2>3. maxInterval' \in Nat
    <3> DEFINE own == LocalInterval(GroupAt(i))
    <3>1. maxInterval' = Max({maxInterval, own}) /\ maxInterval \in Nat
      BY <1>11 DEF LocalProbes
    <3>2. own \in Int /\ maxInterval \in Int
      BY <2>2, <3>1
    <3> HIDE DEF own
    <3>3. Max({maxInterval, own}) \in {maxInterval, own} /\ Max({maxInterval, own}) >= maxInterval
      BY <3>2, LargerOfTwo
    <3> QED BY <3>1, <3>2, <3>3
  <2> QED BY <1>11, <2>1, <2>3 DEF LocalProbes
<1>12. ASSUME NEW i \in 1 .. Len(sc.targets), SizeFails(i) \/ BuildFails(i) \/ LocalFails(i)
       PROVE  Typed'
  BY <1>12 DEF SizeFails, BuildFails, LocalFails, AtGroup, Fails, working
<1>13. CASE UNCHANGED vars
  BY <1>13 DEF vars
<1> QED
  BY <1>1, <1>2, <1>3, <1>4, <1>5, <1>6, <1>7, <1>8, <1>9, <1>10, <1>11, <1>12, <1>13
     DEF Next

LEMMA AlwaysTyped == Spec => []Typed
BY TypedInit, TypedNext, PTL DEF Spec

\* Every variable keeps its type, and prepare works on the configuration in
\* force: the previous one, or one that was decoded and that Validate accepted
\* (config.go:130-160).
THEOREM TargetsTypes == Spec => []TypeOK
BY AlwaysTyped, PTL DEF Typed

-----------------------------------------------------------------------------
(***************************************************************************)
(* Validate and BuildTargets decide alike.                                 *)
(***************************************************************************)
LEMMA Address ==
  ASSUME NEW host, NEW network, Answers(host, network) # {}
  PROVE  /\ Resolve(host, network).family \in Answers(host, network)
         /\ Resolve(host, network).family \in {4, 6} \cap Wanted(network)
<1>1. Answers(host, network) \subseteq {4, 6} \cap Wanted(network)
  BY DEF Answers, Wanted
<1>2. \E x \in Answers(host, network) : \A y \in Answers(host, network) : x =< y
  BY <1>1
<1>3. Min(Answers(host, network)) \in Answers(host, network)
  BY <1>2 DEF Min
<1> QED BY <1>1, <1>3 DEF Resolve

\* Names are unique, so Config.Router finds the router of that name.
LEMMA TheRouter ==
  ASSUME NEW c, IsList(c.routers), NamesDiffer(c.routers), NEW j \in DOMAIN c.routers
  PROVE  RouterOf(c, c.routers[j].name) = c.routers[j]
<1> DEFINE found == {i \in DOMAIN c.routers : c.routers[i].name = c.routers[j].name}
<1>1. found = {j}
  BY DEF NamesDiffer
<1>2. j \in Int
  BY ListLength
<1>3. Min(found) = j
  BY <1>1, <1>2 DEF Min
<1> QED BY <1>3 DEF RouterOf

LEMMA RemoteGroup ==
  ASSUME Typed, Accepted, NEW i \in 1 .. Len(sc.targets), Remote(sc.targets[i])
  PROVE  /\ ValidRemote(sc, sc.targets[i])
         /\ \E j \in DOMAIN sc.routers :
              /\ sc.routers[j].name = sc.targets[i].router
              /\ RouterOf(sc, sc.targets[i].router) = sc.routers[j]
              /\ ValidRouter(sc.routers[j])
<1>1. Valid(sc) /\ IsList(sc.routers) /\ i \in DOMAIN sc.targets
  BY GroupInForce, ListLength DEF Typed, ConfigForm
<1>2. ValidRemote(sc, sc.targets[i])
  BY <1>1 DEF Valid, ToSet, Remote
<1>3. PICK j \in DOMAIN sc.routers : sc.routers[j].name = sc.targets[i].router
  BY <1>2 DEF ValidRemote, HasName
<1>4. RouterOf(sc, sc.targets[i].router) = sc.routers[j]
  BY <1>1, <1>3, TheRouter DEF Valid
<1>5. ValidRouter(sc.routers[j])
  BY <1>1 DEF Valid, ToSet
<1> QED BY <1>2, <1>3, <1>4, <1>5

LEMMA AddressHasLink ==
  ASSUME Typed, Accepted, NEW i \in 1 .. Len(sc.targets), Remote(sc.targets[i]),
         NEW k \in DOMAIN sc.targets[i].hosts,
         Answers(sc.targets[i].hosts[k], sc.targets[i].network) # {},
         Literal(sc.targets[i].hosts[k]) \/ sc.targets[i].network # "ip"
  PROVE  TargetsOf(i, k) # {}
<1> DEFINE tg     == sc.targets[i]
           host   == tg.hosts[k]
           links  == SelectLinks(RouterOf(sc, tg.router), tg.links)
           family == Resolve(host, tg.network).family
<1>1. SourcesSuffice(tg, RouterOf(sc, tg.router)) /\ tg.network \in {"ip", "ip4", "ip6"}
  BY RemoteGroup DEF ValidRemote
<1>2. family \in Answers(host, tg.network) /\ family \in {4, 6} \cap Wanted(tg.network)
  BY Address
<1>3. host \in ToSet(tg.hosts)
  BY DEF ToSet
<1>4. tg.network = "ip" => Family[host] = family
  BY <1>2 DEF Answers
<1>5. tg.network \in {"ip4", "ip6"} => family = IF tg.network = "ip4" THEN 4 ELSE 6
  BY <1>2 DEF Wanted
<1> HIDE DEF family
<1>6. \E l \in links : SourceOf(l, family) # ""
  <2>1. CASE family = 4
    <3>1. tg.network = "ip4" \/ (tg.network = "ip" /\ \E h \in ToSet(tg.hosts) : Family[h] = 4)
      BY <1>1, <1>3, <1>4, <1>5, <2>1
    <3>2. PICK l \in links : l.source # ""
      BY <1>1, <3>1 DEF SourcesSuffice
    <3>3. SourceOf(l, family) = l.source
      BY <2>1 DEF SourceOf
    <3> QED BY <3>2, <3>3
  <2>2. CASE family = 6
    <3>1. tg.network = "ip6" \/ (tg.network = "ip" /\ \E h \in ToSet(tg.hosts) : Family[h] = 6)
      BY <1>1, <1>3, <1>4, <1>5, <2>2
    <3>2. PICK l \in links : l.source6 # ""
      BY <1>1, <3>1 DEF SourcesSuffice
    <3>3. SourceOf(l, family) = l.source6
      BY <2>2 DEF SourceOf
    <3> QED BY <3>2, <3>3
  <2> QED BY <1>2, <2>1, <2>2
<1> QED BY <1>6 DEF TargetsOf, Target, family

\* What Validate accepts BuildTargets can build: a host that has an address can
\* only be left without a link when it is a name whose family nobody asked
\* for (config.go:277-300, targets.go:61-99).
THEOREM ValidGroupsBuild == Spec => []AcceptedGroupsBuild
<1>1. ASSUME Typed PROVE AcceptedGroupsBuild
  <2> SUFFICES ASSUME Accepted,
                      NEW i \in DOMAIN sc.targets, NEW k \in DOMAIN sc.targets[i].hosts,
                      Remote(sc.targets[i]),
                      Answers(sc.targets[i].hosts[k], sc.targets[i].network) # {},
                      TargetsOf(i, k) = {}
               PROVE  ~Literal(sc.targets[i].hosts[k]) /\ sc.targets[i].network = "ip"
    BY DEF AcceptedGroupsBuild
  <2>1. i \in 1 .. Len(sc.targets)
    BY <1>1, ListLength DEF Typed, ConfigForm
  <2> QED BY <1>1, <2>1, AddressHasLink
<1> QED BY <1>1, AlwaysTyped, PTL

-----------------------------------------------------------------------------
(***************************************************************************)
(* What prepare has collected when it is at a group: the pingers of every  *)
(* group before it, and the targets of every router group it has passed.   *)
(***************************************************************************)
Preparing == pc \in {"group", "local", "done"}

Progress ==
  /\ Preparing => at \in 1 .. Len(sc.targets) + 1
  /\ pc = "local" => at \in DOMAIN sc.targets
  /\ pc = "done" => at = Len(sc.targets) + 1

PingersCollected ==
  Preparing => /\ probes = UNION {Probes(i) : i \in 0 .. at - 1}
               /\ \A i \in 0 .. at - 1 : Resolves(i)

Built == IF pc = "local" THEN at ELSE at - 1
TargetsCollected ==
  Preparing =>
    /\ DOMAIN byRouter = {r.name : r \in ToSet(sc.routers)}
    /\ \A n \in DOMAIN byRouter :
         byRouter[n] = UNION {BuildTargets(i) : i \in {j \in 1 .. Built : sc.targets[j].router = n}}
    /\ \A i \in 1 .. Built : Remote(sc.targets[i]) =>
         \A k \in DOMAIN sc.targets[i].hosts : Builds(i, k)

Longest ==
  Preparing => /\ maxInterval \in {LocalInterval(GroupAt(i)) : i \in 0 .. at - 1}
               /\ \A i \in 0 .. at - 1 : maxInterval >= LocalInterval(GroupAt(i))

SchedulersMade ==
  /\ pc # "done" => schedulers = <<>>
  /\ pc = "done" =>
       schedulers = [k \in {k \in DOMAIN sc.routers : byRouter[sc.routers[k].name] # {}} |->
                       [router |-> sc.routers[k].name, sessions |-> sc.routers[k].sessions,
                        targets |-> byRouter[sc.routers[k].name]]]

Collected == Progress /\ PingersCollected /\ TargetsCollected /\ Longest /\ SchedulersMade

\* What a group asks for depends on the configuration and the answers of DNS.
LEMMA FixedProbes ==
  ASSUME UNCHANGED <<dns, sc>>, NEW i
  PROVE  Probes(i)' = Probes(i) /\ (Resolves(i)' <=> Resolves(i))
BY DEF Probes, Probe, Resolves, GroupAt, CliGroup, Resolve, Answers, Wanted, LocalInterval

LEMMA FixedTargets ==
  ASSUME UNCHANGED <<dns, sc>>, NEW i
  PROVE  /\ BuildTargets(i)' = BuildTargets(i)
         /\ \A k : Builds(i, k)' <=> Builds(i, k)
BY DEF BuildTargets, Builds, TargetsOf, Target, RouterOf, Resolve, Answers, Wanted, SourceOf

LEMMA Lengths ==
  ASSUME Typed
  PROVE  Len(sc.targets) \in Nat /\ DOMAIN sc.targets = 1 .. Len(sc.targets)
BY ListLength DEF Typed, ConfigForm

\* Every step but the decoding and Accept works on a fixed configuration.
LEMMA FixedConfig ==
  ASSUME [Next]_vars, Preparing'
  PROVE  UNCHANGED <<dns, file, sc>>
BY DEF Next, Read, FileMissing, Reject, Accept, CliHosts, CliFails, MakeSchedulers, DialerFails,
   RemoteTargets, NoRouter, LocalProbes, SizeFails, BuildFails, LocalFails, Fails, vars,
   Preparing

LEMMA ProgressNext == Typed /\ Progress /\ [Next]_vars => Progress'
<1> SUFFICES ASSUME Typed, Progress, [Next]_vars, Preparing' PROVE Progress'
  BY DEF Progress, Preparing
<1> USE Lengths DEF Progress, Preparing
<1>1. UNCHANGED <<dns, file, sc>>
  BY FixedConfig
<1>2. CASE CliHosts
  BY <1>1, <1>2 DEF CliHosts
<1>3. CASE MakeSchedulers
  BY <1>1, <1>3 DEF MakeSchedulers
<1>4. ASSUME NEW i \in 1 .. Len(sc.targets), RemoteTargets(i) \/ NoRouter(i) PROVE Progress'
  BY <1>1, <1>4 DEF RemoteTargets, NoRouter, AtGroup, working
<1>5. ASSUME NEW i \in 1 .. Len(sc.targets), LocalProbes(i) PROVE Progress'
  BY <1>1, <1>5 DEF LocalProbes
<1>6. CASE UNCHANGED vars
  BY <1>6 DEF vars
<1> QED
  BY <1>2, <1>3, <1>4, <1>5, <1>6
     DEF Next, Read, FileMissing, Reject, Accept, CliFails, DialerFails, SizeFails, BuildFails,
         LocalFails, Fails

LEMMA PingersNext == Typed /\ Progress /\ PingersCollected /\ [Next]_vars => PingersCollected'
<1> SUFFICES ASSUME Typed, Progress, PingersCollected, [Next]_vars, Preparing'
             PROVE  PingersCollected'
  BY DEF PingersCollected, Preparing
<1> USE Lengths DEF PingersCollected, Preparing, Progress
<1>1. UNCHANGED <<dns, sc>>
  BY FixedConfig
<1>2. CASE CliHosts
  BY <1>1, <1>2, FixedProbes DEF CliHosts
<1>3. CASE UNCHANGED <<probes, at>> /\ Preparing
  BY <1>1, <1>3, FixedProbes
<1>4. ASSUME NEW i \in 1 .. Len(sc.targets), LocalProbes(i) PROVE PingersCollected'
  <2>1. at' - 1 = i /\ at = i /\ 0 .. i = (0 .. i - 1) \cup {i}
    BY <1>4 DEF LocalProbes
  <2>2. probes' = UNION {Probes(j) : j \in 0 .. i} /\ \A j \in 0 .. i : Resolves(j)
    BY <1>4, <2>1 DEF LocalProbes
  <2> QED BY <1>1, <2>1, <2>2, FixedProbes
<1> QED
  BY <1>2, <1>3, <1>4
     DEF Next, Read, FileMissing, Reject, Accept, CliFails, MakeSchedulers, DialerFails,
         RemoteTargets, NoRouter, AtGroup, SizeFails, BuildFails, LocalFails, Fails, working, vars

LEMMA RoutersAreNamed ==
  ASSUME Typed, Accepted, NEW i \in 1 .. Len(sc.targets), NEW r \in ToSet(sc.routers)
  PROVE  r.name # ""
BY GroupInForce DEF Valid, ValidRouter

LEMMA TargetsNext == Typed /\ Progress /\ TargetsCollected /\ [Next]_vars => TargetsCollected'
<1> SUFFICES ASSUME Typed, Progress, TargetsCollected, [Next]_vars, Preparing'
             PROVE  TargetsCollected'
  BY DEF TargetsCollected, Preparing
<1> USE Lengths DEF TargetsCollected, Preparing, Progress
<1>1. /\ UNCHANGED <<dns, sc>>
      /\ \A j : BuildTargets(j)' = BuildTargets(j)
      /\ \A j, k : Builds(j, k)' <=> Builds(j, k)
  BY FixedConfig, FixedTargets
<1>2. CASE CliHosts
  BY <1>1, <1>2 DEF CliHosts, Built
<1>3. CASE UNCHANGED <<byRouter, Built>> /\ Preparing
  <2>1. /\ \A n \in DOMAIN byRouter :
             byRouter[n] = UNION {BuildTargets(j)' : j \in {l \in 1 .. Built : sc.targets[l].router = n}}
        /\ \A j \in 1 .. Built : Remote(sc.targets[j]) =>
             \A k \in DOMAIN sc.targets[j].hosts : Builds(j, k)'
    BY <1>1, <1>3
  <2>2. DOMAIN byRouter = {r.name : r \in ToSet(sc.routers)}
    BY <1>3
  <2>3. DOMAIN byRouter' = {r.name : r \in ToSet(sc'.routers)}
    BY <1>1, <1>3, <2>2
  <2>4. \A n \in DOMAIN byRouter' :
          byRouter'[n] =
            UNION {BuildTargets(j)' : j \in {l \in 1 .. Built' : sc'.targets[l].router = n}}
    BY <1>1, <1>3, <2>1
  <2>5. \A j \in 1 .. Built' : Remote(sc'.targets[j]) =>
             \A k \in DOMAIN sc'.targets[j].hosts : Builds(j, k)'
    BY <1>1, <1>3, <2>1
  <2> QED BY <2>3, <2>4, <2>5 DEF Remote
<1>4. ASSUME NEW i \in 1 .. Len(sc.targets), RemoteTargets(i) \/ NoRouter(i), pc = "group", at = i
      PROVE  TargetsCollected'
  <2>1. /\ Built = i - 1 /\ Built' = i
        /\ DOMAIN byRouter' = DOMAIN byRouter
    BY <1>4 DEF RemoteTargets, NoRouter, working, Built
  <2>2. 1 .. i = (1 .. i - 1) \cup {i}
    OBVIOUS
  <2>3. \A n \in DOMAIN byRouter :
          byRouter'[n] = byRouter[n] \cup IF sc.targets[i].router = n THEN BuildTargets(i) ELSE {}
    <3>1. CASE NoRouter(i)
      <4>1. sc.targets[i].router = "" /\ byRouter' = byRouter
        BY <3>1 DEF NoRouter, working
      <4>2. Accepted /\ DOMAIN byRouter = {r.name : r \in ToSet(sc.routers)}
        BY <1>4 DEF Accepted
      <4>3. \A r \in ToSet(sc.routers) : r.name # ""
        BY <4>2, RoutersAreNamed
      <4> QED BY <4>1, <4>2, <4>3
    <3>2. CASE RemoteTargets(i)
      BY <3>2 DEF RemoteTargets
    <3> QED BY <1>4, <3>1, <3>2
  <2>4. \A n \in DOMAIN byRouter :
          byRouter'[n] = UNION {BuildTargets(j)' : j \in {l \in 1 .. i : sc.targets[l].router = n}}
    BY <1>1, <1>4, <2>1, <2>2, <2>3
  <2>5. \A j \in 1 .. i : Remote(sc.targets[j]) =>
          \A k \in DOMAIN sc.targets[j].hosts : Builds(j, k)'
    BY <1>1, <1>4, <2>1, <2>2 DEF RemoteTargets, NoRouter, Remote
  <2>6. DOMAIN byRouter = {r.name : r \in ToSet(sc.routers)}
    BY <1>4
  <2>7. DOMAIN byRouter' = {r.name : r \in ToSet(sc'.routers)}
    BY <1>1, <2>1, <2>6
  <2>8. \A n \in DOMAIN byRouter' :
          byRouter'[n] =
            UNION {BuildTargets(j)' : j \in {l \in 1 .. Built' : sc'.targets[l].router = n}}
    BY <1>1, <2>1, <2>4
  <2>9. \A j \in 1 .. Built' : Remote(sc'.targets[j]) =>
             \A k \in DOMAIN sc'.targets[j].hosts : Builds(j, k)'
    BY <1>1, <2>1, <2>5
  <2> QED BY <2>7, <2>8, <2>9 DEF Remote
<1>5. ASSUME NEW i \in 1 .. Len(sc.targets), LocalProbes(i) PROVE UNCHANGED <<byRouter, Built>>
  BY <1>5 DEF LocalProbes, Built
<1>6. MakeSchedulers \/ UNCHANGED vars => UNCHANGED <<byRouter, Built>> /\ Preparing
  BY DEF MakeSchedulers, vars, Built
<1> QED
  BY <1>2, <1>3, <1>4, <1>5, <1>6
     DEF Next, Read, FileMissing, Reject, Accept, CliFails, DialerFails, RemoteTargets, NoRouter,
         LocalProbes, AtGroup, SizeFails, BuildFails, LocalFails, Fails

LEMMA LongestNext == Typed /\ Progress /\ Longest /\ [Next]_vars => Longest'
<1> SUFFICES ASSUME Typed, Progress, Longest, [Next]_vars, Preparing'
             PROVE  Longest'
  BY DEF Longest, Preparing
<1> USE Lengths DEF Longest, Preparing, Progress
<1>1. UNCHANGED sc /\ \A i : LocalInterval(GroupAt(i))' = LocalInterval(GroupAt(i))
  BY FixedConfig DEF LocalInterval, GroupAt, CliGroup
<1>2. CASE CliHosts
  BY <1>1, <1>2 DEF CliHosts, LocalInterval, GroupAt, CliGroup, CliInterval
<1>3. CASE UNCHANGED <<maxInterval, at>> /\ Preparing
  BY <1>1, <1>3
<1>4. ASSUME NEW i \in 1 .. Len(sc.targets), LocalProbes(i) PROVE Longest'
  <2> DEFINE own(j) == LocalInterval(GroupAt(j))
  <2>1. /\ at' - 1 = i /\ at = i /\ 0 .. i = (0 .. i - 1) \cup {i}
        /\ maxInterval' = Max({maxInterval, own(i)})
    BY <1>4 DEF LocalProbes
  <2>2. \A j \in 0 .. i : own(j) \in Int
    BY <1>4, LocalIntervalIsInt DEF LocalProbes, Accepted
  <2>3. maxInterval \in Int
    BY DEF Typed, TypeOK
  <2>4. /\ maxInterval \in {own(j) : j \in 0 .. i - 1}
        /\ \A j \in 0 .. i - 1 : maxInterval >= own(j)
    BY <1>4, <2>1 DEF LocalProbes
  <2> HIDE DEF own
  <2>5. maxInterval' \in {maxInterval, own(i)} /\ maxInterval' >= maxInterval /\ maxInterval' >= own(i)
    BY <2>1, <2>2, <2>3, LargerOfTwo
  <2>6. maxInterval' \in {own(j) : j \in 0 .. i} /\ \A j \in 0 .. i : maxInterval' >= own(j)
    <3>1. \A j \in 0 .. i : j \in 0 .. i - 1 \/ j = i
      OBVIOUS
    <3>2. maxInterval' \in {own(j) : j \in 0 .. i}
      BY <2>4, <2>5
    <3>3. ASSUME NEW j \in 0 .. i PROVE maxInterval' >= own(j)
      <4>1. maxInterval' \in Int /\ own(j) \in Int /\ own(i) \in Int
        BY <2>2, <2>3, <2>5
      <4> QED BY <2>3, <2>4, <2>5, <3>1, <4>1
    <3> QED BY <3>2, <3>3
  <2> QED BY <1>1, <2>1, <2>6 DEF own
<1> QED
  BY <1>2, <1>3, <1>4
     DEF Next, Read, FileMissing, Reject, Accept, CliFails, MakeSchedulers, DialerFails,
         RemoteTargets, NoRouter, AtGroup, SizeFails, BuildFails, LocalFails, Fails, working, vars

LEMMA SchedulersNext == SchedulersMade /\ [Next]_vars => SchedulersMade'
BY DEF SchedulersMade, Next, Read, FileMissing, Reject, Accept, CliHosts, CliFails,
   MakeSchedulers, DialerFails, RemoteTargets, NoRouter, LocalProbes, AtGroup, SizeFails,
   BuildFails, LocalFails, Fails, working, vars

LEMMA AlwaysCollected == Spec => [](Typed /\ Collected)
<1>1. Init => Collected
  BY DEF Init, Collected, Progress, PingersCollected, TargetsCollected, Longest, SchedulersMade,
     Preparing
<1>2. Typed /\ Collected /\ [Next]_vars => Collected'
  BY ProgressNext, PingersNext, TargetsNext, LongestNext, SchedulersNext DEF Collected
<1> QED BY <1>1, <1>2, AlwaysTyped, PTL DEF Spec

-----------------------------------------------------------------------------
(***************************************************************************)
(* What is started.                                                        *)
(***************************************************************************)
\* When prepare has passed all groups, all that was asked is built.
LEMMA AllBuilt ==
  ASSUME Typed, Collected, pc = "done"
  PROVE  /\ Accepted
         /\ \A i \in 1 .. Len(sc.targets) : Remote(sc.targets[i]) =>
              \A n \in DOMAIN sc.targets[i].hosts : Builds(i, n)
         /\ \A k \in DOMAIN sc.routers :
              byRouter[sc.routers[k].name] =
                UNION {BuildTargets(i) : i \in {j \in 1 .. Len(sc.targets) :
                                                  sc.targets[j].router = sc.routers[k].name}}
         /\ \A k \in DOMAIN sc.routers : byRouter[sc.routers[k].name] # {} =>
              /\ k \in DOMAIN schedulers
              /\ schedulers[k].router = sc.routers[k].name
              /\ schedulers[k].targets = byRouter[sc.routers[k].name]
<1>1. Built = Len(sc.targets) /\ Preparing /\ Accepted
  BY Lengths DEF Collected, Progress, Built, Preparing, Accepted
<1>2. \A k \in DOMAIN sc.routers : sc.routers[k].name \in DOMAIN byRouter
  BY <1>1 DEF Collected, TargetsCollected, ToSet
<1>3. \A k \in DOMAIN sc.routers : byRouter[sc.routers[k].name] # {} =>
        /\ k \in DOMAIN schedulers
        /\ schedulers[k].router = sc.routers[k].name
        /\ schedulers[k].targets = byRouter[sc.routers[k].name]
  BY DEF Collected, SchedulersMade
<1> QED BY <1>1, <1>2, <1>3 DEF Collected, TargetsCollected

LEMMA Started ==
  ASSUME Typed, Collected, NEW k \in DOMAIN schedulers
  PROVE  /\ pc = "done" /\ Accepted
         /\ k \in DOMAIN sc.routers
         /\ schedulers[k].router = sc.routers[k].name
         /\ schedulers[k].sessions = sc.routers[k].sessions
         /\ schedulers[k].targets # {}
         /\ schedulers[k].targets =
              UNION {BuildTargets(i) : i \in {j \in 1 .. Len(sc.targets) :
                                                sc.targets[j].router = sc.routers[k].name}}
<1>1. pc = "done"
  BY DEF Collected, SchedulersMade
<1>2. /\ k \in DOMAIN sc.routers
      /\ schedulers[k].router = sc.routers[k].name
      /\ schedulers[k].sessions = sc.routers[k].sessions
      /\ schedulers[k].targets = byRouter[sc.routers[k].name]
      /\ schedulers[k].targets # {}
  BY <1>1 DEF Collected, SchedulersMade
<1> QED BY <1>1, <1>2, AllBuilt

\* Target t of scheduler k is the nth host of group i through link l.
ComesFrom(k, t, i, n, l) ==
  /\ i \in 1 .. Len(sc.targets)
  /\ n \in DOMAIN sc.targets[i].hosts
  /\ l \in SelectLinks(sc.routers[k], sc.targets[i].links)
  /\ Remote(sc.targets[i]) /\ sc.targets[i].router = sc.routers[k].name
  /\ ValidRouter(sc.routers[k]) /\ ValidRemote(sc, sc.targets[i])
  /\ RouterOf(sc, sc.targets[i].router) = sc.routers[k]
  /\ Answers(sc.targets[i].hosts[n], sc.targets[i].network) # {}
  /\ t = Target(i, n, l) /\ t.source # ""

LEMMA StartedTarget ==
  ASSUME Typed, Collected, NEW k \in DOMAIN schedulers, NEW t \in schedulers[k].targets
  PROVE  \E i, n, l : ComesFrom(k, t, i, n, l)
<1>1. PICK i \in 1 .. Len(sc.targets) :
        sc.targets[i].router = sc.routers[k].name /\ t \in BuildTargets(i)
  BY Started
<1>2. PICK n \in DOMAIN sc.targets[i].hosts : t \in TargetsOf(i, n)
  BY <1>1 DEF BuildTargets
<1>3. k \in DOMAIN sc.routers /\ pc = "done" /\ Accepted
  BY Started
<1>4. Valid(sc) /\ IsList(sc.routers)
  BY <1>3, GroupInForce DEF Typed, ConfigForm
<1>5. ValidRouter(sc.routers[k]) /\ RouterOf(sc, sc.targets[i].router) = sc.routers[k]
  BY <1>1, <1>3, <1>4, TheRouter DEF Valid, ToSet
<1>6. Remote(sc.targets[i])
  BY <1>1, <1>5 DEF Remote, ValidRouter
<1>7. ValidRemote(sc, sc.targets[i])
  BY <1>3, <1>6, RemoteGroup
<1>8. Answers(sc.targets[i].hosts[n], sc.targets[i].network) # {}
  <2>1. Builds(i, n)
    BY <1>3, <1>6, AllBuilt
  <2> QED BY <2>1 DEF Builds
<1>9. PICK l \in SelectLinks(sc.routers[k], sc.targets[i].links) :
        t = Target(i, n, l) /\ t.source # ""
  BY <1>2, <1>5 DEF TargetsOf
<1> QED BY <1>1, <1>5, <1>6, <1>7, <1>8, <1>9 DEF ComesFrom

\* What the schedulers take for granted holds of all they are given: a
\* worker and a target at least, an interval time.NewTicker accepts, a count
\* the router accepts, and a source of the family of the address
\* (scheduler.go:126-160, targets.go:66-76).
THEOREM AcceptedSchedulersRun == Spec => []SchedulersCanRun
<1>1. ASSUME Typed, Collected PROVE SchedulersCanRun
  <2> SUFFICES ASSUME NEW k \in DOMAIN schedulers
               PROVE  /\ schedulers[k].sessions >= 1 /\ schedulers[k].targets # {}
                      /\ \A t \in schedulers[k].targets :
                           /\ t.interval > 0 /\ t.count >= 1
                           /\ Family[t.source] = t.addr.family
    BY DEF SchedulersCanRun
  <2>1. ASSUME NEW t \in schedulers[k].targets
        PROVE  /\ t.interval > 0 /\ t.count >= 1 /\ Family[t.source] = t.addr.family
               /\ ValidRouter(sc.routers[k])
    <3>1. PICK i, n, l : ComesFrom(k, t, i, n, l)
      BY <1>1, StartedTarget
    <3> USE <3>1 DEF ComesFrom
    <3>4. t.interval > 0 /\ t.count >= 1
      BY DEF Target, ValidRemote, ValidTiming
    <3>5. /\ t.source = SourceOf(l, t.addr.family)
          /\ t.addr.family = Resolve(sc.targets[i].hosts[n], sc.targets[i].network).family
      BY DEF Target
    <3>6. t.addr.family \in {4, 6}
      BY <3>5, Address
    <3>7. ValidSources(l)
      BY DEF ValidRouter, ValidLinks, SelectLinks
    <3>8. Family[t.source] = t.addr.family
      BY <3>5, <3>6, <3>7 DEF ValidSources, SourceOf
    <3> QED BY <3>4, <3>8
  <2>2. schedulers[k].targets # {} /\ schedulers[k].sessions = sc.routers[k].sessions
    BY <1>1, Started
  <2>3. schedulers[k].sessions >= 1
    BY <2>1, <2>2 DEF ValidRouter
  <2> QED BY <2>1, <2>2, <2>3
<1> QED BY <1>1, AlwaysCollected, PTL

LEMMA LinkNames ==
  ASSUME NEW r, ValidRouter(r)
  PROVE  /\ \A l, m \in ToSet(r.links) : l.name = m.name => l = m
         /\ \A l \in ToSet(r.links) : l.name # ""
BY DEF ValidRouter, ValidLinks, NamesDiffer, ToSet

\* Whatever a group asks of a link ends up with the scheduler of the router.
LEMMA AskedIsStarted ==
  ASSUME Typed, Collected, pc = "done", NEW i \in 1 .. Len(sc.targets),
         NEW n \in DOMAIN sc.targets[i].hosts, NEW k \in DOMAIN sc.routers,
         NEW l \in SelectLinks(sc.routers[k], sc.targets[i].links),
         sc.targets[i].router = sc.routers[k].name, Target(i, n, l).source # ""
  PROVE  /\ k \in DOMAIN schedulers
         /\ schedulers[k].router = sc.routers[k].name
         /\ Target(i, n, l) \in schedulers[k].targets
<1>1. Valid(sc) /\ IsList(sc.routers)
  BY GroupInForce DEF Typed, ConfigForm, Accepted
<1>2. RouterOf(sc, sc.targets[i].router) = sc.routers[k]
  BY <1>1, TheRouter DEF Valid
<1>3. Target(i, n, l) \in TargetsOf(i, n)
  BY <1>2 DEF TargetsOf
<1>4. Target(i, n, l) \in BuildTargets(i)
  BY <1>3 DEF BuildTargets
<1>5. i \in {j \in 1 .. Len(sc.targets) : sc.targets[j].router = sc.routers[k].name}
  OBVIOUS
<1>6. byRouter[sc.routers[k].name] =
        UNION {BuildTargets(g) : g \in {j \in 1 .. Len(sc.targets) :
                                          sc.targets[j].router = sc.routers[k].name}}
  BY AllBuilt
<1>7. Target(i, n, l) \in byRouter[sc.routers[k].name]
  BY <1>4, <1>5, <1>6
<1> QED BY <1>7, AllBuilt

\* Nothing is lost or doubled between the groups and the schedulers
\* (main.go:226-231, 267-279): each place where a group asks for a host through
\* a link is one target of the one scheduler of the router.
THEOREM PairsScheduled == Spec => []EveryPairScheduled
<1>1. ASSUME Typed, Collected PROVE EveryPairScheduled
  <2> SUFFICES ASSUME pc = "done" PROVE EveryPairScheduled
    BY DEF EveryPairScheduled
  <2>1. ASSUME NEW k \in DOMAIN schedulers
        PROVE  /\ k \in DOMAIN sc.routers /\ schedulers[k].router = sc.routers[k].name
               /\ schedulers[k].targets # {} /\ Valid(sc)
    <3>1. PICK t \in schedulers[k].targets : TRUE
      BY <1>1, Started
    <3>2. PICK i \in 1 .. Len(sc.targets) : TRUE
      BY <1>1, StartedTarget DEF ComesFrom
    <3> QED BY <1>1, <3>2, Started, GroupInForce DEF Accepted
  <2>2. \A j, k \in DOMAIN schedulers : schedulers[j].router = schedulers[k].router => j = k
    BY <2>1 DEF Valid, NamesDiffer
  <2>3. ASSUME NEW r \in ToSet(sc.routers), NEW l \in ToSet(r.links)
        PROVE  AskedFor(r, l) =
                 {<<t.group, t.nth>> : t \in {u \in AllTargets :
                    u.link = l.name /\ \E k \in DOMAIN schedulers :
                      schedulers[k].router = r.name /\ u \in schedulers[k].targets}}
    <3> DEFINE Of(u) == u.link = l.name /\ \E k \in DOMAIN schedulers :
                          schedulers[k].router = r.name /\ u \in schedulers[k].targets
    <3>1. PICK k \in DOMAIN sc.routers : sc.routers[k] = r
      BY DEF ToSet
    <3>2. ASSUME NEW place \in AskedFor(r, l)
          PROVE  \E t \in AllTargets : Of(t) /\ place = <<t.group, t.nth>>
      <4> DEFINE Asks(i, n) ==
              /\ sc.targets[i].router = r.name
              /\ sc.targets[i].links = {} \/ l.name \in sc.targets[i].links
              /\ SourceOf(l, Resolve(sc.targets[i].hosts[n], sc.targets[i].network).family) # ""
      <4>1. PICK i \in DOMAIN sc.targets :
              \E n \in DOMAIN sc.targets[i].hosts : place = <<i, n>> /\ Asks(i, n)
        BY DEF AskedFor
      <4>2. PICK n \in DOMAIN sc.targets[i].hosts : place = <<i, n>> /\ Asks(i, n)
        BY <4>1
      <4>3. i \in 1 .. Len(sc.targets) /\ l \in SelectLinks(sc.routers[k], sc.targets[i].links)
        BY <1>1, <3>1, <4>2, Lengths DEF SelectLinks
      <4> DEFINE t == Target(i, n, l)
      <4>4. t.source # "" /\ t.link = l.name /\ t.group = i /\ t.nth = n
        BY <4>2 DEF Target
      <4>5. /\ k \in DOMAIN schedulers /\ schedulers[k].router = r.name
            /\ t \in schedulers[k].targets
        BY <1>1, <3>1, <4>2, <4>3, <4>4, AskedIsStarted
      <4> HIDE DEF t
      <4> QED BY <4>2, <4>4, <4>5 DEF AllTargets
    <3>3. ASSUME NEW t \in AllTargets, Of(t)
          PROVE  <<t.group, t.nth>> \in AskedFor(r, l)
      <4>1. PICK j \in DOMAIN schedulers : schedulers[j].router = r.name /\ t \in schedulers[j].targets
        BY <3>3
      <4>2. j = k
        BY <2>1, <3>1, <4>1 DEF Valid, NamesDiffer
      <4>3. PICK i, n, m : ComesFrom(j, t, i, n, m)
        BY <1>1, <4>1, StartedTarget
      <4>4. /\ m \in ToSet(r.links) /\ m.name = l.name /\ ValidRouter(r)
            /\ t.group = i /\ t.nth = n
            /\ t.source = SourceOf(m, Resolve(sc.targets[i].hosts[n], sc.targets[i].network).family)
        BY <3>1, <3>3, <4>2, <4>3 DEF ComesFrom, Target, SelectLinks
      <4>5. m = l
        BY <4>4, LinkNames
      <4>6. i \in DOMAIN sc.targets /\ n \in DOMAIN sc.targets[i].hosts
        BY <1>1, <4>3, Lengths DEF ComesFrom
      <4>7. /\ sc.targets[i].router = r.name
            /\ sc.targets[i].links = {} \/ l.name \in sc.targets[i].links
            /\ SourceOf(l, Resolve(sc.targets[i].hosts[n], sc.targets[i].network).family) # ""
        BY <3>1, <4>2, <4>3, <4>4, <4>5 DEF ComesFrom, SelectLinks
      <4> DEFINE asked == {<<i, x>> : x \in {y \in DOMAIN sc.targets[i].hosts :
             SourceOf(l, Resolve(sc.targets[i].hosts[y], sc.targets[i].network).family) # ""}}
      <4>8. asked \subseteq AskedFor(r, l)
        BY <4>6, <4>7 DEF AskedFor
      <4>9. <<i, n>> \in asked
        BY <4>6, <4>7
      <4> QED BY <4>4, <4>8, <4>9
    <3> QED BY <3>2, <3>3
  <2> QED BY <2>1, <2>2, <2>3 DEF EveryPairScheduled
<1> QED BY <1>1, AlwaysCollected, PTL

-----------------------------------------------------------------------------
(***************************************************************************)
(* The local pingers beside the targets, and the labels of both.           *)
(***************************************************************************)
LEMMA LocalPingers ==
  ASSUME Typed, Collected, pc = "done"
  PROVE  probes = UNION {Probes(i) : i \in 0 .. Len(sc.targets)}
BY Lengths DEF Collected, Progress, PingersCollected, Preparing

\* The label values one by one.
CustomValue(labels, m) == IF m \in DOMAIN labels THEN labels[m] ELSE ""

LEMMA SeriesValues ==
  ASSUME NEW x
  PROVE  /\ Series(x) = [m \in LabelNames |-> Series(x)[m]]
         /\ BaseNames \subseteq LabelNames
         /\ \A m \in LabelNames : m \notin BaseNames =>
              Series(x)[m] = CustomValue(x.labels, m)
         /\ Series(x)["ip"] = x.addr /\ Series(x)["host"] = x.host
         /\ Series(x)["source"] = x.source /\ Series(x)["tos"] = x.tos
         /\ Series(x)["link"] = x.link
<1>1. BaseNames \subseteq LabelNames
  BY DEF LabelNames
<1> QED BY <1>1 DEF Series, LabelValues, BaseNames, CustomValue

WithoutUplink(t) == [Series(t) EXCEPT !["source"] = "", !["link"] = ""]

\* The pinger of the group of a target at the same place has the same address,
\* and but for source and link the same labels.
LEMMA Compared ==
  ASSUME Typed, Collected, NEW k \in DOMAIN schedulers, NEW t \in schedulers[k].targets,
         NEW i \in 1 .. Len(sc.targets), NEW n, NEW l, ComesFrom(k, t, i, n, l)
  PROVE  /\ Probe(i, n) \in probes
         /\ Series(Probe(i, n)) = WithoutUplink(t)
<1>1. pc = "done" /\ i # 0 /\ i \in 0 .. Len(sc.targets)
  BY Started, Lengths
<1>2. Probe(i, n) \in Probes(i)
  BY <1>1 DEF Probes, GroupAt, ComesFrom
<1>3. Probe(i, n) \in probes
  BY <1>1, <1>2, LocalPingers
<1>4. sc.targets[i].source = ""
  BY DEF ComesFrom, ValidRemote
<1> DEFINE p == Probe(i, n)
<1>5. /\ p.addr = t.addr /\ p.host = t.host /\ p.tos = t.tos /\ p.labels = t.labels
      /\ p.source = "" /\ p.link = ""
  BY <1>1, <1>4 DEF Probe, Target, GroupAt, ComesFrom
<1> HIDE DEF p
<1>6. Series(p) = WithoutUplink(t)
  <2> DEFINE u == WithoutUplink(t)
  <2>1. /\ u = [m \in LabelNames |-> u[m]]
        /\ u["source"] = "" /\ u["link"] = ""
        /\ \A m \in LabelNames : m \notin {"source", "link"} => u[m] = Series(t)[m]
    BY SeriesValues DEF BaseNames, WithoutUplink
  <2> HIDE DEF u
  <2>2. ASSUME NEW m \in LabelNames PROVE Series(p)[m] = u[m]
    <3>1. CASE m \notin BaseNames
      <4>1. Series(p)[m] = Series(t)[m]
        <5>1. Series(p)[m] = CustomValue(p.labels, m)
          BY <3>1, SeriesValues
        <5>2. Series(t)[m] = CustomValue(t.labels, m)
          BY <3>1, SeriesValues
        <5> QED BY <1>5, <5>1, <5>2
      <4> QED BY <2>1, <3>1, <4>1 DEF BaseNames
    <3>2. CASE m \in {"ip", "host", "tos"}
      <4>1. Series(p)[m] = Series(t)[m]
        <5>1. /\ Series(p)["ip"] = p.addr /\ Series(p)["host"] = p.host
              /\ Series(p)["tos"] = p.tos
          BY SeriesValues
        <5>2. /\ Series(t)["ip"] = t.addr /\ Series(t)["host"] = t.host
              /\ Series(t)["tos"] = t.tos
          BY SeriesValues
        <5> QED BY <1>5, <3>2, <5>1, <5>2
      <4> QED BY <2>1, <3>2, <4>1
    <3>3. CASE m \in {"source", "link"}
      BY <1>5, <2>1, <3>3, SeriesValues
    <3> QED BY <3>1, <3>2, <3>3 DEF BaseNames
  <2>3. Series(p) = [m \in LabelNames |-> Series(p)[m]]
    BY SeriesValues
  <2>4. Series(p) = u
    BY <2>1, <2>2, <2>3
  <2> QED BY <2>4 DEF u
<1> QED BY <1>3, <1>6 DEF p

\* Whatever a router pings this host pings too, at the same address and with
\* the same labels but for source and link (main.go:237-241, README.md:99).
THEOREM LocalSeriesBesideTargets == Spec => []EveryTargetHasItsLocalSeries
<1>1. ASSUME Typed, Collected PROVE EveryTargetHasItsLocalSeries
  <2> SUFFICES ASSUME NEW t \in AllTargets
               PROVE  \E p \in probes :
                        Series(p) = [Series(t) EXCEPT !["source"] = "", !["link"] = ""]
    BY DEF EveryTargetHasItsLocalSeries
  <2>1. PICK k \in DOMAIN schedulers : t \in schedulers[k].targets
    BY DEF AllTargets
  <2>2. PICK i, n, l : ComesFrom(k, t, i, n, l)
    BY <1>1, <2>1, StartedTarget
  <2> QED BY <1>1, <2>1, <2>2, Compared DEF WithoutUplink, ComesFrom
<1> QED BY <1>1, AlwaysCollected, PTL

\* Two series with the same labels make every scrape fail
\* (collector.go:238-262).  The routers add no such pair to the local series,
\* whatever links share and whatever labels a group has.
THEOREM RemoteSeriesAreNew == Spec => []RemoteAddsNoClash
<1> DEFINE compared == {p \in probes : p.group > 0 /\ Remote(sc.targets[p.group])}
<1>1. ASSUME Typed, Collected, pc = "done", Distinct(compared)
      PROVE  Distinct(AllTargets)
  <2> SUFFICES ASSUME NEW t \in AllTargets, NEW u \in AllTargets, Series(t) = Series(u)
               PROVE  t = u
    BY DEF Distinct
  <2>1. PICK k \in DOMAIN schedulers : t \in schedulers[k].targets
    BY DEF AllTargets
  <2>2. PICK j \in DOMAIN schedulers : u \in schedulers[j].targets
    BY DEF AllTargets
  <2>3. PICK i, n, l : ComesFrom(k, t, i, n, l)
    BY <1>1, <2>1, StartedTarget
  <2>4. PICK g, o, m : ComesFrom(j, u, g, o, m)
    BY <1>1, <2>2, StartedTarget
  <2>5. /\ Probe(i, n) \in probes
        /\ Series(Probe(i, n)) = WithoutUplink(t)
    BY <1>1, <2>1, <2>3, Compared DEF ComesFrom
  <2>6. /\ Probe(g, o) \in probes
        /\ Series(Probe(g, o)) = WithoutUplink(u)
    BY <1>1, <2>2, <2>4, Compared DEF ComesFrom
  <2>7. /\ Probe(i, n).group = i /\ Probe(i, n).nth = n
        /\ Probe(g, o).group = g /\ Probe(g, o).nth = o
    BY DEF Probe
  <2>8. i > 0 /\ g > 0
    <3>1. i \in 1 .. Len(sc.targets) /\ g \in 1 .. Len(sc.targets)
      BY <2>3, <2>4 DEF ComesFrom
    <3> QED BY <1>1, <3>1, Lengths
  <2>9. Probe(i, n) \in compared /\ Probe(g, o) \in compared
    BY <2>3, <2>4, <2>5, <2>6, <2>7, <2>8 DEF ComesFrom
  <2>10. Probe(i, n) = Probe(g, o)
    BY <1>1, <2>5, <2>6, <2>9 DEF Distinct, WithoutUplink
  <2>11. i = g /\ n = o
    BY <2>7, <2>10
  <2>12. /\ l \in ToSet(sc.routers[k].links) /\ m \in ToSet(sc.routers[k].links)
         /\ ValidRouter(sc.routers[k])
    BY <2>3, <2>4, <2>11 DEF ComesFrom, SelectLinks
  <2>13. l.name = m.name
    <3>1. t.link = l.name /\ u.link = m.name
      BY <2>3, <2>4 DEF ComesFrom, Target
    <3>2. Series(t)["link"] = t.link /\ Series(u)["link"] = u.link
      BY SeriesValues
    <3> QED BY <3>1, <3>2
  <2>14. l = m
    BY <2>12, <2>13, LinkNames
  <2> QED BY <2>3, <2>4, <2>11, <2>14 DEF ComesFrom
<1>2. ASSUME Typed, Collected, pc = "done", NEW t \in AllTargets, NEW p \in probes
      PROVE  Series(t) # Series(p)
  <2>1. PICK k \in DOMAIN schedulers : t \in schedulers[k].targets
    BY DEF AllTargets
  <2>2. PICK i, n, l : ComesFrom(k, t, i, n, l)
    BY <1>2, <2>1, StartedTarget
  <2>3. t.link # ""
    BY <2>2, LinkNames DEF ComesFrom, Target, SelectLinks
  <2>4. PICK j \in 0 .. Len(sc.targets) : p \in Probes(j)
    BY <1>2, LocalPingers
  <2>5. p.link = ""
    <3>1. PICK o : p = Probe(j, o)
      BY <2>4 DEF Probes
    <3> QED BY <3>1 DEF Probe
  <2>6. Series(t)["link"] = t.link /\ Series(p)["link"] = p.link
    BY SeriesValues
  <2> QED BY <2>3, <2>5, <2>6
<1>3. Typed /\ Collected => RemoteAddsNoClash
  BY <1>1, <1>2 DEF RemoteAddsNoClash
<1> QED BY <1>3, AlwaysCollected, PTL

\* The intervals are those of the file, whatever defaults were put in and
\* taken out again on the way (config.go:319-340, main.go:229-244), and
\* maxInterval is the longest of the local pingers' (main.go:241-243).
THEOREM IntervalsKept == Spec => []IntervalsAreAsWritten
<1>1. ASSUME Typed, Collected, pc = "done" PROVE IntervalsAreAsWritten
  <2>1. ASSUME NEW t \in AllTargets
        PROVE  t.interval = OrDefault(file.targets[t.group].interval, DefaultRemoteInterval)
    <3>1. PICK k \in DOMAIN schedulers : t \in schedulers[k].targets
      BY DEF AllTargets
    <3>2. PICK i, n, l : ComesFrom(k, t, i, n, l)
      BY <1>1, <3>1, StartedTarget
    <3>3. /\ i \in 1 .. Len(sc.targets)
          /\ t.group = i /\ t.interval = sc.targets[i].interval
          /\ sc.targets[i].router # ""
      BY <3>2 DEF ComesFrom, Target, Remote
    <3>4. sc.targets[i] = DecodeGroup(file.targets[i]) /\ GroupForm(file.targets[i])
      BY <1>1, <3>3, GroupInForce, DecodedConfig DEF Typed, TypeOK, Accepted
    <3>5. /\ sc.targets[i].interval = DecodeInterval(file.targets[i])
          /\ sc.targets[i].router = file.targets[i].router
      BY <3>4, DecodedGroup
    <3> QED BY <3>3, <3>5 DEF DecodeInterval
  <2>2. ASSUME NEW p \in probes, p.group > 0
        PROVE  LET tg == file.targets[p.group]
               IN p.interval = IF Remote(tg) THEN NonZero(tg.local, DefaultInterval)
                                             ELSE OrDefault(tg.interval, DefaultInterval)
    <3>1. PICK i \in 0 .. Len(sc.targets) : p \in Probes(i)
      BY <1>1, LocalPingers
    <3>2. p.group = i /\ p.interval = LocalInterval(GroupAt(i))
      <4>1. PICK o : p = Probe(i, o)
        BY <3>1 DEF Probes
      <4> QED BY <4>1 DEF Probe
    <3>3. i \in 1 .. Len(sc.targets) /\ GroupAt(i) = sc.targets[i]
      BY <1>1, <2>2, <3>2, Lengths DEF GroupAt
    <3>4. sc.targets[i] = DecodeGroup(file.targets[i]) /\ GroupForm(file.targets[i])
      BY <1>1, <3>3, GroupInForce, DecodedConfig DEF Typed, TypeOK, Accepted
    <3>5. /\ sc.targets[i].interval = DecodeInterval(file.targets[i])
          /\ sc.targets[i].router = file.targets[i].router
          /\ sc.targets[i].local = IF file.targets[i].router = "" THEN file.targets[i].local
                                   ELSE NonZero(file.targets[i].local, DefaultInterval)
      BY <3>4, DecodedGroup
    <3> QED BY <3>2, <3>3, <3>5 DEF LocalInterval, DecodeInterval, Remote
  <2>3. maxInterval = Max({LocalInterval(GroupAt(i)) : i \in 0 .. Len(sc.targets)})
    <3> DEFINE own(i)    == LocalInterval(GroupAt(i))
               intervals == {own(i) : i \in 0 .. Len(sc.targets)}
    <3>1. /\ maxInterval \in intervals
          /\ \A i \in 0 .. Len(sc.targets) : maxInterval >= own(i)
      BY <1>1, Lengths DEF Collected, Progress, Longest, Preparing
    <3>2. \A i \in 0 .. Len(sc.targets) : own(i) \in Int
      BY <1>1, LocalIntervalIsInt DEF Accepted
    <3> HIDE DEF own
    <3>3. intervals \subseteq Int /\ \A x \in intervals : maxInterval >= x
      BY <3>1, <3>2
    <3> HIDE DEF intervals
    <3>4. \A x \in intervals : (\A y \in intervals : x >= y) => x = maxInterval
      BY <3>1, <3>3
    <3>5. Max(intervals) = maxInterval
      BY <3>1, <3>3, <3>4 DEF Max
    <3> QED BY <3>5 DEF intervals, own
  <2> QED BY <2>1, <2>2, <2>3 DEF IntervalsAreAsWritten
<1>2. Typed /\ Collected => IntervalsAreAsWritten
  BY <1>1 DEF IntervalsAreAsWritten
<1> QED BY <1>2, AlwaysCollected, PTL
=============================================================================
