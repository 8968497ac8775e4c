------------------------------- MODULE Targets -------------------------------
(***************************************************************************)
(* From the configuration file to what is started: decoding and defaults,  *)
(* Config.Validate (config/config.go), smokePingers.prepare (main.go),     *)
(* Resolve and BuildTargets (remote/targets.go) and the label values of    *)
(* every series (collector.go).                                            *)
(*                                                                         *)
(* One pass: read, decode, validate, then prepare, group by group.  A name *)
(* or an address is an opaque string; what the code reads out of it is its *)
(* family, given by Family.  timeout stands for packet_interval too: both  *)
(* have a default, need a router, and are checked no further.  access      *)
(* stands for address, user, credentials and host key policy of a router.  *)
(*                                                                         *)
(* A list of pingers or of targets is the set of its members: each has the *)
(* place of its host in the file (group, nth) and, if it is a target, its  *)
(* link, which keeps equal hosts apart and gives the order of the list.    *)
(***************************************************************************)
EXTENDS Integers, SequencesExt, FiniteSetsExt

CONSTANTS
  Files,     \* what the file may hold, as written
  Cli,       \* the hosts of the command line
  Family,    \* of a literal host or source: 4 or 6; of any other string: 0
  Previous,  \* the configuration in force before this pass
  Absent     \* the value of a key the file does not have

ASSUME FamilyAssumption == \A s \in DOMAIN Family : Family[s] \in {0, 4, 6}
ASSUME CliAssumption    == Cli \in Seq(DOMAIN Family)

(***************************************************************************)
(* What the decoder makes of a file: lists of records, each with all keys  *)
(* of its type, and Absent where a key is not there and that matters.      *)
(***************************************************************************)
MaybeInt == Int \cup {Absent}
IsList(s) == s \in Seq(ToSet(s))

LinkForm(l)   == /\ DOMAIN l = {"name", "source", "source6", "vpn"}
                 /\ {l.source, l.source6} \subseteq DOMAIN Family \cup {""}
RouterForm(r) == /\ DOMAIN r = {"name", "access", "sessions", "links"}
                 /\ r.sessions \in MaybeInt
                 /\ IsList(r.links) /\ \A l \in ToSet(r.links) : LinkForm(l)
GroupForm(g)  == /\ DOMAIN g = {"router", "host", "hosts", "network", "links", "interval",
                                "count", "timeout", "local", "source", "size", "tos", "labels"}
                 /\ g.interval \in MaybeInt /\ {g.count, g.timeout, g.local} \subseteq Int
                 /\ g.hosts \in Seq(DOMAIN Family) /\ g.host \in DOMAIN Family \cup {""}
ConfigForm(c) == /\ IsList(c.routers) /\ \A r \in ToSet(c.routers) : RouterForm(r)
                 /\ IsList(c.targets) /\ \A g \in ToSet(c.targets) : GroupForm(g)

ASSUME FilesAssumption    == \A f \in Files : ConfigForm(f)
ASSUME PreviousAssumption == ConfigForm(Previous)

VARIABLES
  pc,          \* the next step of the pass, or how it ended
  dns,         \* the families a name resolves to
  file,        \* the file of this pass
  cfg,         \* c in ReloadConfig, decoded
  sc,          \* sc.C
  at,          \* the target group prepare is at
  probes,      \* the local pingers
  byRouter,    \* remoteTargets, by the name of the router
  maxInterval,
  schedulers

vars == <<pc, dns, file, cfg, sc, at, probes, byRouter, maxInterval, schedulers>>
working == <<at, probes, byRouter, maxInterval, schedulers>>

DefaultInterval       == 1    \* seconds, as CliInterval
DefaultRemoteInterval == 60
DefaultRemoteCount    == 10
DefaultRemoteTimeout  == 500
DefaultRouterSessions == 5
DefaultSize           == 56
CliInterval           == 1    \* --ping.interval
CliTos                == 0

Names      == {s \in DOMAIN Family : Family[s] = 0}
Literal(h) == Family[h] # 0

-----------------------------------------------------------------------------
(***************************************************************************)
(* Decoding.  A default put there before unmarshalling survives only when  *)
(* the key is absent; count, timeout and local_interval take theirs when   *)
(* they are zero.                                                          *)
(***************************************************************************)
OrDefault(value, default) == IF value = Absent THEN default ELSE value
NonZero(value, default)   == IF value = 0 THEN default ELSE value

DecodeRouter(r) == [r EXCEPT !.sessions = OrDefault(@, DefaultRouterSessions)]

\* Fault: an interval equal to the local default is taken for no interval.
DecodeIntervalByValue(tg) ==
  LET given == OrDefault(tg.interval, DefaultInterval)
  IN IF tg.router # "" /\ given = DefaultInterval THEN DefaultRemoteInterval ELSE given

\* The presence of the key decides, not its value: 1s may be asked for.
DecodeInterval(tg) ==
  OrDefault(tg.interval, IF tg.router = "" THEN DefaultInterval
                                           ELSE DefaultRemoteInterval)

DecodeGroup(tg) ==
  LET remote == tg.router # ""
      plain  == [tg EXCEPT
                  !.hosts    = IF tg.host # "" /\ @ = <<>> THEN <<tg.host>> ELSE @,
                  !.network  = OrDefault(@, "ip"),
                  !.size     = OrDefault(@, DefaultSize),
                  !.interval = DecodeInterval(tg)]
  IN IF ~remote THEN plain
     ELSE [plain EXCEPT
            !.count   = NonZero(@, DefaultRemoteCount),
            !.timeout = NonZero(@, DefaultRemoteTimeout),
            !.local   = NonZero(@, DefaultInterval)]

Decode(f) ==
  [routers |-> [i \in DOMAIN f.routers |-> DecodeRouter(f.routers[i])],
   targets |-> [i \in DOMAIN f.targets |-> DecodeGroup(f.targets[i])]]

-----------------------------------------------------------------------------
(***************************************************************************)
(* Validate.                                                               *)
(***************************************************************************)
NamesDiffer(s) == \A i, j \in DOMAIN s : s[i].name = s[j].name => i = j
HasName(s, n)  == \E i \in DOMAIN s : s[i].name = n

\* Config.Router: the first of that name.
RouterOf(c, n) == c.routers[Min({i \in DOMAIN c.routers : c.routers[i].name = n})]

SelectLinks(r, names) ==
  {l \in ToSet(r.links) : names = {} \/ l.name \in names}

\* Fault: an address of any family will do.
ValidSourcesAnyFamily(l) ==
  /\ l.source # "" \/ l.source6 # ""
  /\ l.source  # "" => Family[l.source]  # 0
  /\ l.source6 # "" => Family[l.source6] # 0

\* net.ParseIP and To4: each source is of its own family.
ValidSources(l) ==
  /\ l.source # "" \/ l.source6 # ""
  /\ l.source  # "" => Family[l.source]  = 4
  /\ l.source6 # "" => Family[l.source6] = 6

ValidLinks(r) ==
  /\ r.links # <<>>
  /\ NamesDiffer(r.links)
  /\ \A l \in ToSet(r.links) : /\ l.name # ""
                               /\ l.vpn # "unsafe"
                               /\ ValidSources(l)

\* Fault: no session at all is accepted.
ValidRouterIdle(r) ==
  /\ r.name # ""
  /\ r.access
  /\ r.sessions >= 0
  /\ ValidLinks(r)

ValidRouter(r) ==
  /\ r.name # ""
  /\ r.access
  /\ r.sessions >= 1
  /\ ValidLinks(r)

\* Fault: looks at every link of the router, not at the selected ones.
SourcesSufficeAnyLink(tg, r) ==
  LET of(f)  == \E h \in ToSet(tg.hosts) : Family[h] = f
      needs4 == tg.network = "ip4" \/ (tg.network = "ip" /\ of(4))
      needs6 == tg.network = "ip6" \/ (tg.network = "ip" /\ of(6))
  IN /\ needs4 => \E l \in ToSet(r.links) : l.source # ""
     /\ needs6 => \E l \in ToSet(r.links) : l.source6 # ""

\* Some selected link has a source for each family the group is known to use.
SourcesSuffice(tg, r) ==
  LET links   == SelectLinks(r, tg.links)
      of(f)   == \E h \in ToSet(tg.hosts) : Family[h] = f
      needs4  == tg.network = "ip4" \/ (tg.network = "ip" /\ of(4))
      needs6  == tg.network = "ip6" \/ (tg.network = "ip" /\ of(6))
  IN /\ needs4 => \E l \in links : l.source # ""
     /\ needs6 => \E l \in links : l.source6 # ""

\* Fault: an interval of zero passes.
ValidTimingZero(tg) == tg.count >= 1 /\ tg.interval >= 0 /\ tg.local > 0

ValidTiming(tg) ==
  /\ tg.count >= 1
  /\ tg.interval > 0 /\ tg.local > 0

ValidRemote(c, tg) ==
  /\ HasName(c.routers, tg.router)
  /\ tg.source = ""
  /\ tg.network \in {"ip", "ip4", "ip6"}
  /\ ValidTiming(tg)
  /\ \A n \in tg.links : HasName(RouterOf(c, tg.router).links, n)
  /\ SourcesSuffice(tg, RouterOf(c, tg.router))

ValidLocal(tg) ==
  /\ tg.count = 0 /\ tg.timeout = 0 /\ tg.local = 0
  /\ tg.links = {}

Valid(c) ==
  /\ NamesDiffer(c.routers)
  /\ \A r \in ToSet(c.routers) : ValidRouter(r)
  /\ \A tg \in ToSet(c.targets) :
        IF tg.router = "" THEN ValidLocal(tg) ELSE ValidRemote(c, tg)

-----------------------------------------------------------------------------
(***************************************************************************)
(* Resolution, of a target in Resolve and of a local pinger in pro-bing:   *)
(* the families that answer, none being an error, and IPv4 when there is   *)
(* one.                                                                    *)
(***************************************************************************)
Wanted(network) == CASE network = "ip4" -> {4}
                     [] network = "ip6" -> {6}
                     [] OTHER           -> {4, 6}
Answers(host, network) ==
  (IF Literal(host) THEN {Family[host]} ELSE dns[host]) \cap Wanted(network)
Resolve(host, network) == [name |-> host, family |-> Min(Answers(host, network))]

(***************************************************************************)
(* BuildTargets.                                                           *)
(***************************************************************************)
SourceOf(l, family) == IF family = 6 THEN l.source6 ELSE l.source

\* The kth host of group i through link l.
Target(i, k, l) ==
  LET tg   == sc.targets[i]
      addr == Resolve(tg.hosts[k], tg.network)
  IN [group |-> i, nth |-> k, host |-> tg.hosts[k], addr |-> addr, link |-> l.name,
      source |-> SourceOf(l, addr.family), tos |-> tg.tos, labels |-> tg.labels,
      interval |-> tg.interval, count |-> tg.count]

\* One target for each link of the group with a source of the family.
TargetsOf(i, k) ==
  LET tg    == sc.targets[i]
      links == SelectLinks(RouterOf(sc, tg.router), tg.links)
  IN {Target(i, k, l) : l \in {m \in links : Target(i, k, m).source # ""}}

BuildTargets(i) == UNION {TargetsOf(i, k) : k \in DOMAIN sc.targets[i].hosts}

Builds(i, k) ==
  /\ Answers(sc.targets[i].hosts[k], sc.targets[i].network) # {}
  /\ TargetsOf(i, k) # {}

-----------------------------------------------------------------------------
(***************************************************************************)
(* The labels of a series: the base labels, then the labels of any group   *)
(* that are not named like one of those.                                   *)
(***************************************************************************)
BaseNames  == {"ip", "host", "source", "tos", "link"}
LabelNames == BaseNames \cup UNION {DOMAIN tg.labels : tg \in ToSet(sc.targets)}

\* Fault: the labels of the group come first.
LabelValuesCustomFirst(base, custom) ==
  [k \in LabelNames |-> IF k \in DOMAIN custom THEN custom[k]
                        ELSE IF k \in BaseNames THEN base[k]
                        ELSE ""]

LabelValues(base, custom) ==
  [k \in LabelNames |-> IF k \in BaseNames THEN base[k]
                        ELSE IF k \in DOMAIN custom THEN custom[k]
                        ELSE ""]

\* A local probe has no link and may have a source; a target has both.
Series(x) ==
  LabelValues([ip |-> x.addr, host |-> x.host, source |-> x.source,
               tos |-> x.tos, link |-> x.link], x.labels)

\* The command line is a group of its own, the first.
CliGroup == [router |-> "", hosts |-> Cli, network |-> "ip", interval |-> CliInterval,
             source |-> "", tos |-> CliTos, labels |-> <<>>]
GroupAt(i) == IF i = 0 THEN CliGroup ELSE sc.targets[i]

LocalInterval(tg) == IF tg.router = "" THEN tg.interval ELSE tg.local

\* The local pinger of the kth host of group i.
Probe(i, k) ==
  LET tg == GroupAt(i)
  IN [group |-> i, nth |-> k, host |-> tg.hosts[k],
      addr |-> Resolve(tg.hosts[k], tg.network), link |-> "", source |-> tg.source,
      tos |-> tg.tos, labels |-> tg.labels, interval |-> LocalInterval(tg)]

Probes(i) == {Probe(i, k) : k \in DOMAIN GroupAt(i).hosts}

\* Every host of group i has an address.
Resolves(i) == \A h \in ToSet(GroupAt(i).hosts) : Answers(h, GroupAt(i).network) # {}

-----------------------------------------------------------------------------
Init ==
  /\ pc = "read"
  /\ dns \in [Names -> SUBSET {4, 6}]
  /\ file \in Files
  /\ cfg = Previous
  /\ sc = Previous
  /\ at = 0
  /\ probes = {}
  /\ byRouter = <<>>
  /\ maxInterval = 0
  /\ schedulers = <<>>

\* decoder.Decode.
Read ==
  /\ pc = "read"
  /\ cfg' = Decode(file)
  /\ pc' = "validate"
  /\ UNCHANGED <<dns, file, sc, working>>

\* At start-up a missing file is ignored: the hosts of the command line remain.
FileMissing ==
  /\ pc = "read"
  /\ sc.routers = <<>> /\ sc.targets = <<>>
  /\ pc' = "cli"
  /\ UNCHANGED <<dns, file, cfg, sc, working>>

\* Fault: sc.C is assigned before Validate.
RejectTooLate ==
  /\ pc = "validate" /\ ~Valid(cfg)
  /\ sc' = cfg
  /\ pc' = "rejected"
  /\ UNCHANGED <<dns, file, cfg, working>>

\* The file cannot be opened or is not YAML, or Validate objects: sc.C stays.
Reject ==
  /\ \/ pc = "read"
     \/ pc = "validate" /\ ~Valid(cfg)
  /\ pc' = "rejected"
  /\ UNCHANGED <<dns, file, cfg, sc, working>>

Accept ==
  /\ pc = "validate"
  /\ Valid(cfg)
  /\ sc' = cfg
  /\ pc' = "cli"
  /\ UNCHANGED <<dns, file, cfg, working>>

CliHosts ==
  /\ pc = "cli"
  /\ Resolves(0)
  /\ probes' = Probes(0)
  /\ byRouter' = [n \in {r.name : r \in ToSet(sc.routers)} |-> {}]
  /\ maxInterval' = CliInterval
  /\ at' = 1
  /\ pc' = "group"
  /\ UNCHANGED <<dns, file, cfg, sc, schedulers>>

AtGroup(i) == pc = "group" /\ at = i /\ i \in DOMAIN sc.targets
SizeFits(tg) == tg.size \in 24 .. 65535

\* Fault: a second group of a router replaces the targets of the first.
RemoteTargetsReplace(i) ==
  /\ AtGroup(i)
  /\ SizeFits(sc.targets[i])
  /\ sc.targets[i].router # ""
  /\ \A k \in DOMAIN sc.targets[i].hosts : Builds(i, k)
  /\ byRouter' = [byRouter EXCEPT ![sc.targets[i].router] = BuildTargets(i)]
  /\ pc' = "local"
  /\ UNCHANGED <<dns, file, cfg, sc, at, probes, maxInterval, schedulers>>

\* A router group: its targets join those its router already has.
RemoteTargets(i) ==
  /\ AtGroup(i)
  /\ SizeFits(sc.targets[i])
  /\ sc.targets[i].router # ""
  /\ \A k \in DOMAIN sc.targets[i].hosts : Builds(i, k)
  /\ byRouter' = [byRouter EXCEPT ![sc.targets[i].router] = @ \cup BuildTargets(i)]
  /\ pc' = "local"
  /\ UNCHANGED <<dns, file, cfg, sc, at, probes, maxInterval, schedulers>>

NoRouter(i) ==
  /\ AtGroup(i)
  /\ SizeFits(sc.targets[i])
  /\ sc.targets[i].router = ""
  /\ pc' = "local"
  /\ UNCHANGED <<dns, file, cfg, sc, working>>

\* Fault: what a router pings is not pinged from here.
LocalProbesElsewhere(i) ==
  /\ pc = "local" /\ at = i
  /\ sc.targets[i].router # ""
  /\ at' = i + 1
  /\ pc' = "group"
  /\ UNCHANGED <<dns, file, cfg, sc, probes, byRouter, maxInterval, schedulers>>

\* Every group is pinged from this host too.
LocalProbes(i) ==
  /\ pc = "local" /\ at = i
  /\ Resolves(i)
  /\ probes' = probes \cup Probes(i)
  /\ maxInterval' = Max({maxInterval, LocalInterval(GroupAt(i))})
  /\ at' = i + 1
  /\ pc' = "group"
  /\ UNCHANGED <<dns, file, cfg, sc, byRouter, schedulers>>

\* One scheduler for each router with targets, at its place in the file.
MakeSchedulers ==
  LET used == {k \in DOMAIN sc.routers : byRouter[sc.routers[k].name] # {}}
  IN /\ pc = "group"
     /\ at > Len(sc.targets)
     /\ schedulers' = [k \in used |->
                         [router |-> sc.routers[k].name,
                          sessions |-> sc.routers[k].sessions,
                          targets |-> byRouter[sc.routers[k].name]]]
     /\ pc' = "done"
     /\ UNCHANGED <<dns, file, cfg, sc, at, probes, byRouter, maxInterval>>

(***************************************************************************)
(* The ways prepare fails: s.prepared stays what it was.                   *)
(***************************************************************************)
Fails ==
  /\ pc' = "failed"
  /\ UNCHANGED <<dns, file, cfg, sc, working>>

CliFails == pc = "cli" /\ ~Resolves(0) /\ Fails

SizeFails(i) == AtGroup(i) /\ ~SizeFits(sc.targets[i]) /\ Fails

BuildFails(i) ==
  /\ AtGroup(i)
  /\ SizeFits(sc.targets[i])
  /\ sc.targets[i].router # ""
  /\ \E k \in DOMAIN sc.targets[i].hosts : ~Builds(i, k)
  /\ Fails

LocalFails(i) == pc = "local" /\ at = i /\ ~Resolves(i) /\ Fails

\* The password or the key of a router with targets cannot be read.
DialerFails ==
  /\ pc = "group"
  /\ at > Len(sc.targets)
  /\ \E r \in ToSet(sc.routers) : byRouter[r.name] # {}
  /\ Fails

Next ==
  \/ Read \/ FileMissing \/ Reject \/ Accept
  \/ CliHosts \/ CliFails
  \/ MakeSchedulers \/ DialerFails
  \/ \E i \in 1 .. Len(sc.targets) :
        \/ RemoteTargets(i) \/ NoRouter(i) \/ LocalProbes(i)
        \/ SizeFails(i) \/ BuildFails(i) \/ LocalFails(i)

Spec == Init /\ [][Next]_vars

-----------------------------------------------------------------------------
(***************************************************************************)
(* Properties.                                                             *)
(***************************************************************************)
\* Every variable keeps its type, and prepare works on the configuration in
\* force, which is the previous one or one that Validate accepted.
TypeOK ==
  /\ pc \in {"read", "validate", "cli", "group", "local", "done", "rejected", "failed"}
  /\ \A n \in Names : dns[n] \subseteq {4, 6}
  /\ ConfigForm(file) /\ ConfigForm(cfg)
  /\ pc \in {"read", "validate", "rejected"} => sc = Previous
  /\ sc = Previous \/ (sc = cfg /\ Valid(sc))
  /\ at \in 0 .. Len(sc.targets) + 1
  /\ maxInterval \in Nat

Accepted == pc \in {"cli", "group", "local", "done", "failed"}
Remote(tg) == tg.router # ""

\* Validate (config.go:277-300) and BuildTargets (targets.go:61-99) agree: in
\* an accepted group a host that resolves can only be left without a link
\* when it is a name whose family nobody asked for, which Validate cannot see.
AcceptedGroupsBuild ==
  Accepted =>
    \A i \in DOMAIN sc.targets : \A k \in DOMAIN sc.targets[i].hosts :
      (/\ Remote(sc.targets[i])
       /\ Answers(sc.targets[i].hosts[k], sc.targets[i].network) # {}
       /\ TargetsOf(i, k) = {})
      => ~Literal(sc.targets[i].hosts[k]) /\ sc.targets[i].network = "ip"

AllTargets == UNION {schedulers[k].targets : k \in DOMAIN schedulers}

\* Where the file asks for a host through link l of router r: each place in a
\* group of the router that takes the link, of a host it has a source for.
AskedFor(r, l) ==
  LET takes(tg)  == tg.router = r.name /\ (tg.links = {} \/ l.name \in tg.links)
      has(tg, k) == SourceOf(l, Resolve(tg.hosts[k], tg.network).family) # ""
  IN UNION {{<<i, k>> : k \in {n \in DOMAIN sc.targets[i].hosts : has(sc.targets[i], n)}} :
              i \in {j \in DOMAIN sc.targets : takes(sc.targets[j])}}

\* Nothing is lost or doubled on the way from the groups to the schedulers
\* (main.go:226-231, 267-279): the scheduler of a router has a target for each
\* place where a group of that router asks for a host through a link, and no
\* other, each router has one scheduler at most, and no scheduler is empty.
EveryPairScheduled ==
  pc = "done" =>
    /\ \A j, k \in DOMAIN schedulers : schedulers[j].router = schedulers[k].router => j = k
    /\ \A k \in DOMAIN schedulers : schedulers[k].targets # {}
    /\ \A r \in ToSet(sc.routers) : \A l \in ToSet(r.links) :
         AskedFor(r, l) =
           {<<t.group, t.nth>> : t \in {u \in AllTargets :
              u.link = l.name /\ \E k \in DOMAIN schedulers :
                schedulers[k].router = r.name /\ u \in schedulers[k].targets}}

\* The series to compare with (main.go:237-241, README.md:99): whatever a
\* router pings, this host pings too, at the same address and with the same
\* labels but for source and link.
EveryTargetHasItsLocalSeries ==
  pc = "done" =>
    \A t \in AllTargets :
      \E p \in probes :
        Series(p) = [Series(t) EXCEPT !["source"] = "", !["link"] = ""]

Distinct(S) == \A x, y \in S : Series(x) = Series(y) => x = y

\* Two series with the same labels make every scrape fail (collector.go:238-262).
\* The routers never add such a pair: when the local series of the router
\* groups are all different, so are the series of all targets, and none is a
\* local one, whatever custom labels a group has.
RemoteAddsNoClash ==
  LET compared == {p \in probes : p.group > 0 /\ Remote(sc.targets[p.group])}
  IN pc = "done" /\ Distinct(compared) =>
       /\ Distinct(AllTargets)
       /\ \A t \in AllTargets, p \in probes : Series(t) # Series(p)

\* What the schedulers take for granted: a worker at least, a target at
\* least (the dispatcher divides by their number), an interval NewTicker
\* accepts (scheduler.go:126-160), a count the router accepts, and a source of
\* the family of the address (config.go:232-241, targets.go:66-76): names,
\* "ip4" and "ip6" groups and links with one source only never mix the two.
SchedulersCanRun ==
  \A k \in DOMAIN schedulers :
    /\ schedulers[k].sessions >= 1
    /\ schedulers[k].targets # {}
    /\ \A t \in schedulers[k].targets :
         t.interval > 0 /\ t.count >= 1 /\ Family[t.source] = t.addr.family

\* The intervals are those of the file (config.go:319-340, main.go:229-244): an
\* interval that is written is kept, even the local default in a router group,
\* and the remote interval reaches neither the local pinger of the group nor
\* maxInterval, over which start spreads the local pingers.
IntervalsAreAsWritten ==
  pc = "done" =>
    /\ \A t \in AllTargets :
         t.interval = OrDefault(file.targets[t.group].interval, DefaultRemoteInterval)
    /\ \A p \in probes : p.group > 0 =>
         LET tg == file.targets[p.group]
         IN p.interval = IF Remote(tg) THEN NonZero(tg.local, DefaultInterval)
                                       ELSE OrDefault(tg.interval, DefaultInterval)
    /\ maxInterval = Max({LocalInterval(GroupAt(i)) : i \in 0 .. Len(sc.targets)})
=============================================================================
