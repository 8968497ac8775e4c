-------------------------------- MODULE Reload --------------------------------
(***************************************************************************)
(* The life of the process (main.go) and of what it exports (collector.go):*)
(* start-up, SIGHUP, POST /-/reload, the registry of metrics, the local    *)
(* pingers and the schedulers of one router across reloads.                *)
(*                                                                         *)
(* Start-up and every reload that gets past ReloadConfig is an attempt.    *)
(* Attempt g creates the metric vectors, the probes, the targets, the      *)
(* recorder, the collector and the scheduler called g here; the recorder   *)
(* and the pinger callbacks of g write to the histogram of g.              *)
(*                                                                         *)
(* The goroutine of the reload loop runs the steps of main.go one by one,  *)
(* interleaved with requests, edits of the file, runs and pings.  A        *)
(* scheduler is reduced to what module Scheduler promises: runs one at a   *)
(* time per target, AddSent before Record, and a Stop that waits.          *)
(***************************************************************************)
EXTENDS Integers, FiniteSets

CONSTANTS
  Labels,       \* the label sets a configuration may ask for
  Posters,      \* HTTP handlers, one POST /-/reload each
  MaxHups,      \* bound: SIGHUPs
  MaxEdits,     \* bound: edits of the configuration file
  MaxRuns,      \* bound: remote runs of one attempt
  MaxPings,     \* bound: local pings of one attempt
  None          \* "no attempt", "nobody"

ASSUME PostersAssumption == IsFiniteSet(Posters) /\ None \notin Posters
ASSUME BoundsAssumption  == {MaxHups, MaxEdits, MaxRuns, MaxPings} \subseteq Nat
ASSUME NoneAssumption    == None \notin Nat

VARIABLES
  proc,      \* the process: "up", "exited" (os.Exit) or "crashed" (panic)
  loop,      \* the next step of the reload loop
  client,    \* the handler the loop answers to, None for a SIGHUP
  file,      \* the configuration file: its version and what it asks for
  loaded,    \* sc.C, with the version it was read from
  tried,     \* the version the last ReloadConfig read, accepted or not
  attempt,   \* the last attempt
  succeeded, \* the last reload ran to its end
  hup,       \* the channel hup, of capacity 1
  hups,      \* how many SIGHUPs there were
  hupped,    \* history: the file's version at the last SIGHUP
  post,      \* what each handler is doing
  asked,     \* history: the file's version when each handler began
  got,       \* history: the version each successful answer stands for
  reg,       \* the registry: which attempt's object has each name
  dims,      \* the label set the registry remembers for these names
  live,      \* the attempt whose probes and targets are started
  applied,   \* history: the version of the file they come from
  sched,     \* the scheduler of each attempt
  run,       \* its run: none, on the router, between AddSent and Record
  local,     \* the local pingers of each attempt
  hooked,    \* their callbacks are set
  sent, observed, lost,  \* remote: requests, histogram count, reported loss
  pings, answered        \* local: packets (each is answered), histogram count

signals  == <<hup, hups, hupped>>
posts    == <<post, asked, got>>
config   == <<file, loaded, tried>>
remote   == <<run, sent, observed, lost>>
locals   == <<pings, answered>>
probes   == <<live, applied, sched, local, hooked>>
vars     == <<proc, loop, client, config, attempt, succeeded, signals, posts,
              reg, dims, probes, remote, locals>>

Attempts == 0 .. MaxHups + Cardinality(Posters)
Versions == 0 .. MaxEdits

\* accepted: ReloadConfig returns nil.  targets: it lists at least one target.
Configs  == [accepted : BOOLEAN, targets : BOOLEAN, labels : Labels]
Files    == [version : Versions, cfg : Configs]

Names    == {"vectors", "histogram", "collector"}
LoopPC   == {"vectors", "histogram", "prepare", "stop", "drain", "stopLocal",
             "startLocal", "dropCollector", "updateProbes", "collector",
             "startRemote", "select", "read", "unregister"}

-----------------------------------------------------------------------------
(***************************************************************************)
(* The Prometheus registry, from state r to the next step of the loop.     *)
(* MustRegister panics when the name is taken, and when it was ever        *)
(* registered with other label names: the registry keeps them              *)
(* (dimHashesByName) when a metric is unregistered.                        *)
(***************************************************************************)
Without(name) == [reg EXCEPT ![name] = None]

MustRegister(r, name, next) ==
  IF r[name] = None /\ dims \in {None, loaded.cfg.labels}
    THEN /\ reg' = [r EXCEPT ![name] = attempt]
         /\ dims' = loaded.cfg.labels
         /\ loop' = next
         /\ UNCHANGED proc
    ELSE /\ proc' = "crashed"
         /\ reg' = r
         /\ UNCHANGED <<dims, loop>>

(***************************************************************************)
(* main has read the file and is about to create the metrics.              *)
(***************************************************************************)
Init ==
  /\ proc = "up"
  /\ loop = "vectors"
  /\ client = None
  /\ file \in [version : {0}, cfg : [accepted : {TRUE}, targets : {TRUE},
                                     labels : Labels]]
  /\ loaded = file
  /\ tried = 0
  /\ attempt = 0
  /\ succeeded = FALSE
  /\ hup = FALSE
  /\ hups = 0
  /\ hupped = 0
  /\ post = [p \in Posters |-> "none"]
  /\ asked = [p \in Posters |-> 0]
  /\ got = [p \in Posters |-> 0]
  /\ reg = [name \in Names |-> None]
  /\ dims = None
  /\ live = None
  /\ applied = 0
  /\ sched = [g \in Attempts |-> "none"]
  /\ run = [g \in Attempts |-> "none"]
  /\ local = [g \in Attempts |-> "none"]
  /\ hooked = [g \in Attempts |-> FALSE]
  /\ sent = [g \in Attempts |-> 0]
  /\ observed = [g \in Attempts |-> 0]
  /\ lost = [g \in Attempts |-> 0]
  /\ pings = [g \in Attempts |-> 0]
  /\ answered = [g \in Attempts |-> 0]

(***************************************************************************)
(* Requests.  The handlers and the signal channel exist once main has      *)
(* started everything.                                                     *)
(***************************************************************************)
Serving == proc = "up" /\ (attempt > 0 \/ loop \in {"select", "read", "unregister"})

\* The operator edits the file.
Edit(c) ==
  /\ proc = "up"
  /\ file.version < MaxEdits
  /\ file' = [version |-> file.version + 1, cfg |-> c]
  /\ UNCHANGED <<proc, loop, client, loaded, tried, attempt, succeeded, signals,
                 posts, reg, dims, probes, remote, locals>>

\* Fault: make(chan os.Signal), without the buffer.
HupUnbuffered ==
  /\ Serving
  /\ hups < MaxHups
  /\ hups' = hups + 1
  /\ hup' = (loop = "select")
  /\ hupped' = file.version
  /\ UNCHANGED <<proc, loop, client, config, attempt, succeeded, posts, reg, dims,
                 probes, remote, locals>>

\* A SIGHUP: signal.Notify does not wait, a signal that finds another one in
\* the channel is dropped.
Hup ==
  /\ Serving
  /\ hups < MaxHups
  /\ hups' = hups + 1
  /\ hup' = TRUE
  /\ hupped' = file.version
  /\ UNCHANGED <<proc, loop, client, config, attempt, succeeded, posts, reg, dims,
                 probes, remote, locals>>

\* Before signal.Notify a SIGHUP has its default effect.
EarlyHup ==
  /\ proc = "up" /\ ~Serving
  /\ hups < MaxHups
  /\ hups' = hups + 1
  /\ hupped' = file.version
  /\ proc' = "exited"
  /\ UNCHANGED <<loop, client, config, attempt, succeeded, hup, posts, reg, dims,
                 probes, remote, locals>>

\* The handler of POST /-/reload waits for the loop to take its channel.
Post(p) ==
  /\ Serving
  /\ post[p] = "none"
  /\ post' = [post EXCEPT ![p] = "asking"]
  /\ asked' = [asked EXCEPT ![p] = file.version]
  /\ UNCHANGED <<proc, loop, client, config, attempt, succeeded, signals, got, reg,
                 dims, probes, remote, locals>>

(***************************************************************************)
(* The reload loop takes a request.                                        *)
(***************************************************************************)
At(step) == proc = "up" /\ loop = step

TakeHup ==
  /\ At("select")
  /\ hup
  /\ hup' = FALSE
  /\ client' = None
  /\ loop' = "read"
  /\ UNCHANGED <<proc, config, attempt, succeeded, hups, hupped, posts, reg, dims,
                 probes, remote, locals>>

TakePost(p) ==
  /\ At("select")
  /\ post[p] = "asking"
  /\ post' = [post EXCEPT ![p] = "waiting"]
  /\ client' = p
  /\ loop' = "read"
  /\ UNCHANGED <<proc, config, attempt, succeeded, signals, asked, got, reg, dims,
                 probes, remote, locals>>

\* errCallback and successCallback; the handler of the client is waiting.
Answer(result) ==
  IF client = None
    THEN UNCHANGED <<post, got>>
    ELSE /\ post' = [post EXCEPT ![client] = result]
         /\ got' = [got EXCEPT ![client] = applied]

\* Fault: continue without calling errCallback.
GiveUpSilently ==
  /\ succeeded' = FALSE
  /\ IF live = None
       THEN proc' = "exited" /\ UNCHANGED <<loop, post, got>>
       ELSE loop' = "select" /\ UNCHANGED <<proc, post, got>>

\* Fault: the error is logged and the client told that all is well.
GiveUpCheerfully ==
  /\ succeeded' = FALSE
  /\ IF live = None
       THEN proc' = "exited" /\ UNCHANGED <<loop, post, got>>
       ELSE loop' = "select" /\ Answer("ok") /\ UNCHANGED proc

\* A failed reload: the error goes to the client and the loop waits again.  At
\* start-up there is no loop yet and main exits.
GiveUp ==
  /\ succeeded' = FALSE
  /\ IF live = None
       THEN proc' = "exited" /\ UNCHANGED <<loop, post, got>>
       ELSE loop' = "select" /\ Answer("failed") /\ UNCHANGED proc

\* Fault: sc.C is replaced before the configuration is validated.
ReadConfigUnchecked ==
  /\ At("read")
  /\ tried' = file.version
  /\ loaded' = file
  /\ IF file.cfg.accepted
       THEN loop' = "unregister" /\ UNCHANGED <<proc, succeeded, post, got>>
       ELSE GiveUp
  /\ UNCHANGED <<client, file, attempt, signals, asked, reg, dims, probes, remote,
                 locals>>

\* sc.ReloadConfig: sc.C is replaced only by a configuration that is accepted.
ReadConfig ==
  /\ At("read")
  /\ tried' = file.version
  /\ IF file.cfg.accepted
       THEN /\ loaded' = file
            /\ loop' = "unregister"
            /\ UNCHANGED <<proc, succeeded, post, got>>
       ELSE GiveUp /\ UNCHANGED loaded
  /\ UNCHANGED <<client, file, attempt, signals, asked, reg, dims, probes, remote,
                 locals>>

(***************************************************************************)
(* The metrics of the new attempt, then its probes.                        *)
(***************************************************************************)

\* Fault: the old histogram stays registered.
UnregisterNothing ==
  /\ At("unregister")
  /\ attempt' = attempt + 1
  /\ loop' = "vectors"
  /\ UNCHANGED <<proc, client, config, succeeded, signals, posts, reg, dims, probes,
                 remote, locals>>

\* Fault: the collector goes with the histogram, before prepare can fail.
UnregisterEverything ==
  /\ At("unregister")
  /\ reg' = [reg EXCEPT !["histogram"] = None, !["collector"] = None]
  /\ attempt' = attempt + 1
  /\ loop' = "vectors"
  /\ UNCHANGED <<proc, client, config, succeeded, signals, posts, dims, probes,
                 remote, locals>>

UnregisterHistogram ==
  /\ At("unregister")
  /\ reg' = Without("histogram")
  /\ attempt' = attempt + 1
  /\ loop' = "vectors"
  /\ UNCHANGED <<proc, client, config, succeeded, signals, posts, dims, probes,
                 remote, locals>>

\* initMetrics: the old vectors leave the registry, promauto registers new ones.
InitMetrics ==
  /\ At("vectors")
  /\ MustRegister(Without("vectors"), "vectors", "histogram")
  /\ UNCHANGED <<client, config, attempt, succeeded, signals, posts, probes, remote,
                 locals>>

RegisterHistogram ==
  /\ At("histogram")
  /\ MustRegister(reg, "histogram", "prepare")
  /\ UNCHANGED <<client, config, attempt, succeeded, signals, posts, probes, remote,
                 locals>>

\* prepare resolves every host and loads every key: it may fail whatever the
\* file says.  No target at all is an error too.
PrepareFails ==
  /\ At("prepare")
  /\ GiveUp
  /\ UNCHANGED <<client, config, attempt, signals, asked, reg, dims, probes, remote,
                 locals>>

PrepareOk ==
  /\ At("prepare")
  /\ loaded.cfg.targets
  /\ sched' = [sched EXCEPT ![attempt] = "ready"]
  /\ local' = [local EXCEPT ![attempt] = "ready"]
  /\ loop' = IF live = None THEN "startLocal" ELSE "stop"
  /\ UNCHANGED <<proc, client, config, attempt, succeeded, signals, posts, reg, dims,
                 live, applied, hooked, remote, locals>>

(***************************************************************************)
(* smokePingers.start: stop what runs, the schedulers first, then run the  *)
(* prepared local pingers.                                                 *)
(***************************************************************************)
StopScheduler ==
  /\ At("stop")
  /\ sched' = [sched EXCEPT ![live] = "stopping"]
  /\ loop' = "drain"
  /\ UNCHANGED <<proc, client, config, attempt, succeeded, signals, posts, reg, dims,
                 live, applied, local, hooked, remote, locals>>

\* Fault: Stop cancels and does not wait.
LeaveScheduler ==
  /\ At("drain")
  /\ loop' = "stopLocal"
  /\ UNCHANGED <<proc, client, config, attempt, succeeded, signals, posts, reg, dims,
                 probes, remote, locals>>

\* Stop returns once the run under way is over.
SchedulerStopped ==
  /\ At("drain")
  /\ run[live] = "none"
  /\ sched' = [sched EXCEPT ![live] = "stopped"]
  /\ loop' = "stopLocal"
  /\ UNCHANGED <<proc, client, config, attempt, succeeded, signals, posts, reg, dims,
                 live, applied, local, hooked, remote, locals>>

\* Fault: the old pingers are forgotten, not stopped.
ForgetLocal ==
  /\ At("stopLocal")
  /\ loop' = "startLocal"
  /\ UNCHANGED <<proc, client, config, attempt, succeeded, signals, posts, reg, dims,
                 probes, remote, locals>>

\* Fault: start returns when stop reports that a pinger failed.
StopLocalOrReturn ==
  /\ At("stopLocal")
  /\ local' = [local EXCEPT ![live] = "stopped"]
  /\ loop' = IF local[live] = "failed" THEN "dropCollector" ELSE "startLocal"
  /\ UNCHANGED <<proc, client, config, attempt, succeeded, signals, posts, reg, dims,
                 live, applied, sched, hooked, remote, locals>>

\* What a pinger that ended by itself returned is reported, and start goes on.
StopLocal ==
  /\ At("stopLocal")
  /\ local' = [local EXCEPT ![live] = "stopped"]
  /\ loop' = "startLocal"
  /\ UNCHANGED <<proc, client, config, attempt, succeeded, signals, posts, reg, dims,
                 live, applied, sched, hooked, remote, locals>>

\* Fault: start() starts the schedulers too, before the collector exists.
StartBoth ==
  /\ At("startLocal")
  /\ local' = [local EXCEPT ![attempt] = "running"]
  /\ sched' = [sched EXCEPT ![attempt] = "running"]
  /\ live' = attempt
  /\ applied' = loaded.version
  /\ loop' = "dropCollector"
  /\ UNCHANGED <<proc, client, config, attempt, succeeded, signals, posts, reg, dims,
                 hooked, remote, locals>>

StartLocal ==
  /\ At("startLocal")
  /\ local' = [local EXCEPT ![attempt] = "running"]
  /\ live' = attempt
  /\ applied' = loaded.version
  /\ loop' = "dropCollector"
  /\ UNCHANGED <<proc, client, config, attempt, succeeded, signals, posts, reg, dims,
                 sched, hooked, remote, locals>>

(***************************************************************************)
(* The collector, and at last the new scheduler.                           *)
(***************************************************************************)
DropCollector ==
  /\ At("dropCollector")
  /\ reg' = Without("collector")
  /\ loop' = "updateProbes"
  /\ UNCHANGED <<proc, client, config, attempt, succeeded, signals, posts, dims,
                 probes, remote, locals>>

\* NewSmokepingCollector: updateProbes empties the vectors and sets the
\* callbacks of the pingers, which run already.
UpdateProbes ==
  /\ At("updateProbes")
  /\ observed' = [observed EXCEPT ![attempt] = 0]
  /\ answered' = [answered EXCEPT ![attempt] = 0]
  /\ hooked' = [hooked EXCEPT ![live] = TRUE]
  /\ loop' = "collector"
  /\ UNCHANGED <<proc, client, config, attempt, succeeded, signals, posts, reg, dims,
                 live, applied, sched, local, run, sent, lost, pings>>

RegisterCollector ==
  /\ At("collector")
  /\ MustRegister(reg, "collector", "startRemote")
  /\ UNCHANGED <<client, config, attempt, succeeded, signals, posts, probes, remote,
                 locals>>

StartRemote ==
  /\ At("startRemote")
  /\ sched' = [sched EXCEPT ![live] = "running"]
  /\ succeeded' = TRUE
  /\ Answer("ok")
  /\ loop' = "select"
  /\ UNCHANGED <<proc, client, config, attempt, signals, asked, reg, dims, live,
                 applied, local, hooked, remote, locals>>

(***************************************************************************)
(* The schedulers and the local pingers.  A run sends two requests and one *)
(* is answered; a local ping is always answered.                           *)
(***************************************************************************)
BeginRun(g) ==
  /\ proc = "up"
  /\ sched[g] = "running"
  /\ run[g] = "none"
  /\ sent[g] < 2 * MaxRuns
  /\ run' = [run EXCEPT ![g] = "run"]
  /\ UNCHANGED <<proc, loop, client, config, attempt, succeeded, signals, posts, reg,
                 dims, probes, sent, observed, lost, locals>>

RunFails(g) ==
  /\ proc = "up"
  /\ run[g] = "run"
  /\ run' = [run EXCEPT ![g] = "none"]
  /\ UNCHANGED <<proc, loop, client, config, attempt, succeeded, signals, posts, reg,
                 dims, probes, sent, observed, lost, locals>>

AddSent(g) ==
  /\ proc = "up"
  /\ run[g] = "run"
  /\ sent' = [sent EXCEPT ![g] = @ + 2]
  /\ run' = [run EXCEPT ![g] = "sent"]
  /\ UNCHANGED <<proc, loop, client, config, attempt, succeeded, signals, posts, reg,
                 dims, probes, observed, lost, locals>>

\* remoteRecorder.Record, into the histogram of its own attempt.
Record(g) ==
  /\ proc = "up"
  /\ run[g] = "sent"
  /\ observed' = [observed EXCEPT ![g] = @ + 1]
  /\ lost' = [lost EXCEPT ![g] = @ + 1]
  /\ run' = [run EXCEPT ![g] = "none"]
  /\ UNCHANGED <<proc, loop, client, config, attempt, succeeded, signals, posts, reg,
                 dims, probes, sent, locals>>

\* A reply reaches OnRecv only when it is set.
Ping(g) ==
  /\ proc = "up"
  /\ local[g] = "running"
  /\ pings[g] < MaxPings
  /\ pings' = [pings EXCEPT ![g] = @ + 1]
  /\ answered' = [answered EXCEPT ![g] = IF hooked[g] THEN @ + 1 ELSE @]
  /\ UNCHANGED <<proc, loop, client, config, attempt, succeeded, signals, posts, reg,
                 dims, probes, remote>>

\* Run of a local pinger returns an error; nothing starts it again.
LocalFails(g) ==
  /\ proc = "up"
  /\ local[g] = "running"
  /\ local' = [local EXCEPT ![g] = "failed"]
  /\ UNCHANGED <<proc, loop, client, config, attempt, succeeded, signals, posts, reg,
                 dims, live, applied, sched, hooked, remote, locals>>

-----------------------------------------------------------------------------
Step ==
  \/ TakeHup
  \/ \E p \in Posters : TakePost(p)
  \/ ReadConfig \/ UnregisterHistogram \/ InitMetrics \/ RegisterHistogram
  \/ PrepareFails \/ PrepareOk
  \/ StopScheduler \/ SchedulerStopped \/ StopLocal \/ StartLocal
  \/ DropCollector \/ UpdateProbes \/ RegisterCollector \/ StartRemote

Finish(g) == RunFails(g) \/ AddSent(g) \/ Record(g)

Next ==
  \/ \E c \in Configs : Edit(c)
  \/ Hup \/ EarlyHup
  \/ \E p \in Posters : Post(p)
  \/ Step
  \/ \E g \in Attempts : BeginRun(g) \/ Finish(g) \/ Ping(g) \/ LocalFails(g)

Spec == Init /\ [][Next]_vars

\* The loop goes on, and a run on the router ends (its deadline): what Stop
\* needs to return.  Requests, edits, runs and pings need not happen.
Fairness == WF_vars(Step) /\ \A g \in Attempts : WF_vars(Finish(g))

FairSpec == Spec /\ Fairness

-----------------------------------------------------------------------------
(***************************************************************************)
(* Properties.                                                             *)
(***************************************************************************)
\* sc.C is always a configuration that Validate accepted (config.go:152-158).
TypeOK ==
  /\ proc \in {"up", "exited", "crashed"}
  /\ loop \in LoopPC
  /\ client \in Posters \cup {None}
  /\ file \in Files
  /\ loaded \in Files /\ loaded.cfg.accepted
  /\ tried \in Versions
  /\ attempt \in Attempts
  /\ {succeeded, hup} \subseteq BOOLEAN
  /\ hups \in 0 .. MaxHups
  /\ hupped \in Versions
  /\ post \in [Posters -> {"none", "asking", "waiting", "ok", "failed"}]
  /\ asked \in [Posters -> Versions]
  /\ got \in [Posters -> Versions]
  /\ reg \in [Names -> Attempts \cup {None}]
  /\ dims \in Labels \cup {None}
  /\ live \in Attempts \cup {None}
  /\ applied \in Versions
  /\ sched \in [Attempts -> {"none", "ready", "running", "stopping", "stopped"}]
  /\ run \in [Attempts -> {"none", "run", "sent"}]
  /\ local \in [Attempts -> {"none", "ready", "running", "failed", "stopped"}]
  /\ hooked \in [Attempts -> BOOLEAN]
  /\ {sent, observed, lost, pings, answered} \subseteq [Attempts -> Nat]

\* No registration panics, whatever reloads failed before (main.go:419-421,
\* 438-440): every name a reload registers it has unregistered first.
NeverPanics == proc # "crashed"

\* Two schedulers of a router never run at once, also while one is stopping:
\* the open sessions stay within "sessions" across reloads (main.go:125,
\* README.md:105).
OneScheduler ==
  \A g, h \in Attempts :
    sched[g] \in {"running", "stopping"} /\ sched[h] \in {"running", "stopping"}
      => g = h

\* Whenever requests_total and the histogram exported belong together, their
\* difference is the loss the router reported: no observation is wiped by
\* updateProbes after its requests were counted (main.go:159-165).
ExportedLossIsReal ==
  \A g \in Attempts :
    reg["collector"] = g /\ reg["histogram"] = g =>
      \/ sent[g] - observed[g] = lost[g]
      \/ run[g] = "sent" /\ sent[g] - observed[g] = lost[g] + 2

\* After a reload that succeeded, what runs, what is registered and what the
\* callbacks write to are of the same attempt, and nothing older runs, also
\* when a local pinger of the attempt before had failed.
ReloadIsWhole ==
  At("select") /\ succeeded =>
    /\ \A name \in Names : reg[name] = live
    /\ hooked[live]
    /\ \A g \in Attempts : sched[g] = "running" <=> g = live
    /\ \A g \in Attempts : local[g] \in {"running", "failed"} <=> g = live

\* A POST that was answered without an error is answered by probes made from
\* the file as it was when the request came, or from a later one.
PostIsFresh == \A p \in Posters : post[p] = "ok" => got[p] >= asked[p]

\* No SIGHUP is lost: when the loop waits and the channel is empty, the file
\* was read after the last signal (main.go:392).
HupIsServed == At("select") /\ ~hup => tried >= hupped

\* Every POST is answered (main.go:461-463), unless the process is gone.
EveryPostIsAnswered ==
  \A p \in Posters :
    post[p] = "asking" ~> (post[p] \in {"ok", "failed"} \/ proc # "up")

\* A scrape that finds no collector is followed by one that does, whatever
\* fails in the reload between (main.go:438-440).
CollectorComesBack ==
  reg["collector"] = None ~> (reg["collector"] # None \/ proc # "up")

\* The configuration can be reloaded with SIGHUP (README.md:64): the signal
\* does not end the process, whenever it comes.
HupEndsNothing == hups > 0 => proc # "exited"

\* A configuration rejected on reload leaves the previous one running and
\* reporting: the design says so of a group without a usable link
\* (docs/superpowers/specs/2026-09-24-remote-ping-huawei-design.md:96, 100).
PreviousKeepsReporting ==
  At("select") => reg["histogram"] = live /\ reg["collector"] = live

\* The metrics are created anew "with possibly updated label keys"
\* (main.go:417): a reload that changes them goes through.
NewLabelsAreAccepted ==
  dims # None /\ loaded.cfg.labels # dims => proc # "crashed"

\* The loss of a local pinger is requests_total minus the histogram count
\* (docs/superpowers/specs/2026-09-24-remote-ping-huawei-design.md:130).
LocalLossIsReal ==
  \A g \in Attempts :
    reg["collector"] = g /\ reg["histogram"] = g => pings[g] = answered[g]
=============================================================================
