# A TLA+ model of smokeping_prober

smokeping_prober pings hosts from where it runs and, for groups that name a
router, from the uplinks of a Huawei VRP router, by typing `ping` into SSH shells.
It exports `requests_total` and a response histogram per target; their difference
is the packet loss everything downstream reads. The model is about that number
staying true, and about the goroutines, sessions and registrations behind it.

Line numbers below are those of the repository; `proofs` means TLAPS.

## Inventory

| part | state | operations | models |
|---|---|---|---|
| scheduler of one router (`remote/scheduler.go`) | pending flag per target, job queue, worker pool, backoff, WaitGroup | `Start`, `Stop`, `schedule`, `enqueue`, `worker`, `runJob` | `Scheduler`, `RunSlots` |
| SSH session (`remote/session.go`) | connection and its deadline, output buffer, chunk channel, learned prompt, closed or not | `Dial`, `Run`, `Close`, `readLoop` | `Session`, `Shell` |
| router | running command, prompt, echo | as in `remote/fakevrp_test.go` | `Session` |
| reload loop and probe life cycle (`main.go`) | prepared and started probes, current histogram and collector, `hup`, `reloadCh` | start-up, SIGHUP, `POST /-/reload`, `prepare`, `start`, `startRemote`, `stop` | `Reload` |
| metrics and collector (`collector.go`, `remote/metrics.go`) | registered vectors, callbacks of the pingers, recorder | `initMetrics`, `updateProbes`, `Record`, `Collect` | `Reload`, `Scheduler` |
| configuration (`config/config.go`) | `sc.C` | `ReloadConfig`, `Validate`, defaults, `SelectLinks` | `Targets`; when it is read, in `Reload` |
| target building (`remote/targets.go`, `main.go`) and label values (`collector.go`) | what `prepare` collects | `prepare`, `Resolve`, `BuildTargets`, `labelNames`, `labelValues` | `Targets` |
| VRP dialect (`remote/huawei.go`) | none | `BuildCommand`, `CommandDeadline`, `ParseOutput` | `PingOutput` |
| local pingers (pro-bing) | packets sent, callbacks | `Run`, `Stop` | external, in `Reload`; their parameters in `Targets` |
| flags, buckets, HTTP pages, dashboards | none of interest | | not modelled |

How they interact: the reload loop builds targets and schedulers from the
configuration (`prepare`), stops the old ones and starts the new ones. A scheduler
dials sessions, runs commands on them, counts requests in the target and hands
replies to the recorder, which writes into the histogram of the attempt that made
it. The collector reads targets and pingers at a scrape. SIGHUP comes through a
channel of capacity one, a POST through a channel of channels.

### What is hard here

* A target's **pending flag** is set by its timer and cleared in three places by
  others. Nothing else prevents overlapping runs, and nothing recovers a flag that
  stays set.
* **Stop** may come while workers dial, back off, wait, hold a job they have not
  begun, or run; `select` chooses freely when two cases are ready.
* **The stream of a shell carries no identity.** An echo, an output or a prompt that
  comes late looks like one that is in time.
* **A reload** is thirteen steps, some of which fail or panic, in a process where
  the registry remembers, and probes of two configurations overlap.
* **Two packages decide the same thing**: `Validate` promises what `BuildTargets`, the
  schedulers and `time.NewTicker` later rely on, and sees no DNS answer.
* **One number from three lines**: `ParseOutput` takes sent, received and replies from
  different places of a text that may be half of an output, or pieces of two.
* **Order of counters**: requests before replies, resets before starts.

`PROJECT.json` lists every hazard at its line with the properties about it.

## The modules

### Scheduler

One action for each step of a goroutine between two accesses to something shared.

| code | actions |
|---|---|
| `Start`, `Stop` (95-123) | `Start`, `StopUnstarted`, `StopCancel`, `StopReturn` |
| `schedule`, `enqueue` (125-158) | `FireSkip`, `FireClaim` (the compare-and-swap), `Send` (the `select`), `TimerExit` |
| `worker`: connecting (170-187) | `DialOk`, `DialFail`, `BackoffElapsed`, `BackoffCancelled` |
| `worker`: the loop (188-205) | `IdleCancelled`, `Dequeue`, `DropJob`, `BeginRun`, `Reconnect` |
| `runJob` (210-238) | `RunOk` (`AddSent`), `Record`, `RunFail`, `EndRun` (the deferred clear) |
| deferred calls (161-168) | `CloseSession`, `WorkerExit` |

`pc[w]` names the place in `worker`/`runJob`; `timer[t]` that in `schedule`/`enqueue`.
Cancellation is `main \in {"stopping", "stopped"}`. `fired`, `recorded`, `dropped` and
`lost` are history variables: no action reads them except the bound on `fired`.
Time is abstract: a timer may fire whenever it is waited for. `dialErrors`, the
worker's part of `errors_total`, counts failed dials up to the bound `MaxDialErrors`
and then stays, so that a router may go on refusing without end.

`RunSlots` says what the scheduler promises whatever its pool and queue look like:
a slot per target that goes free, waiting, running, reported, free; no run begins
while closing; closed only when nothing is under way. `ImplementsRunSlots` maps the
pending flag and the workers' places to the slots and `main` to the phase.

### Session

The caller (`Dial`, `Run`, `Close`), `readLoop` and the router, with the two
directions of the SSH channel as sequences. Text is a sequence of pieces,
each an echo, an output, a prompt or a question, tagged with the run it really belongs
to. The caller cannot read the tag: it sees the kind and, for echo and output, the
destination (`Shows`). One read returns any number of pieces, so `waitPrompt` may look
at the text in the middle of an answer or only after it.

| code | actions |
|---|---|
| `Dial` (75-120), `startShell` | `ConnectFails`, `Connect`, `LoggedIn`, `ShellOpens`, `Refused`, `Unblocked`, `DeadlinePasses` |
| `learnPrompt` (216-245) | `Receive`, `Learned`, `LoginFails`, `Gone` |
| `Run` (248-276), `drain` (279-291) | `StartRun`, `DrainChunk`, `Write`, `WriteFails`, `Answered`, `Interrupt`, `Settled` |
| `waitPrompt` (298-326) | `Ready`, `Receive`, `Gone`, `RunTimeout`, `SettleTimeout` |
| `readLoop` (197-209) | `Read`, `SendChunk`, `ReadFails` |
| `Close` (347-354) | `Shut` within every closing path, `Close` by the worker |
| `fakeVRP.shell` | `TakeCommand`, `PrintOutput`, `Finish`, `TakeCtrlC`, `IgnoreCtrlC`, `StrayPrompt` |

Run 0 is `screen-length 0 temporary`; its failure closes the session. `Disconnect`
is a broken connection and also `Dial`'s `context.AfterFunc` (line 99). `armed` is the
deadline `Dial` puts on the connection and takes away when it returns a session: what
bounds a router that accepts the connection and then says nothing. The router is the
one of `fakevrp_test.go`: it may hang, ignore Ctrl-C, and give `MaxStray` prompts
nobody asked for.

`Shell` is what the scheduler knows of a session: opening, idle, busy, closed; each
command answered once, by its own output or an error; nothing after the end.
`ImplementsShell` maps the caller's place to the phase and the last return to the
answer. `Scheduler` in turn takes a run's outcome as one choice (`RunOk`, `RunFail`,
`Reconnect`), which is `Shell` seen from the worker.

### Reload

The steps of the reload loop one by one, at start-up the same steps up to
`startRemote`. Start-up and each reload that passes `ReloadConfig` is an *attempt*;
vectors, collector, scheduler, recorder and pingers are named by the attempt that made
them, so "what is registered" and "what is written to" can be compared. The registry
is external: registering a taken name, or a name once registered with other label
names, panics.

| code | actions |
|---|---|
| `main` 399-411, `config.go` 130-161 | `TakeHup`, `TakePost`, `ReadConfig` |
| 418-421, `initMetrics` | `UnregisterHistogram`, `InitMetrics`, `RegisterHistogram` |
| `prepare`, 429 | `PrepareOk`, `PrepareFails` |
| `stop`, `start` | `StopScheduler`, `SchedulerStopped`, `StopLocal`, `StartLocal` |
| 438-444, `NewSmokepingCollector` | `DropCollector`, `UpdateProbes`, `RegisterCollector`, `StartRemote` |
| signals, handlers, the file | `Hup`, `EarlyHup`, `Post`, `Edit` |
| a scheduler and the pingers at work | `BeginRun`, `AddSent`, `Record`, `RunFails`, `Ping`, `LocalFails` |

A scheduler is reduced to what `Scheduler` establishes: `AddSent` before `Record`, and a
`Stop` that waits for the run under way. `EarlyHup` is a signal before `signal.Notify`,
which has its default effect; `LocalFails` a pinger whose `Run` returns an error, which
`stop` later hands to a `start` that only logs it.

### Targets

One pass from a file to what is started, group by group in the order of the code. The
operators are the pure functions, the actions the steps between which something is
assigned, and every `return err` is an action of its own.

| code | definitions |
|---|---|
| `UnmarshalYAML`, defaults (`config.go`) | `Decode`, `DecodeRouter`, `DecodeGroup`, `DecodeInterval` |
| `Validate`, `SelectLinks`, `Router` | `Valid` and its parts, `SelectLinks`, `RouterOf` |
| `ReloadConfig` | `Read`, `Reject`, `Accept`; `FileMissing` at start-up |
| `Resolve`, `BuildTargets` (`targets.go`) | `Answers`, `Resolve`, `Target`, `TargetsOf`, `BuildTargets`, `Builds` |
| `prepare` (`main.go`) | `CliGroup`, `GroupAt`, `Probe`, `Probes`, `Resolves`; `CliHosts`, `RemoteTargets`, `NoRouter`, `LocalProbes`, `MakeSchedulers`; `CliFails`, `SizeFails`, `BuildFails`, `LocalFails`, `DialerFails` |
| `labelNames`, `labelValues` (`collector.go`) | `LabelNames`, `LabelValues`, `Series` |

A file is a record with a value `Absent` for a key that is not there, because two
defaults depend on presence and the others on zero. Names and addresses are opaque;
what `net.ParseIP` finds in one is `Family`. `dns` is any answer to each name, an empty
one being an error, and does not change during a pass.

A list of pingers or targets is the set of its members, each with its place: group,
host and, for a target, link. The place gives the order of the code back and tells
equal hosts apart, so nothing a list would say is lost, and the definitions need no
recursion over sequences, about which nothing could be proved. `FilesAssumption` and
`PreviousAssumption` say what the decoder makes of any file: lists of records of the
types of `config.go`, with numbers, and hosts and sources whose family is known.

### PingOutput

A router prints the output of one or two `ping` commands line by line, as in
`huawei_test.go`, with losses, refusals, replies in a format `replyRe` does not match and
an interrupt. The two lines of an IPv6 reply are one line here. In every state every
piece of the text that `cleanOutput` may cut is given to `ParseOutput`. Time is counted
in half milliseconds, which `-t` and `-m` cannot express, so that the rounding of
`BuildCommand` is compared with the exact `CommandDeadline`.

Operators whose comment starts with `Fault:` are not used by any action. Each is a
plausible mistake in the definition that follows it; substituting it makes TLC refute the
property named with it in `PROJECT.json`, which shows that the property depends on the code.

## Runs

| run | shows | bounds |
|---|---|---|
| `Scheduler_pool` | custody of the flags, room in the queue, the account of fires, real loss, the gauge, a clean stop, the backoff, `RunSlots` | 2 workers, 2 targets, 4 fires: both targets fire while queued or running, two workers compete, Stop at any state; results of every kind; backoff from 2 capped at 7; workers are interchangeable (symmetry) |
| `Scheduler_live` | `StopReturns`, `PendingIsServed` | 2 workers, 2 targets, 2 fires |
| `Session_inorder` | a kept session is quiet, unread input stays short, `Dial` leaves nothing behind, `Shell` | 6 runs on one host, channel of 2, no stray prompt |
| `Session_strays` | output is own; `Dial` and `Run` return, `readLoop` ends | 4 runs on different hosts, channel of 2, two stray prompts at any later time |
| `Reload_loop` | no panic, one scheduler, exported loss is real, a whole reload, fresh answers, no lost SIGHUP; every POST is answered, the collector comes back | 2 SIGHUPs, 1 POST, 1 edit, 1 run and 1 ping per attempt |
| `Targets_files` | what `Validate` accepts is built, scheduled once, told apart, comparable with a local series, and can run; intervals are those written | 2 routers, links of one family, of both, and sharing a source; 1 or 2 groups; 3 hosts (IPv4, IPv6, a name with any DNS answer, in the file and on the command line); routers and links of every kind, right and wrong |
| `PingOutput_pieces` | no piece of text makes up a loss, whole outputs are understood, an obeyed command ends in time | 1 to 3 packets, 2 commands, 9 combinations of timeout and pause |

The bounds are small because the hazards are: a flag is mishandled between one timer and
one worker, a stray prompt needs one timeout and two more runs, a reload goes wrong in
itself or after one that failed before it, two groups are enough to share a router or a
host, and a piece of text spans two commands at most, since `Run` drains before it
writes. `Session_inorder` pings one host only, which is the harder case for telling
outputs apart, and six runs so that input could pile up in front of a router that does
not read: `InputIsBounded` stays at three lines however many runs there are.
`ReaderEnds` allows for a reader stuck on a full channel: `readLoop` has no other way
out there, and the model shows that this is the only way it can fail to end. In
`Targets_files` the groups vary in two families, where hosts are and how often they are
pinged, because no code reads keys of both, and pairs of groups vary in what they can
share.

Deadlock checking is off where the system stops: a closed session, a process that has
exited or crashed, a pass of `Targets` that is over, and the bounds of `Session`,
`Reload` and `PingOutput`. `Scheduler` has an explicit `Terminated` step and is checked
for deadlock.

### Where code and documents disagree

Five runs end in a violation, each of a statement quoted from the repository:

* `Session_onehost`: a second Ctrl-C prompt that arrives after the echo of the next
  command ends that command with empty output (a parse error), and the real output
  then answers the next command for the same host, that is, another link's. The
  comments at `session.go:293-297` and `session_test.go:182-186` hold for different
  destinations only (`Session_strays`).
* `Reload_labels`: a reload that changes the label keys panics. `main.go:417` provides
  for it; the registry never forgets a metric's label names (`collector_test.go:108-110`).
* `Reload_rejected`: a reload that fails in `prepare` leaves the old probes running but
  writing to an unregistered histogram, while the design says the previous configuration
  goes on (design document, lines 96 and 100).
* `Reload_startup`: local pingers run before their callbacks are set, so replies of that
  time count as loss (design document, line 130).
* `Reload_signal`: a SIGHUP before the loop listens ends the process, where `README.md:64`
  says without reserve that SIGHUP reloads the configuration. The time is not short:
  `start` spreads the local pingers over the longest local interval before
  `signal.Notify`.

### Fairness

`Scheduler`: weak fairness of each worker and of `Send`, `TimerExit` and `StopReturn`: the
Go runtime runs a goroutine that can move, a dial is bounded by its timeouts and the
context, a run by `CommandDeadline` and the Ctrl-C timeout. Strong fairness of
`BackoffCancelled`: `select` chooses at random among ready cases, so a cancelled worker
does not back off for ever. Timers need not fire and nobody has to call Stop.
`PendingIsServed` assumes in its own statement that the router lets a session in again and
again. `Session`: the caller and `readLoop` run, and a deadline set with `SetDeadline`
passes; nothing is assumed of router or network. `Reload`: the loop runs and a run under
way ends. `Targets` and `PingOutput` claim no liveness and assume no fairness.

## What is proved

Every safety invariant of a passing run and both refinements are theorems, for every
value of the constants. The constants have the assumptions named in their modules
(finite `Targets`, non-empty finite `Workers`, `0 < MinBackoff <= MaxBackoff`, files of
the decoded form, jobs with a count of at least 1, and the like); five theorems have a
hypothesis of their own.

| module | theorem | states |
|---|---|---|
| `SchedulerProofs` | `TypeCorrect`, `OnePlace`, `RoomInQueue` | `TypeOK`, `PendingIsOnePlace`, `QueueHasRoom` |
| `SchedulerCounts` | `GaugeIsSessions`, `CleanStop`, `BackoffReset`, `LossReal`, `FiresAccounted` | `GaugeCountsSessions`, `StopIsClean`, `ConnectedResetsBackoff`, `LossIsReal`, `EveryFireAccounted` |
| `SchedulerRefines` | `SlotsImplemented` | `Spec => ImplementsRunSlots` |
| `SessionProofs` | `SessionTypes`, `DialLeavesNothing` | `TypeOK`, `DialIsOver` |
| | `AnchoredOutputIsOwn`, when no two runs have one destination | `OutputIsOwn`, with any number of stray prompts |
| `SessionInOrder` | `KeptSessionIsQuiet`, `InputStaysBounded`, when `MaxStray = 0` | `KeptMeansQuiet`, `InputIsBounded` |
| | `ShellImplemented`, when `MaxStray = 0` | `Spec => ImplementsShell` |
| `ReloadProofs` | `ReloadTypes`, `OneSchedulerAtATime`, `ExportedLoss`, `SuccessfulReloadIsWhole`, `AnsweredPostsAreFresh`, `NoHupIsLost` | `TypeOK`, `OneScheduler`, `ExportedLossIsReal`, `ReloadIsWhole`, `PostIsFresh`, `HupIsServed` |
| | `SameLabelsNeverPanic`, when all label sets are equal | `NeverPanics` |
| `TargetsProofs` | `TargetsTypes`, `ValidGroupsBuild`, `AcceptedSchedulersRun`, `PairsScheduled`, `LocalSeriesBesideTargets`, `RemoteSeriesAreNew`, `IntervalsKept` | `TypeOK`, `AcceptedGroupsBuild`, `SchedulersCanRun`, `EveryPairScheduled`, `EveryTargetHasItsLocalSeries`, `RemoteAddsNoClash`, `IntervalsAreAsWritten` |
| `PingProofs` | `PingTypes`, `NoTextMakesUpALoss`, `WholeOutputsAreUnderstood`, `ObeyedCommandsEndInTime` | `TypeOK`, `NoFalseLoss`, `WholeOutputIsUnderstood`, `ObeyedCommandEndsInTime` |

The hypotheses are those the code relies on, and runs show what happens without them. The
anchor of `waitPrompt` is the last token of the command, so it tells commands
for different destinations apart and no others (`Session_onehost`). A router that gives
one prompt per command is what the comments of `session.go` reason about; with more,
a session may be kept while a prompt is still to come, and on one destination that ends
in a wrong answer (`Session_onehost` again). The registry keeps a metric's
label names for ever (`Reload_labels`).

### The arguments

*Scheduler.* The central invariant is `Custody`: a target in the queue, in the hands of a
worker or claimed by its timer has its flag set; it is in one such place at most; and a
set flag has such a place. `PendingIsOnePlace` counts these places and is not inductive
in that form: what a step does to one place needs to know what the others hold, so
`Custody` states it with quantifiers and `CustodyOnePlace` counts at the end. It also
says that before `Start` nobody holds anything, without which `Start` could overlook a
job. `QueueHasRoom` follows because the queue holds distinct targets and not the claimed
one. `LossIsReal` is strengthened to `Books`: a ledger per target that balances exactly,
whether or not a worker is between `AddSent` and `Record`, which needs custody for "no
two workers record for one target". In the refinement each action maps to one move of
one slot, and custody shows that no other slot changes.

*Session.* `OutputIsOwn` is about one return, but what makes it true is the order of the
whole stream. `InOrder` says that the runs whose text has been read, is in the channel,
in the hands of `readLoop` and on its way, the run the router works on and the commands
it has not read follow one another. Then what comes after the echo of run `n` cannot be
of an earlier run, nor of a later one, which is not written yet: whatever timed out or
was prompted before. Quiet sessions need more: `InPhase` says for each place of the
caller what may be anywhere between it and the router. Either the command has not been
read and all is silent (`Unread`), or all that is on its way is the command's and the
prompt that ends it is the last of it (`Begun`). `InputIsBounded` is read off the same
invariant, which lists what may be unread at each place.

*Reload.* `AttemptIsNew` and `SchedulersInPlace` say which attempt is live at each step of
the loop and that no other runs; the loop's thirteen steps are grouped in those before
and after the point where the new probes take over. On them rest `Books` (an account per
attempt that balances), `RegistryInStep` and `PingersInStep` (what each step has left
registered and running), `WholeAtSelect`, and `RequestsInTime`, which relates what each
signal and POST saw of the file to what the loop has read since. `AttemptsArePaid` bounds
the attempts by the signals and POSTs made.

*Targets.* `Collected` says what `prepare` has put together when it stands at group `i`:
the pingers of every group before it, the targets, under their router's name, of every
router group before it, and the longest interval so far. At the end it is a closed form
of `probes`, `byRouter` and `schedulers` in terms of the configuration, from which the
properties follow by what `Valid` demands: `StartedTarget` gives for each target the
group, host and link it comes from.

*PingOutput.* `Paired`: the two counts of one command stand on adjacent lines. Any piece of
text that does not begin between them takes both from one command, and that is why half
an output makes up no loss. `OwnIsTallied` counts the lines of the command under way
against the router's own counters, and `InTime` bounds the time spent by the packets
given up and the pauses made.

### What proving changed

* Two arms of the mapping of `Session` to `Shell` overlapped: a first dial that fails was both
  "opening" and "closed". TLC took the first arm; the mapping now excludes the overlap.
* `IntervalsAreAsWritten` said that `maxInterval` is the longest interval of the pingers. It
  is not for a group without hosts: the code raises it before the loop over the hosts
  (`main.go:241-243`). The small instance had no such group. The property now speaks of
  groups, which is what the code computes and only lengthens the splay.
* A job with a count of zero was allowed by an assumption of `PingOutput`; `Validate` excludes
  it (`config.go`), and the assumption now does.

### Only model-checked

Liveness (`StopReturns`, `PendingIsServed`, `DialReturns`, `RunReturns`, `ReaderEnds`,
`EveryPostIsAnswered`, `CollectorComesBack`), which the prover cannot treat, and the
disagreements of the five violation runs.

## Not modelled

* Time between starts: offsets and splays (any order of fires is allowed).
* The details of login: credentials, host keys and `known_hosts` are granted, refused or
  never answered; reading a key file may fail.
* The SSH window: a write does not block. `InputIsBounded` is why this loses little: at
  most three short lines are ever unread.
* ANSI sequences and wrapped echoes in the text; the spelling of the command (family,
  `-vpn-instance`, `-tos`, `-a`), which is wording without state; the two lines of an IPv6
  reply.
* Destinations one of which is a part of the other: they count as one host (`Shows`).
* DNS answers that change between the resolution of a target and of its local pinger.
* `timeout` and `packet_interval` below zero, which nothing validates: the model takes
  them to be what an operator would write.
* Several routers in one process under way at once: the schedulers share nothing but the
  registry, so `Reload` and `Scheduler` have one.
* Flag and bucket parsing, the landing page and the health check, dashboards, alerting
  rules and build files: straight-line code or no code.
* Scrapes, which only read.

## Plan

1. Compose: `Remote`, several sessions under the worker pool, to carry the stray-prompt
   question to the metric: which target's histogram a reply reaches.
2. Prove: what of `Shell` remains with stray prompts (each command answered once, nothing
   after the end); that the outcomes of a run in `Scheduler` are those `Shell` allows.
