------------------------------ MODULE Scheduler ------------------------------
(***************************************************************************)
(* The scheduler of one router (remote/scheduler.go): a pool of workers,   *)
(* each owning at most one SSH session, one timer goroutine per target,    *)
(* and the buffered channel between them.                                  *)
(*                                                                         *)
(* Every action is one atomic step of one goroutine: the code between two  *)
(* accesses to something another goroutine can see (the pending flags, the *)
(* queue, the context, the WaitGroup, a metric).  Time is abstract: a      *)
(* timer may fire whenever its goroutine waits for it, a dial or a run may *)
(* return any of its outcomes at any moment.                               *)
(***************************************************************************)
EXTENDS Integers, Sequences, FiniteSets

CONSTANTS
  Targets,      \* the (host, link) pairs of this router (s.targets)
  Workers,      \* one per configured session (s.sessions)
  Results,      \* what ParseOutput may return: echo requests sent, replies
  MinBackoff,   \* s.minBackoff
  MaxBackoff,   \* s.maxBackoff
  MaxFires,     \* bound: how often the timers fire in total
  MaxDialErrors, \* bound: failed dials that are counted, there may be more
  NoTarget      \* "this worker holds no job"

ASSUME TargetsAssumption == IsFiniteSet(Targets) /\ NoTarget \notin Targets
ASSUME WorkersAssumption == IsFiniteSet(Workers) /\ Workers # {}
ASSUME ResultsAssumption == Results \subseteq [sent : Nat, replies : Nat]
ASSUME BackoffAssumption == /\ MinBackoff \in Nat \ {0}
                            /\ MaxBackoff \in Nat
                            /\ MinBackoff <= MaxBackoff
ASSUME BoundsAssumption  == MaxFires \in Nat /\ MaxDialErrors \in Nat

VARIABLES
  main,         \* life of the Scheduler: before Start, running, in Stop, after
  wg,           \* s.wg, the WaitGroup Stop waits on
  timer,        \* where each target's schedule goroutine is
  pending,      \* Target.pending
  queue,        \* s.queue, a buffered channel
  pc,           \* where each worker goroutine is
  job,          \* the target a worker took off the queue
  res,          \* the parsed result a worker is about to record
  backoff,      \* a worker's backoff
  sessionsUp,   \* the gauge sessions_up{router}
  jobsSkipped,  \* the counter jobs_skipped_total{router}
  remoteErrors, \* errors_total{router, reason}, the part runJob increments
  dialErrors,   \* the part of errors_total{router, "connect"} worker increments
  sent,         \* Target.sent, exported as requests_total
  observed,     \* observations of each target in the response histogram
  fired,        \* history: timer fires
  recorded,     \* history: calls of Recorder.Record
  dropped,      \* history: jobs a worker dropped because Stop was called
  lost          \* history: echo requests of recorded runs without a reply

life    == <<main, wg>>
wvars   == <<pc, job, res, backoff>>
metrics == <<sessionsUp, jobsSkipped, remoteErrors, dialErrors, sent, observed>>
history == <<fired, recorded, dropped, lost>>
vars    == <<life, timer, pending, queue, wvars, metrics, history>>

Reasons   == {"connect", "timeout", "parse"}
NoResult  == [sent |-> 0, replies |-> 0]
TimerPC   == {"absent", "waiting", "claimed", "exited"}
WorkerPC  == {"absent", "dial", "backoff", "idle", "got", "run", "sent",
              "keep", "lose", "lost", "close", "leave", "exited"}

\* Fault: a queue one slot short.
QueueOneShort == IF Targets = {} THEN 1 ELSE Cardinality(Targets) - 1

\* max(len(targets), 1), the capacity NewScheduler gives the queue
QueueCap == IF Targets = {} THEN 1 ELSE Cardinality(Targets)

\* ctx.Err() # nil: Stop has called s.cancel().
Cancelled == main \in {"stopping", "stopped"}

\* The worker holds a job it took off the queue and has not let go of.
Holding(w) == pc[w] \in {"got", "run", "sent", "keep", "lose"}

\* r # nil: the worker owns a session.
Connected(w) == Holding(w) \/ pc[w] \in {"idle", "lost", "close"}

LiveWorkers == {w \in Workers : pc[w] \notin {"absent", "exited"}}
LiveTimers  == {t \in Targets : timer[t] \notin {"absent", "exited"}}

-----------------------------------------------------------------------------
Init ==
  /\ main = "new"
  /\ wg = 0
  /\ timer = [t \in Targets |-> "absent"]
  /\ pending = [t \in Targets |-> FALSE]
  /\ queue = <<>>
  /\ pc = [w \in Workers |-> "absent"]
  /\ job = [w \in Workers |-> NoTarget]
  /\ res = [w \in Workers |-> NoResult]
  /\ backoff = [w \in Workers |-> MinBackoff]
  /\ sessionsUp = 0
  /\ jobsSkipped = 0
  /\ remoteErrors = [r \in Reasons |-> 0]
  /\ dialErrors = 0
  /\ sent = [t \in Targets |-> 0]
  /\ observed = [t \in Targets |-> 0]
  /\ fired = 0
  /\ recorded = 0
  /\ dropped = 0
  /\ lost = [t \in Targets |-> 0]

(***************************************************************************)
(* Start and Stop, called by smokePingers from one goroutine.              *)
(***************************************************************************)
Start ==
  /\ main = "new"
  /\ main' = "running"
  /\ wg' = Cardinality(Workers) + Cardinality(Targets)
  /\ pc' = [w \in Workers |-> "dial"]
  /\ timer' = [t \in Targets |-> "waiting"]
  /\ UNCHANGED <<pending, queue, job, res, backoff, metrics, history>>

\* Stop before Start: s.cancel is nil, nothing to wait for.
StopUnstarted ==
  /\ main = "new"
  /\ main' = "stopped"
  /\ UNCHANGED <<wg, timer, pending, queue, wvars, metrics, history>>

StopCancel ==
  /\ main = "running"
  /\ main' = "stopping"
  /\ UNCHANGED <<wg, timer, pending, queue, wvars, metrics, history>>

StopReturn ==
  /\ main = "stopping"
  /\ wg = 0
  /\ main' = "stopped"
  /\ UNCHANGED <<wg, timer, pending, queue, wvars, metrics, history>>

(***************************************************************************)
(* schedule and enqueue, one goroutine per target.  The first wait (the    *)
(* offset) and the later ones (the ticker) differ only in how long they    *)
(* last.  When the context is done and the timer has fired, select picks   *)
(* either, so a timer may still fire after Stop was called.                *)
(***************************************************************************)

\* Fault: a skipped fire is not counted.
FireSkipUncounted(t) ==
  /\ timer[t] = "waiting"
  /\ fired < MaxFires
  /\ pending[t]
  /\ fired' = fired + 1
  /\ UNCHANGED <<life, timer, pending, queue, wvars, metrics,
                 recorded, dropped, lost>>

\* The CompareAndSwap fails: the target's previous run is still pending.
FireSkip(t) ==
  /\ timer[t] = "waiting"
  /\ fired < MaxFires
  /\ pending[t]
  /\ fired' = fired + 1
  /\ jobsSkipped' = jobsSkipped + 1
  /\ UNCHANGED <<life, timer, pending, queue, wvars, sessionsUp, remoteErrors,
                 dialErrors, sent, observed, recorded, dropped, lost>>

\* The CompareAndSwap succeeds: the target is claimed, not yet in the queue.
FireClaim(t) ==
  /\ timer[t] = "waiting"
  /\ fired < MaxFires
  /\ ~pending[t]
  /\ fired' = fired + 1
  /\ pending' = [pending EXCEPT ![t] = TRUE]
  /\ timer' = [timer EXCEPT ![t] = "claimed"]
  /\ UNCHANGED <<life, queue, wvars, metrics, recorded, dropped, lost>>

\* The non-blocking send; its default branch gives the claim back.
Send(t) ==
  /\ timer[t] = "claimed"
  /\ timer' = [timer EXCEPT ![t] = "waiting"]
  /\ IF Len(queue) < QueueCap
       THEN /\ queue' = Append(queue, t)
            /\ UNCHANGED <<pending, jobsSkipped>>
       ELSE /\ pending' = [pending EXCEPT ![t] = FALSE]
            /\ jobsSkipped' = jobsSkipped + 1
            /\ UNCHANGED queue
  /\ UNCHANGED <<life, wvars, sessionsUp, remoteErrors, dialErrors, sent,
                 observed, history>>

TimerExit(t) ==
  /\ timer[t] = "waiting"
  /\ Cancelled
  /\ timer' = [timer EXCEPT ![t] = "exited"]
  /\ wg' = wg - 1
  /\ UNCHANGED <<main, pending, queue, wvars, metrics, history>>

(***************************************************************************)
(* worker: connecting.                                                     *)
(***************************************************************************)
\* Fault: the backoff survives a successful dial.
DialOkKeepsBackoff(w) ==
  /\ pc[w] = "dial"
  /\ pc' = [pc EXCEPT ![w] = "idle"]
  /\ sessionsUp' = sessionsUp + 1
  /\ UNCHANGED <<life, timer, pending, queue, job, res, backoff, jobsSkipped,
                 remoteErrors, dialErrors, sent, observed, history>>

DialOk(w) ==
  /\ pc[w] = "dial"
  /\ pc' = [pc EXCEPT ![w] = "idle"]
  /\ backoff' = [backoff EXCEPT ![w] = MinBackoff]
  /\ sessionsUp' = sessionsUp + 1
  /\ UNCHANGED <<life, timer, pending, queue, job, res, jobsSkipped,
                 remoteErrors, dialErrors, sent, observed, history>>

\* A router may refuse for ever: the counter stops at its bound, the dials do
\* not.
DialFail(w) ==
  /\ pc[w] = "dial"
  /\ pc' = [pc EXCEPT ![w] = "backoff"]
  /\ dialErrors' = IF dialErrors < MaxDialErrors THEN dialErrors + 1 ELSE dialErrors
  /\ UNCHANGED <<life, timer, pending, queue, job, res, backoff, sessionsUp,
                 jobsSkipped, remoteErrors, sent, observed, history>>

\* Fault: the doubled backoff is not capped.
BackoffElapsedUncapped(w) ==
  /\ pc[w] = "backoff"
  /\ pc' = [pc EXCEPT ![w] = "dial"]
  /\ backoff' = [backoff EXCEPT ![w] = 2 * @]
  /\ UNCHANGED <<life, timer, pending, queue, job, res, metrics, history>>

BackoffElapsed(w) ==
  /\ pc[w] = "backoff"
  /\ pc' = [pc EXCEPT ![w] = "dial"]
  /\ backoff' = [backoff EXCEPT ![w] = IF 2 * @ < MaxBackoff THEN 2 * @
                                                             ELSE MaxBackoff]
  /\ UNCHANGED <<life, timer, pending, queue, job, res, metrics, history>>

\* Fault: time.Sleep(backoff) in place of the select, deaf to the context.
BackoffSleeps(w) == pc[w] = "backoff" /\ FALSE

BackoffCancelled(w) ==
  /\ pc[w] = "backoff"
  /\ Cancelled
  /\ pc' = [pc EXCEPT ![w] = "leave"]
  /\ UNCHANGED <<life, timer, pending, queue, job, res, backoff, metrics, history>>

(***************************************************************************)
(* worker: taking a job, and the check of ctx.Err() that follows.          *)
(***************************************************************************)
\* Fault: the worker returns without closing its session.
IdleLeavesSession(w) ==
  /\ pc[w] = "idle"
  /\ Cancelled
  /\ pc' = [pc EXCEPT ![w] = "leave"]
  /\ UNCHANGED <<life, timer, pending, queue, job, res, backoff, metrics, history>>

IdleCancelled(w) ==
  /\ pc[w] = "idle"
  /\ Cancelled
  /\ pc' = [pc EXCEPT ![w] = "close"]
  /\ UNCHANGED <<life, timer, pending, queue, job, res, backoff, metrics, history>>

Dequeue(w) ==
  /\ pc[w] = "idle"
  /\ queue # <<>>
  /\ job' = [job EXCEPT ![w] = Head(queue)]
  /\ queue' = Tail(queue)
  /\ pc' = [pc EXCEPT ![w] = "got"]
  /\ UNCHANGED <<life, timer, pending, res, backoff, metrics, history>>

\* Fault: the dropped job keeps its flag.
DropJobKeepsFlag(w) ==
  /\ pc[w] = "got"
  /\ Cancelled
  /\ dropped' = dropped + 1
  /\ job' = [job EXCEPT ![w] = NoTarget]
  /\ pc' = [pc EXCEPT ![w] = "close"]
  /\ UNCHANGED <<life, timer, pending, queue, res, backoff, metrics, fired,
                 recorded, lost>>

\* Stop was called in the meantime: the job is dropped, the worker returns.
DropJob(w) ==
  /\ pc[w] = "got"
  /\ Cancelled
  /\ pending' = [pending EXCEPT ![job[w]] = FALSE]
  /\ dropped' = dropped + 1
  /\ job' = [job EXCEPT ![w] = NoTarget]
  /\ pc' = [pc EXCEPT ![w] = "close"]
  /\ UNCHANGED <<life, timer, queue, res, backoff, metrics, fired, recorded, lost>>

\* Fault: ctx.Err() is not checked after the dequeue.
BeginRunUnchecked(w) ==
  /\ pc[w] = "got"
  /\ pc' = [pc EXCEPT ![w] = "run"]
  /\ UNCHANGED <<life, timer, pending, queue, job, res, backoff, metrics, history>>

BeginRun(w) ==
  /\ pc[w] = "got"
  /\ ~Cancelled
  /\ pc' = [pc EXCEPT ![w] = "run"]
  /\ UNCHANGED <<life, timer, pending, queue, job, res, backoff, metrics, history>>

(***************************************************************************)
(* runJob: r.Run returns and the outcome is counted or recorded.           *)
(***************************************************************************)
\* Fault: the replies are counted as the requests.
RunOkCountsReplies(w, r) ==
  /\ pc[w] = "run"
  /\ sent' = [sent EXCEPT ![job[w]] = @ + r.replies]
  /\ res' = [res EXCEPT ![w] = r]
  /\ pc' = [pc EXCEPT ![w] = "sent"]
  /\ UNCHANGED <<life, timer, pending, queue, job, backoff, sessionsUp,
                 jobsSkipped, remoteErrors, dialErrors, observed, history>>

RunOk(w, r) ==
  /\ pc[w] = "run"
  /\ sent' = [sent EXCEPT ![job[w]] = @ + r.sent]
  /\ res' = [res EXCEPT ![w] = r]
  /\ pc' = [pc EXCEPT ![w] = "sent"]
  /\ UNCHANGED <<life, timer, pending, queue, job, backoff, sessionsUp,
                 jobsSkipped, remoteErrors, dialErrors, observed, history>>

Record(w) ==
  /\ pc[w] = "sent"
  /\ observed' = [observed EXCEPT ![job[w]] = @ + res[w].replies]
  /\ lost' = [lost EXCEPT ![job[w]] = @ + res[w].sent - res[w].replies]
  /\ recorded' = recorded + 1
  /\ res' = [res EXCEPT ![w] = NoResult]
  /\ pc' = [pc EXCEPT ![w] = "keep"]
  /\ UNCHANGED <<life, timer, pending, queue, job, backoff, sessionsUp,
                 jobsSkipped, remoteErrors, dialErrors, sent, fired, dropped>>

\* The outcomes without a result: the reason counted, and whether the session
\* may be used again.  A timeout keeps it only when Ctrl-C brought the prompt
\* back (ErrTimeout without ErrClosed).
Failures == { [reason |-> "timeout", next |-> "keep"],
              [reason |-> "timeout", next |-> "lose"],
              [reason |-> "connect", next |-> "lose"],
              [reason |-> "parse",   next |-> "keep"] }

\* Fault: the requests are counted before it is known how the run ended.
RunFailCountsSent(w, f) ==
  /\ pc[w] = "run"
  /\ remoteErrors' = [remoteErrors EXCEPT ![f.reason] = @ + 1]
  /\ sent' = [sent EXCEPT ![job[w]] = @ + 1]
  /\ pc' = [pc EXCEPT ![w] = f.next]
  /\ UNCHANGED <<life, timer, pending, queue, job, res, backoff, sessionsUp,
                 jobsSkipped, dialErrors, observed, history>>

RunFail(w, f) ==
  /\ pc[w] = "run"
  /\ remoteErrors' = [remoteErrors EXCEPT ![f.reason] = @ + 1]
  /\ pc' = [pc EXCEPT ![w] = f.next]
  /\ UNCHANGED <<life, timer, pending, queue, job, res, backoff, sessionsUp,
                 jobsSkipped, dialErrors, sent, observed, history>>

\* Fault: the flag is cleared only when the session survives.
EndRunKeepsFlag(w) ==
  /\ pc[w] \in {"keep", "lose"}
  /\ pending' = [pending EXCEPT ![job[w]] = pc[w] = "lose"]
  /\ job' = [job EXCEPT ![w] = NoTarget]
  /\ pc' = [pc EXCEPT ![w] = IF @ = "keep" THEN "idle" ELSE "lost"]
  /\ UNCHANGED <<life, timer, queue, res, backoff, metrics, history>>

\* The deferred t.pending.Store(false) as runJob returns.
EndRun(w) ==
  /\ pc[w] \in {"keep", "lose"}
  /\ pending' = [pending EXCEPT ![job[w]] = FALSE]
  /\ job' = [job EXCEPT ![w] = NoTarget]
  /\ pc' = [pc EXCEPT ![w] = IF @ = "keep" THEN "idle" ELSE "lost"]
  /\ UNCHANGED <<life, timer, queue, res, backoff, metrics, history>>

\* Fault: the gauge is not decremented.
ReconnectKeepsGauge(w) ==
  /\ pc[w] = "lost"
  /\ pc' = [pc EXCEPT ![w] = "dial"]
  /\ UNCHANGED <<life, timer, pending, queue, job, res, backoff, metrics, history>>

\* runJob returned false: the session is closed and dialled anew.
Reconnect(w) ==
  /\ pc[w] = "lost"
  /\ sessionsUp' = sessionsUp - 1
  /\ pc' = [pc EXCEPT ![w] = "dial"]
  /\ UNCHANGED <<life, timer, pending, queue, job, res, backoff, jobsSkipped,
                 remoteErrors, dialErrors, sent, observed, history>>

(***************************************************************************)
(* worker: the deferred calls, the session first and wg.Done last.         *)
(***************************************************************************)
CloseSession(w) ==
  /\ pc[w] = "close"
  /\ sessionsUp' = sessionsUp - 1
  /\ pc' = [pc EXCEPT ![w] = "leave"]
  /\ UNCHANGED <<life, timer, pending, queue, job, res, backoff, jobsSkipped,
                 remoteErrors, dialErrors, sent, observed, history>>

WorkerExit(w) ==
  /\ pc[w] = "leave"
  /\ pc' = [pc EXCEPT ![w] = "exited"]
  /\ wg' = wg - 1
  /\ UNCHANGED <<main, timer, pending, queue, job, res, backoff, metrics, history>>

\* Nothing is left to do once Stop has returned.
Terminated == main = "stopped" /\ UNCHANGED vars

-----------------------------------------------------------------------------
Timer(t) == FireSkip(t) \/ FireClaim(t) \/ Send(t) \/ TimerExit(t)

Worker(w) ==
  \/ DialOk(w) \/ DialFail(w) \/ BackoffElapsed(w) \/ BackoffCancelled(w)
  \/ IdleCancelled(w) \/ Dequeue(w) \/ DropJob(w) \/ BeginRun(w)
  \/ \E r \in Results : RunOk(w, r)
  \/ Record(w)
  \/ \E f \in Failures : RunFail(w, f)
  \/ EndRun(w) \/ Reconnect(w) \/ CloseSession(w) \/ WorkerExit(w)

Next ==
  \/ Start \/ StopUnstarted \/ StopCancel \/ StopReturn
  \/ \E t \in Targets : Timer(t)
  \/ \E w \in Workers : Worker(w)
  \/ Terminated

Spec == Init /\ [][Next]_vars

\* What the Go runtime and the deadlines justify: a goroutine that can move
\* moves (a dial is bounded by its timeouts and by ctx, a run by its command
\* deadline and the Ctrl-C timeout), and the select of a cancelled worker
\* cannot pick the backoff timer for ever.  The timers themselves, Start and
\* Stop need not happen.
Fairness ==
  /\ \A t \in Targets : WF_vars(Send(t)) /\ WF_vars(TimerExit(t))
  /\ \A w \in Workers : WF_vars(Worker(w)) /\ SF_vars(BackoffCancelled(w))
  /\ WF_vars(StopReturn)

FairSpec == Spec /\ Fairness

-----------------------------------------------------------------------------
(***************************************************************************)
(* Properties.                                                             *)
(***************************************************************************)
\* The state has its shape, and the backoff of a worker stays between the two
\* bounds of NewScheduler whatever the dials do (scheduler.go:86-87, 181).
TypeOK ==
  /\ main \in {"new", "running", "stopping", "stopped"}
  /\ wg \in Int
  /\ timer \in [Targets -> TimerPC]
  /\ pending \in [Targets -> BOOLEAN]
  /\ queue \in Seq(Targets)
  /\ pc \in [Workers -> WorkerPC]
  /\ job \in [Workers -> Targets \cup {NoTarget}]
  /\ res \in [Workers -> [sent : Nat, replies : Nat]]
  /\ backoff \in [Workers -> MinBackoff .. MaxBackoff]
  /\ sessionsUp \in Int
  /\ jobsSkipped \in Nat
  /\ remoteErrors \in [Reasons -> Nat]
  /\ dialErrors \in 0 .. MaxDialErrors
  /\ sent \in [Targets -> Nat]
  /\ observed \in [Targets -> Nat]
  /\ fired \in Nat
  /\ recorded \in Nat
  /\ dropped \in Nat
  /\ lost \in [Targets -> Int]

\* In how many places a target is: claimed by its timer and not yet queued,
\* at a position of the queue, or in the hands of a worker.
Places(t) ==
    (IF timer[t] = "claimed" THEN 1 ELSE 0)
  + Cardinality({i \in DOMAIN queue : queue[i] = t})
  + Cardinality({w \in Workers : Holding(w) /\ job[w] = t})

\* The pending flag (scheduler.go:148, 155, 197, 211) is exactly "the target
\* is somewhere, once": no two runs of a target overlap, and no flag stays set
\* with nobody left to clear it, which would silence the target for good.
PendingIsOnePlace ==
  \A t \in Targets : Places(t) = (IF pending[t] THEN 1 ELSE 0)

\* The default branch of enqueue (scheduler.go:154) is never taken: whenever a
\* timer is about to send, the queue of capacity len(targets) has room.
QueueHasRoom ==
  \A t \in Targets : timer[t] = "claimed" => Len(queue) < QueueCap

\* Every timer fire is accounted for exactly once: skipped, recorded, counted
\* in errors_total by runJob, dropped by Stop, or still pending without an outcome.
EveryFireAccounted ==
  fired = jobsSkipped + recorded + dropped
          + remoteErrors["connect"] + remoteErrors["timeout"] + remoteErrors["parse"]
          + Cardinality({t \in Targets : pending[t]})
          - Cardinality({w \in Workers : pc[w] \in {"keep", "lose"}})

\* requests_total minus the histogram count is the loss the router reported,
\* also after failed sessions, timeouts and unreadable output (README.md:104);
\* only between AddSent and Record is a run's whole count outstanding.
LossIsReal ==
  \A t \in Targets :
    \/ sent[t] - observed[t] = lost[t]
    \/ \E w \in Workers : /\ pc[w] = "sent" /\ job[w] = t
                          /\ sent[t] - observed[t] = lost[t] + res[w].sent

\* sessions_up is the number of workers that own a session (scheduler.go:166,
\* 186, 203), through every failure and every way to stop.
GaugeCountsSessions ==
  sessionsUp = Cardinality({w \in Workers : Connected(w)})

\* The WaitGroup counts the goroutines that have not returned, so Stop
\* (scheduler.go:122) returns only when no worker holds a session or a job and
\* no timer can queue another one.
StopIsClean ==
  /\ wg = Cardinality(LiveWorkers) + Cardinality(LiveTimers)
  /\ main = "stopped" => /\ LiveWorkers = {} /\ LiveTimers = {}
                         /\ sessionsUp = 0

\* A session that breaks is redialled after the shortest wait: the backoff a
\* worker built up while the router was away (scheduler.go:181) is gone as
\* soon as it has connected.
ConnectedResetsBackoff ==
  \A w \in Workers : Connected(w) => backoff[w] = MinBackoff

\* Stop returns (scheduler.go:117), whatever the sessions are doing.
StopReturns == (main = "stopping") ~> (main = "stopped")

\* While the router keeps accepting sessions from time to time, a pending
\* target is eventually run (or Stop is called): no job waits for ever behind
\* dead sessions or other targets.
PendingIsServed ==
  []<>(\E w \in Workers : Connected(w))
    => \A t \in Targets : pending[t] ~> (~pending[t] \/ Cancelled)

\* The scheduler implements RunSlots.
SlotOf(t) ==
  IF \E w \in Workers : job[w] = t /\ pc[w] \in {"run", "sent"} THEN "running"
  ELSE IF \E w \in Workers : job[w] = t /\ pc[w] \in {"keep", "lose"} THEN "reported"
  ELSE IF pending[t] THEN "waiting"
  ELSE "free"

PhaseOf == CASE main \in {"new", "running"} -> "open"
             [] main = "stopping" -> "closing"
             [] main = "stopped" -> "closed"

Slots == INSTANCE RunSlots WITH phase <- PhaseOf,
                                slot  <- [t \in Targets |-> SlotOf(t)]

\* Each target has one run at a time, each run reports exactly one outcome
\* before the next may be queued, no run begins after Stop was called and none
\* is under way when it has returned (scheduler.go:116).
ImplementsRunSlots == Slots!SlotSpec
=============================================================================
