---------------------------- MODULE SchedulerCounts ----------------------------
(***************************************************************************)
(* Proofs that the scheduler's counters agree with what its goroutines do: *)
(* the WaitGroup, the session gauge, the loss a target shows, the fate of  *)
(* every timer fire, and the backoff.                                      *)
(***************************************************************************)
EXTENDS SchedulerProofs

USE TargetsAssumption, WorkersAssumption, ResultsAssumption,
    BackoffAssumption, BoundsAssumption

\* A finite set that gains or loses one element.
LEMMA CardinalityStep ==
  ASSUME NEW S, NEW T, NEW x, IsFiniteSet(S), x \notin S, T = S \cup {x}
  PROVE  /\ IsFiniteSet(T)
         /\ Cardinality(S) \in Nat
         /\ Cardinality(T) = Cardinality(S) + 1
BY FS_AddElement, FS_CardinalityType

\* A part of a finite set is finite.
LEMMA SubsetFinite ==
  ASSUME NEW S, IsFiniteSet(S), NEW T, T \subseteq S
  PROVE  IsFiniteSet(T) /\ Cardinality(T) \in Nat
<1>1. T \in SUBSET S
  OBVIOUS
<1>2. IsFiniteSet(T)
  BY <1>1, FS_Subset
<1> QED BY <1>2, FS_CardinalityType

-----------------------------------------------------------------------------
(***************************************************************************)
(* The session gauge.                                                      *)
(***************************************************************************)
LEMMA GaugeInit == Init => GaugeCountsSessions
<1> SUFFICES ASSUME Init PROVE GaugeCountsSessions
  OBVIOUS
<1>1. {w \in Workers : Connected(w)} = {}
  BY DEF Init, Connected, Holding
<1> QED BY <1>1, FS_EmptySet DEF Init, GaugeCountsSessions

\* A worker changes the gauge when it gains or lets go of its session.
LEMMA GaugeWorker ==
  ASSUME TypeOK, GaugeCountsSessions, NEW w \in Workers, Worker(w)
  PROVE  GaugeCountsSessions'
<1> DEFINE C == {v \in Workers : Connected(v)}
<1>1. pc \in [Workers -> WorkerPC]
  BY DEF TypeOK
<1>2. sessionsUp = Cardinality(C)
  BY DEF GaugeCountsSessions
<1>3. /\ C \subseteq Workers /\ C' \subseteq Workers
  OBVIOUS
<1>4. /\ IsFiniteSet(C) /\ Cardinality(C) \in Nat
      /\ IsFiniteSet(C') /\ Cardinality(C') \in Nat
  <2> HIDE DEF C
  <2> QED BY <1>3, SubsetFinite
<1>5. CASE DialOk(w)
  <2>1. w \notin C /\ C' = C \cup {w}
    BY <1>1, <1>5 DEF DialOk, Connected, Holding
  <2>2. sessionsUp' = sessionsUp + 1
    BY <1>5 DEF DialOk
  <2>3. Cardinality(C') = Cardinality(C) + 1
    <3> HIDE DEF C
    <3> QED BY <1>4, <2>1, CardinalityStep
  <2> QED BY <1>2, <2>2, <2>3 DEF GaugeCountsSessions
<1>6. CASE Reconnect(w) \/ CloseSession(w)
  <2>1. w \notin C' /\ C = C' \cup {w}
    BY <1>1, <1>6 DEF Reconnect, CloseSession, Connected, Holding
  <2>2. sessionsUp' = sessionsUp - 1
    BY <1>6 DEF Reconnect, CloseSession
  <2>3. Cardinality(C) = Cardinality(C') + 1 /\ Cardinality(C') \in Nat
    <3> HIDE DEF C
    <3> QED BY <1>4, <2>1, CardinalityStep
  <2> QED BY <1>2, <1>4, <2>2, <2>3 DEF GaugeCountsSessions
<1>7. CASE ~(DialOk(w) \/ Reconnect(w) \/ CloseSession(w))
  <2>1. C' = C
    BY <1>1, <1>7 DEF Worker, DialFail, BackoffElapsed, BackoffCancelled,
         IdleCancelled, Dequeue, DropJob, BeginRun, RunOk, Record, RunFail,
         Failures, EndRun, WorkerExit, Connected, Holding
  <2>2. UNCHANGED sessionsUp
    BY <1>7 DEF Worker, DialFail, BackoffElapsed, BackoffCancelled,
         IdleCancelled, Dequeue, DropJob, BeginRun, RunOk, Record, RunFail,
         EndRun, WorkerExit, metrics
  <2> QED BY <1>2, <2>1, <2>2 DEF GaugeCountsSessions
<1> QED BY <1>5, <1>6, <1>7

\* No step parts the gauge from the sessions.
LEMMA GaugeNext ==
  TypeOK /\ Custody /\ GaugeCountsSessions /\ [Next]_vars => GaugeCountsSessions'
<1> SUFFICES ASSUME TypeOK, Custody, GaugeCountsSessions, [Next]_vars
             PROVE  GaugeCountsSessions'
  OBVIOUS
<1>1. CASE Start
  <2>1. UNCHANGED sessionsUp
    BY <1>1 DEF Start, metrics
  <2>2. \A w \in Workers : ~Connected(w) /\ ~Connected(w)'
    BY <1>1 DEF Start, Custody, Unstarted, Connected, Holding
  <2>3. {w \in Workers : Connected(w)}' = {w \in Workers : Connected(w)}
    BY <2>2
  <2> QED BY <2>1, <2>3 DEF GaugeCountsSessions
<1>2. CASE StopUnstarted \/ StopCancel \/ StopReturn \/ UNCHANGED vars
           \/ \E t \in Targets : Timer(t)
  <2>1. UNCHANGED <<pc, sessionsUp>>
    BY <1>2 DEF StopUnstarted, StopCancel, StopReturn, vars, Timer, FireSkip,
         FireClaim, Send, TimerExit, wvars, metrics
  <2> QED BY <2>1 DEF GaugeCountsSessions, Connected, Holding
<1>3. CASE \E w \in Workers : Worker(w)
  BY <1>3, GaugeWorker
<1> QED BY <1>1, <1>2, <1>3 DEF Next, Terminated

\* sessions_up is the number of workers that own a session, through failed
\* sessions, redials and every way to stop (scheduler.go:166, 186, 203).
THEOREM GaugeIsSessions == Spec => []GaugeCountsSessions
BY TypeCorrect, CustodyHolds, GaugeInit, GaugeNext, PTL DEF Spec

-----------------------------------------------------------------------------
(***************************************************************************)
(* The WaitGroup.                                                          *)
(***************************************************************************)
LEMMA CleanInit == Init => StopIsClean
<1> SUFFICES ASSUME Init PROVE StopIsClean
  OBVIOUS
<1>1. LiveWorkers = {} /\ LiveTimers = {}
  BY DEF Init, LiveWorkers, LiveTimers
<1> QED BY <1>1, FS_EmptySet DEF Init, StopIsClean

\* One goroutine fewer, one Done.
LEMMA CleanExit ==
  ASSUME StopIsClean, main # "stopped", UNCHANGED main, wg' = wg - 1,
         \/ \E w \in LiveWorkers :
              LiveWorkers' = LiveWorkers \ {w} /\ UNCHANGED LiveTimers
         \/ \E t \in LiveTimers :
              LiveTimers' = LiveTimers \ {t} /\ UNCHANGED LiveWorkers
  PROVE  StopIsClean'
<1>1. /\ IsFiniteSet(LiveWorkers) /\ Cardinality(LiveWorkers) \in Nat
      /\ IsFiniteSet(LiveTimers) /\ Cardinality(LiveTimers) \in Nat
  <2>1. LiveWorkers \subseteq Workers /\ LiveTimers \subseteq Targets
    BY DEF LiveWorkers, LiveTimers
  <2> QED BY <2>1, SubsetFinite
<1>2. ASSUME NEW w \in LiveWorkers, LiveWorkers' = LiveWorkers \ {w}
      PROVE  Cardinality(LiveWorkers)' = Cardinality(LiveWorkers) - 1
  BY <1>1, <1>2, FS_RemoveElement
<1>3. ASSUME NEW t \in LiveTimers, LiveTimers' = LiveTimers \ {t}
      PROVE  Cardinality(LiveTimers)' = Cardinality(LiveTimers) - 1
  BY <1>1, <1>3, FS_RemoveElement
<1> QED BY <1>1, <1>2, <1>3 DEF StopIsClean

\* The goroutines and the WaitGroup stay as they are.
LEMMA CleanQuiet ==
  ASSUME StopIsClean, main # "stopped", UNCHANGED <<main, wg>>,
         UNCHANGED LiveWorkers, UNCHANGED LiveTimers
  PROVE  StopIsClean'
BY DEF StopIsClean

\* Start adds every goroutine, an exit takes one away, nothing else counts.
LEMMA CleanNext ==
  TypeOK /\ Custody /\ GaugeCountsSessions /\ StopIsClean /\ [Next]_vars
    => StopIsClean'
<1> SUFFICES ASSUME TypeOK, Custody, GaugeCountsSessions, StopIsClean, [Next]_vars
             PROVE  StopIsClean'
  OBVIOUS
<1>1. /\ pc \in [Workers -> WorkerPC]
      /\ timer \in [Targets -> TimerPC]
  BY DEF TypeOK
<1>2. CASE Start
  <2>1. /\ LiveWorkers' = Workers
        /\ LiveTimers' = Targets
    BY <1>2 DEF Start, LiveWorkers, LiveTimers
  <2> QED BY <1>2, <2>1 DEF Start, StopIsClean
<1>3. CASE StopUnstarted
  <2>1. LiveWorkers = {} /\ LiveTimers = {}
    BY <1>3 DEF StopUnstarted, Custody, Unstarted, LiveWorkers, LiveTimers
  <2>2. {w \in Workers : Connected(w)} = {}
    BY <2>1 DEF LiveWorkers, Connected, Holding
  <2>3. sessionsUp = 0
    BY <2>2, FS_EmptySet DEF GaugeCountsSessions
  <2> QED
    BY <1>3, <2>1, <2>3 DEF StopUnstarted, StopIsClean, wvars, metrics,
                            LiveWorkers, LiveTimers
<1>4. CASE StopCancel
  BY <1>4 DEF StopCancel, StopIsClean, wvars, metrics, LiveWorkers, LiveTimers
<1>5. CASE StopReturn
  <2>1. /\ LiveWorkers \subseteq Workers /\ LiveTimers \subseteq Targets
    BY DEF LiveWorkers, LiveTimers
  <2>2. /\ IsFiniteSet(LiveWorkers) /\ Cardinality(LiveWorkers) \in Nat
        /\ IsFiniteSet(LiveTimers) /\ Cardinality(LiveTimers) \in Nat
    BY <2>1, SubsetFinite
  <2>3. Cardinality(LiveWorkers) = 0 /\ Cardinality(LiveTimers) = 0
    BY <1>5, <2>2 DEF StopReturn, StopIsClean
  <2>4. LiveWorkers = {} /\ LiveTimers = {}
    BY <2>2, <2>3, FS_EmptySet
  <2>5. {w \in Workers : Connected(w)} = {}
    BY <2>4 DEF LiveWorkers, Connected, Holding
  <2>6. sessionsUp = 0
    BY <2>5, FS_EmptySet DEF GaugeCountsSessions
  <2> QED
    BY <1>5, <2>4, <2>6 DEF StopReturn, StopIsClean, wvars, metrics,
                            LiveWorkers, LiveTimers
<1>6. CASE UNCHANGED vars
  BY <1>6 DEF vars, life, wvars, metrics, StopIsClean, LiveWorkers, LiveTimers
<1>7. ASSUME NEW t \in Targets, Timer(t) PROVE StopIsClean'
  <2>1. t \in LiveTimers
    BY <1>7 DEF Timer, FireSkip, FireClaim, Send, TimerExit, LiveTimers
  <2>2. main # "stopped"
    BY <2>1 DEF StopIsClean
  <2>3. UNCHANGED LiveWorkers
    BY <1>7 DEF Timer, FireSkip, FireClaim, Send, TimerExit, wvars, LiveWorkers
  <2>4. CASE TimerExit(t)
    <3>1. LiveTimers' = LiveTimers \ {t}
      BY <1>1, <2>4 DEF TimerExit, LiveTimers
    <3> QED BY <2>1, <2>2, <2>3, <2>4, <3>1, CleanExit DEF TimerExit
  <2>5. CASE ~TimerExit(t)
    <3>1. UNCHANGED LiveTimers
      BY <1>1, <1>7, <2>5 DEF Timer, FireSkip, FireClaim, Send, LiveTimers
    <3>2. UNCHANGED <<main, wg>>
      BY <1>7, <2>5 DEF Timer, FireSkip, FireClaim, Send, life
    <3> QED BY <2>2, <2>3, <3>1, <3>2, CleanQuiet
  <2> QED BY <2>4, <2>5
<1>8. ASSUME NEW w \in Workers, Worker(w) PROVE StopIsClean'
  <2>1. w \in LiveWorkers
    BY <1>8 DEF Worker, DialOk, DialFail, BackoffElapsed, BackoffCancelled,
         IdleCancelled, Dequeue, DropJob, BeginRun, RunOk, Record, RunFail,
         EndRun, Reconnect, CloseSession, WorkerExit, LiveWorkers
  <2>2. main # "stopped"
    BY <2>1 DEF StopIsClean
  <2>3. UNCHANGED LiveTimers
    BY <1>8 DEF Worker, DialOk, DialFail, BackoffElapsed, BackoffCancelled,
         IdleCancelled, Dequeue, DropJob, BeginRun, RunOk, Record, RunFail,
         EndRun, Reconnect, CloseSession, WorkerExit, LiveTimers
  <2>4. CASE WorkerExit(w)
    <3>1. LiveWorkers' = LiveWorkers \ {w}
      BY <1>1, <2>4 DEF WorkerExit, LiveWorkers
    <3> QED BY <2>1, <2>2, <2>3, <2>4, <3>1, CleanExit DEF WorkerExit
  <2>5. CASE ~WorkerExit(w)
    <3>1. UNCHANGED LiveWorkers
      BY <1>1, <1>8, <2>5 DEF Worker, DialOk, DialFail, BackoffElapsed,
         BackoffCancelled, IdleCancelled, Dequeue, DropJob, BeginRun, RunOk,
         Record, RunFail, Failures, EndRun, Reconnect, CloseSession, LiveWorkers
    <3>2. UNCHANGED <<main, wg>>
      BY <1>8, <2>5 DEF Worker, DialOk, DialFail, BackoffElapsed,
         BackoffCancelled, IdleCancelled, Dequeue, DropJob, BeginRun, RunOk,
         Record, RunFail, EndRun, Reconnect, CloseSession, life
    <3> QED BY <2>2, <2>3, <3>1, <3>2, CleanQuiet
  <2> QED BY <2>4, <2>5
<1> QED
  BY <1>2, <1>3, <1>4, <1>5, <1>6, <1>7, <1>8 DEF Next, Terminated

\* The WaitGroup counts the live goroutines, and when Stop has returned there
\* is none, no job under way and no session open (scheduler.go:117-123).
THEOREM CleanStop == Spec => []StopIsClean
BY TypeCorrect, CustodyHolds, GaugeIsSessions, CleanInit, CleanNext, PTL DEF Spec

-----------------------------------------------------------------------------
(***************************************************************************)
(* The backoff.                                                            *)
(***************************************************************************)
LEMMA BackoffNext ==
  TypeOK /\ Custody /\ ConnectedResetsBackoff /\ [Next]_vars
    => ConnectedResetsBackoff'
<1> SUFFICES ASSUME TypeOK, Custody, ConnectedResetsBackoff, [Next]_vars
             PROVE  ConnectedResetsBackoff'
  OBVIOUS
<1>1. /\ pc \in [Workers -> WorkerPC]
      /\ backoff \in [Workers -> MinBackoff .. MaxBackoff]
  BY DEF TypeOK
<1>2. CASE Start
  BY <1>2 DEF Start, ConnectedResetsBackoff, Connected, Holding
<1>3. CASE StopUnstarted \/ StopCancel \/ StopReturn \/ UNCHANGED vars
           \/ \E t \in Targets : Timer(t)
  <2>1. UNCHANGED <<pc, backoff>>
    BY <1>3 DEF StopUnstarted, StopCancel, StopReturn, vars, Timer, FireSkip,
         FireClaim, Send, TimerExit, wvars
  <2> QED BY <2>1 DEF ConnectedResetsBackoff, Connected, Holding
<1>4. ASSUME NEW w \in Workers, Worker(w) PROVE ConnectedResetsBackoff'
  <2>1. CASE DialOk(w)
    BY <1>1, <2>1 DEF DialOk, ConnectedResetsBackoff, Connected, Holding
  <2>2. CASE BackoffElapsed(w)
    BY <1>1, <2>2 DEF BackoffElapsed, ConnectedResetsBackoff, Connected, Holding
  <2>3. CASE ~(DialOk(w) \/ BackoffElapsed(w))
    <3>1. UNCHANGED backoff
      BY <1>4, <2>3 DEF Worker, DialFail, BackoffCancelled, IdleCancelled,
           Dequeue, DropJob, BeginRun, RunOk, Record, RunFail, EndRun,
           Reconnect, CloseSession, WorkerExit
    <3>2. \A v \in Workers : Connected(v)' => Connected(v)
      BY <1>1, <1>4, <2>3 DEF Worker, DialFail, BackoffCancelled, IdleCancelled,
           Dequeue, DropJob, BeginRun, RunOk, Record, RunFail, Failures, EndRun,
           Reconnect, CloseSession, WorkerExit, Connected, Holding
    <3> QED BY <3>1, <3>2 DEF ConnectedResetsBackoff
  <2> QED BY <2>1, <2>2, <2>3
<1> QED BY <1>2, <1>3, <1>4 DEF Next, Terminated

\* A worker that has a session starts its next redial with the shortest wait
\* (scheduler.go:185).
THEOREM BackoffReset == Spec => []ConnectedResetsBackoff
<1>1. Init => ConnectedResetsBackoff
  BY DEF Init, ConnectedResetsBackoff
<1> QED BY <1>1, TypeCorrect, CustodyHolds, BackoffNext, PTL DEF Spec

-----------------------------------------------------------------------------
(***************************************************************************)
(* The loss a target shows.  The inductive form names the amount: the part *)
(* of a run between AddSent and Record is outstanding, and by custody at   *)
(* most one worker has the target.                                         *)
(***************************************************************************)
Recording(w, t) == pc[w] = "sent" /\ job[w] = t

Ledger(t) ==
  /\ (\A w \in Workers : ~Recording(w, t)) => sent[t] - observed[t] = lost[t]
  /\ \A w \in Workers :
       Recording(w, t) => sent[t] - observed[t] = lost[t] + res[w].sent

Books == \A t \in Targets : Ledger(t)

\* A step that counts nothing leaves the books as they are.
LEMMA BooksQuiet ==
  ASSUME Books, UNCHANGED <<job, res, sent, observed, lost>>,
         \A w \in Workers : (pc'[w] = "sent") <=> (pc[w] = "sent")
  PROVE  Books'
BY DEF Books, Ledger, Recording

\* AddSent opens a gap, Record closes it, a failed run does neither.
LEMMA BooksWorker ==
  ASSUME TypeOK, Custody, Books, NEW w \in Workers, Worker(w)
  PROVE  Books'
<1>1. /\ pc \in [Workers -> WorkerPC]
      /\ job \in [Workers -> Targets \cup {NoTarget}]
      /\ res \in [Workers -> [sent : Nat, replies : Nat]]
      /\ sent \in [Targets -> Nat]
      /\ observed \in [Targets -> Nat]
      /\ lost \in [Targets -> Int]
  BY DEF TypeOK
<1>2. ASSUME NEW r \in Results, RunOk(w, r) PROVE Books'
  <2>1. /\ pc[w] = "run"
        /\ job[w] \in Targets
        /\ \A v \in Workers : job[v] = job[w] => v = w
    BY <1>2 DEF RunOk, Custody, JobsAreHeld, Holding
  <2>2. /\ sent' = [sent EXCEPT ![job[w]] = sent[job[w]] + r.sent]
        /\ res' = [res EXCEPT ![w] = r]
        /\ pc' = [pc EXCEPT ![w] = "sent"]
        /\ UNCHANGED <<job, observed, lost>>
    BY <1>2 DEF RunOk, history
  <2>3. r.sent \in Nat
    OBVIOUS
  <2>4. ASSUME NEW t \in Targets, t # job[w] PROVE Ledger(t)'
    <3>1. Ledger(t)
      BY DEF Books
    <3>2. sent'[t] = sent[t]
      BY <1>1, <2>1, <2>2, <2>4
    <3>3. \A v \in Workers : /\ Recording(v, t)' <=> Recording(v, t)
                             /\ Recording(v, t) => res'[v] = res[v]
      BY <1>1, <2>1, <2>2, <2>4 DEF Recording
    <3> QED BY <2>2, <3>1, <3>2, <3>3 DEF Ledger
  <2>5. Ledger(job[w])'
    <3>1. sent[job[w]] - observed[job[w]] = lost[job[w]]
      BY <2>1 DEF Books, Ledger, Recording
    <3>2. sent'[job[w]] = sent[job[w]] + r.sent /\ res'[w].sent = r.sent
      BY <1>1, <2>1, <2>2
    <3>3. \A v \in Workers : Recording(v, job[w])' <=> v = w
      BY <1>1, <2>1, <2>2 DEF Recording
    <3> QED BY <1>1, <2>1, <2>2, <2>3, <3>1, <3>2, <3>3 DEF Ledger
  <2> QED BY <2>1, <2>2, <2>4, <2>5 DEF Books
<1>3. CASE Record(w)
  <2>1. /\ pc[w] = "sent"
        /\ job[w] \in Targets
        /\ \A v \in Workers : job[v] = job[w] => v = w
    BY <1>3 DEF Record, Custody, JobsAreHeld, Holding
  <2>2. /\ observed' = [observed EXCEPT ![job[w]] =
                          observed[job[w]] + res[w].replies]
        /\ lost' = [lost EXCEPT ![job[w]] =
                          lost[job[w]] + res[w].sent - res[w].replies]
        /\ res' = [res EXCEPT ![w] = NoResult]
        /\ pc' = [pc EXCEPT ![w] = "keep"]
        /\ UNCHANGED <<job, sent>>
    BY <1>3 DEF Record
  <2>3. res[w].sent \in Nat /\ res[w].replies \in Nat
    BY <1>1
  <2>4. ASSUME NEW t \in Targets, t # job[w] PROVE Ledger(t)'
    <3>1. Ledger(t)
      BY DEF Books
    <3>2. observed'[t] = observed[t] /\ lost'[t] = lost[t]
      BY <1>1, <2>1, <2>2, <2>4
    <3>3. \A v \in Workers : /\ Recording(v, t)' <=> Recording(v, t)
                             /\ Recording(v, t) => res'[v] = res[v]
      BY <1>1, <2>1, <2>2, <2>4 DEF Recording
    <3> QED BY <2>2, <3>1, <3>2, <3>3 DEF Ledger
  <2>5. Ledger(job[w])'
    <3>1. sent[job[w]] - observed[job[w]] = lost[job[w]] + res[w].sent
      BY <2>1 DEF Books, Ledger, Recording
    <3>2. /\ observed'[job[w]] = observed[job[w]] + res[w].replies
          /\ lost'[job[w]] = lost[job[w]] + res[w].sent - res[w].replies
      BY <1>1, <2>1, <2>2
    <3>3. \A v \in Workers : ~Recording(v, job[w])'
      BY <1>1, <2>1, <2>2 DEF Recording
    <3> QED BY <1>1, <2>1, <2>2, <2>3, <3>1, <3>2, <3>3 DEF Ledger
  <2> QED BY <2>1, <2>2, <2>4, <2>5 DEF Books
<1>4. CASE Dequeue(w) \/ DropJob(w) \/ EndRun(w)
  <2>1. /\ pc[w] # "sent" /\ pc'[w] # "sent"
        /\ \A v \in Workers : v # w => pc'[v] = pc[v] /\ job'[v] = job[v]
        /\ UNCHANGED <<res, sent, observed, lost>>
    BY <1>1, <1>4 DEF Dequeue, DropJob, EndRun, metrics, history
  <2>2. \A v \in Workers, t \in Targets : Recording(v, t)' <=> Recording(v, t)
    BY <2>1 DEF Recording
  <2> QED BY <2>1, <2>2 DEF Books, Ledger
<1>5. CASE ~(\/ \E r \in Results : RunOk(w, r)
             \/ Record(w) \/ Dequeue(w) \/ DropJob(w) \/ EndRun(w))
  <2>1. UNCHANGED <<job, res, sent, observed, lost>>
    BY <1>5 DEF Worker, DialOk, DialFail, BackoffElapsed, BackoffCancelled,
         IdleCancelled, BeginRun, RunFail, Reconnect, CloseSession, WorkerExit,
         metrics, history
  <2>2. \A v \in Workers : (pc'[v] = "sent") <=> (pc[v] = "sent")
    BY <1>1, <1>5 DEF Worker, DialOk, DialFail, BackoffElapsed,
         BackoffCancelled, IdleCancelled, BeginRun, RunFail, Failures,
         Reconnect, CloseSession, WorkerExit
  <2> QED BY <2>1, <2>2, BooksQuiet
<1> QED BY <1>2, <1>3, <1>4, <1>5

\* No step leaves the books unbalanced.
LEMMA BooksNext == TypeOK /\ Custody /\ Books /\ [Next]_vars => Books'
<1> SUFFICES ASSUME TypeOK, Custody, Books, [Next]_vars PROVE Books'
  OBVIOUS
<1>1. CASE Start
  <2>1. \A w \in Workers : pc[w] # "sent" /\ pc'[w] # "sent"
    BY <1>1 DEF Start, Custody, Unstarted
  <2> QED BY <1>1, <2>1, BooksQuiet DEF Start, metrics, history
<1>2. CASE StopUnstarted \/ StopCancel \/ StopReturn \/ UNCHANGED vars
           \/ \E t \in Targets : Timer(t)
  <2>1. UNCHANGED <<pc, job, res, sent, observed, lost>>
    BY <1>2 DEF StopUnstarted, StopCancel, StopReturn, vars, Timer, FireSkip,
         FireClaim, Send, TimerExit, wvars, metrics, history
  <2> QED BY <2>1, BooksQuiet
<1>3. CASE \E w \in Workers : Worker(w)
  BY <1>3, BooksWorker
<1> QED BY <1>1, <1>2, <1>3 DEF Next, Terminated

\* The books say what LossIsReal says.
LEMMA BooksLoss == Books => LossIsReal
BY DEF Books, Ledger, Recording, LossIsReal

\* The gap between requests_total and the histogram is what the router
\* reported lost, after any failures (scheduler.go:235-236, README.md:104).
THEOREM LossReal == Spec => []LossIsReal
<1>1. Init => Books
  BY DEF Init, Books, Ledger, Recording
<1> QED BY <1>1, TypeCorrect, CustodyHolds, BooksNext, BooksLoss, PTL DEF Spec

-----------------------------------------------------------------------------
(***************************************************************************)
(* The fate of every timer fire.                                           *)
(***************************************************************************)
Pending   == {t \in Targets : pending[t]}
Reporting == {w \in Workers : pc[w] \in {"keep", "lose"}}

Errors    == remoteErrors["connect"] + remoteErrors["timeout"]
               + remoteErrors["parse"]

\* The sets counted in the balance are finite.
LEMMA PendingCounts ==
  /\ IsFiniteSet(Pending) /\ Cardinality(Pending) \in Nat
  /\ IsFiniteSet(Pending') /\ Cardinality(Pending') \in Nat
  /\ IsFiniteSet(Reporting) /\ Cardinality(Reporting) \in Nat
  /\ IsFiniteSet(Reporting') /\ Cardinality(Reporting') \in Nat
<1>1. /\ Pending \subseteq Targets /\ Pending' \subseteq Targets
      /\ Reporting \subseteq Workers /\ Reporting' \subseteq Workers
  BY DEF Pending, Reporting
<1> QED BY <1>1, SubsetFinite

\* EveryFireAccounted as a sum of named parts, before and after a step.
Balance == jobsSkipped + recorded + dropped + Errors
             + Cardinality(Pending) - Cardinality(Reporting)

\* The account is one sum of naturals, before and after a step.
LEMMA AccountForm ==
  ASSUME TypeOK, TypeOK'
  PROVE  /\ Errors \in Nat /\ Errors' \in Nat
         /\ EveryFireAccounted <=> fired = Balance
         /\ EveryFireAccounted' <=> fired' = Balance'
<1>1. /\ {fired, jobsSkipped, recorded, dropped} \subseteq Nat
      /\ {fired, jobsSkipped, recorded, dropped}' \subseteq Nat
      /\ \A x \in Reasons : remoteErrors[x] \in Nat /\ remoteErrors'[x] \in Nat
  BY DEF TypeOK
<1>2. /\ remoteErrors["connect"] \in Nat /\ remoteErrors'["connect"] \in Nat
      /\ remoteErrors["timeout"] \in Nat /\ remoteErrors'["timeout"] \in Nat
      /\ remoteErrors["parse"] \in Nat /\ remoteErrors'["parse"] \in Nat
  BY <1>1 DEF Reasons
<1>3. Errors \in Nat /\ Errors' \in Nat
  BY <1>2 DEF Errors
<1>4. EveryFireAccounted <=> fired = Balance
  BY <1>1, <1>2, PendingCounts
     DEF EveryFireAccounted, Balance, Errors, Pending, Reporting
<1>5. EveryFireAccounted' <=> fired' = Balance'
  BY <1>1, <1>2, PendingCounts
     DEF EveryFireAccounted, Balance, Errors, Pending, Reporting
<1> QED BY <1>3, <1>4, <1>5

\* Nothing has fired and nothing is pending.
LEMMA AccountInit == Init => EveryFireAccounted
<1> SUFFICES ASSUME Init PROVE EveryFireAccounted
  OBVIOUS
<1>1. Pending = {} /\ Reporting = {}
  BY DEF Init, Pending, Reporting
<1>2. Cardinality(Pending) = 0 /\ Cardinality(Reporting) = 0
  BY <1>1, FS_EmptySet
<1> QED BY <1>2 DEF Init, EveryFireAccounted, Pending, Reporting, Reasons

\* A fire is skipped or becomes pending; a send that fails becomes a skip.
LEMMA AccountTimer ==
  ASSUME TypeOK, TypeOK', Custody, EveryFireAccounted, NEW t \in Targets, Timer(t)
  PROVE  EveryFireAccounted'
<1>1. /\ pending \in [Targets -> BOOLEAN]
      /\ Errors \in Nat
      /\ remoteErrors \in [Reasons -> Nat]
      /\ {fired, jobsSkipped, recorded, dropped} \subseteq Nat
  BY AccountForm DEF TypeOK
<1>2. /\ UNCHANGED <<pc, Errors, recorded, dropped>>
      /\ Reporting' = Reporting
  BY DEF Timer, FireSkip, FireClaim, Send, TimerExit, wvars, metrics, history,
         Reporting, Errors
<1>3. CASE FireSkip(t)
  BY <1>1, <1>2, <1>3, PendingCounts, AccountForm
     DEF FireSkip, Balance, Pending
<1>4. CASE FireClaim(t)
  <2>1. t \notin Pending /\ Pending' = Pending \cup {t}
    BY <1>1, <1>4 DEF FireClaim, Pending
  <2>2. Cardinality(Pending') = Cardinality(Pending) + 1
    BY <2>1, PendingCounts, CardinalityStep
  <2>3. fired' = fired + 1 /\ UNCHANGED jobsSkipped
    BY <1>4 DEF FireClaim, metrics
  <2> QED BY <1>1, <1>2, <2>2, <2>3, PendingCounts, AccountForm
          DEF Balance
<1>5. CASE Send(t) /\ Len(queue) < QueueCap
  BY <1>1, <1>2, <1>5, PendingCounts, AccountForm
     DEF Send, history, Balance, Pending
<1>6. CASE Send(t) /\ ~(Len(queue) < QueueCap)
  \* The queue has room, so this branch is not taken.
  <2>1. QueueHasRoom
    BY CustodyRoom
  <2> QED BY <1>6, <2>1 DEF Send, QueueHasRoom
<1>7. CASE TimerExit(t)
  BY <1>1, <1>2, <1>7, PendingCounts, AccountForm
     DEF TimerExit, metrics, history, Balance, Pending
<1> QED BY <1>3, <1>4, <1>5, <1>6, <1>7 DEF Timer

\* A pending fire becomes one outcome.
LEMMA AccountWorker ==
  ASSUME TypeOK, TypeOK', Custody, EveryFireAccounted, NEW w \in Workers, Worker(w)
  PROVE  EveryFireAccounted'
<1>1. /\ pending \in [Targets -> BOOLEAN]
      /\ Errors \in Nat
      /\ pc \in [Workers -> WorkerPC]
      /\ remoteErrors \in [Reasons -> Nat]
      /\ {fired, jobsSkipped, recorded, dropped} \subseteq Nat
  BY AccountForm DEF TypeOK
<1>2. CASE DropJob(w) \/ EndRun(w)
  <2>1. job[w] \in Targets /\ pending[job[w]]
    BY <1>2 DEF DropJob, EndRun, Custody, JobsAreHeld, Holding
  <2>2. job[w] \notin Pending' /\ Pending = Pending' \cup {job[w]}
    BY <1>1, <1>2, <2>1 DEF DropJob, EndRun, Pending
  <2>3. Cardinality(Pending) = Cardinality(Pending') + 1
    BY <2>2, PendingCounts, CardinalityStep
  <2>4. CASE DropJob(w)
    <3>1. Reporting' = Reporting
      BY <1>1, <2>4 DEF DropJob, Reporting
    <3>2. dropped' = dropped + 1
          /\ UNCHANGED <<fired, jobsSkipped, recorded, Errors>>
      BY <2>4 DEF DropJob, metrics, Errors
    <3> QED BY <1>1, <2>3, <3>1, <3>2, PendingCounts, AccountForm
            DEF Balance
  <2>5. CASE EndRun(w)
    <3>1. w \notin Reporting' /\ Reporting = Reporting' \cup {w}
      BY <1>1, <2>5 DEF EndRun, Reporting
    <3>2. Cardinality(Reporting) = Cardinality(Reporting') + 1
      BY <3>1, PendingCounts, CardinalityStep
    <3>3. UNCHANGED <<fired, jobsSkipped, recorded, Errors, dropped>>
      BY <2>5 DEF EndRun, metrics, history, Errors
    <3> QED BY <1>1, <2>3, <3>2, <3>3, PendingCounts, AccountForm
            DEF Balance
  <2> QED BY <1>2, <2>4, <2>5
<1>3. CASE Record(w) \/ \E f \in Failures : RunFail(w, f)
  <2>1. w \notin Reporting /\ Reporting' = Reporting \cup {w}
    BY <1>1, <1>3 DEF Record, RunFail, Failures, Reporting
  <2>2. Cardinality(Reporting') = Cardinality(Reporting) + 1
    BY <2>1, PendingCounts, CardinalityStep
  <2>3. Pending' = Pending
    BY <1>3 DEF Record, RunFail, Pending
  <2>4. CASE Record(w)
    <3>1. recorded' = recorded + 1
          /\ UNCHANGED <<fired, jobsSkipped, Errors, dropped>>
      BY <2>4 DEF Record, Errors
    <3> QED BY <1>1, <2>2, <2>3, <3>1, PendingCounts, AccountForm
            DEF Balance
  <2>5. ASSUME NEW f \in Failures, RunFail(w, f) PROVE EveryFireAccounted'
    <3>1. f.reason \in Reasons
          /\ remoteErrors' = [remoteErrors EXCEPT ![f.reason] =
                                 remoteErrors[f.reason] + 1]
          /\ UNCHANGED <<fired, jobsSkipped, recorded, dropped>>
      BY <2>5 DEF RunFail, Failures, Reasons, history
    <3>2. Errors' = Errors + 1
      BY <1>1, <3>1 DEF Reasons, Errors
    <3> QED BY <1>1, <2>2, <2>3, <3>1, <3>2, PendingCounts, AccountForm
            DEF Balance
  <2> QED BY <1>3, <2>4, <2>5
<1>4. CASE ~(DropJob(w) \/ EndRun(w) \/ Record(w)
             \/ \E f \in Failures : RunFail(w, f))
  <2>1. UNCHANGED <<pending, fired, jobsSkipped, recorded, remoteErrors, dropped>>
    BY <1>4 DEF Worker, DialOk, DialFail, BackoffElapsed, BackoffCancelled,
         IdleCancelled, Dequeue, BeginRun, RunOk, Reconnect, CloseSession,
         WorkerExit, metrics, history
  <2>2. Reporting' = Reporting
    BY <1>1, <1>4 DEF Worker, DialOk, DialFail, BackoffElapsed,
         BackoffCancelled, IdleCancelled, Dequeue, BeginRun, RunOk, Reconnect,
         CloseSession, WorkerExit, Reporting
  <2> QED BY <2>1, <2>2 DEF EveryFireAccounted, Reporting
<1> QED BY <1>2, <1>3, <1>4

\* No step loses a fire.
LEMMA AccountNext ==
  TypeOK /\ Custody /\ EveryFireAccounted /\ [Next]_vars => EveryFireAccounted'
<1> SUFFICES ASSUME TypeOK, Custody, EveryFireAccounted, [Next]_vars
             PROVE  EveryFireAccounted'
  OBVIOUS
<1>1. CASE Start
  <2>1. Reporting = {} /\ Reporting' = {}
    BY <1>1 DEF Start, Custody, Unstarted, Reporting
  <2>2. UNCHANGED <<pending, fired, jobsSkipped, recorded, remoteErrors, dropped>>
    BY <1>1 DEF Start, metrics, history
  <2> QED BY <2>1, <2>2 DEF EveryFireAccounted, Reporting
<1>2. CASE StopUnstarted \/ StopCancel \/ StopReturn \/ UNCHANGED vars
  BY <1>2 DEF StopUnstarted, StopCancel, StopReturn, vars, wvars, metrics,
              history, EveryFireAccounted
<1>3. CASE \E t \in Targets : Timer(t)
  BY <1>3, AccountTimer, TypeNext
<1>4. CASE \E w \in Workers : Worker(w)
  BY <1>4, AccountWorker, TypeNext
<1> QED BY <1>1, <1>2, <1>3, <1>4 DEF Next, Terminated

\* Every timer fire is skipped, recorded, counted as an error, dropped by Stop
\* or still pending: none disappears, none counts twice.
THEOREM FiresAccounted == Spec => []EveryFireAccounted
BY TypeCorrect, CustodyHolds, AccountInit, AccountNext, PTL DEF Spec
=============================================================================
