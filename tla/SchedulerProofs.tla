---------------------------- MODULE SchedulerProofs ----------------------------
(***************************************************************************)
(* Proofs about the scheduler, for any targets, any number of sessions and *)
(* any number of timer fires.                                              *)
(***************************************************************************)
EXTENDS Scheduler, TLAPS, FiniteSetTheorems, SequenceTheorems

USE TargetsAssumption, WorkersAssumption, ResultsAssumption,
    BackoffAssumption, BoundsAssumption

-----------------------------------------------------------------------------
(***************************************************************************)
(* Type correctness.                                                       *)
(***************************************************************************)

\* A function updated at one point keeps its type.
LEMMA UpdateType ==
  ASSUME NEW S, NEW T, NEW f \in [S -> T], NEW x, NEW v, x \in S => v \in T
  PROVE  [f EXCEPT ![x] = v] \in [S -> T]
OBVIOUS

\* The scheduler as NewScheduler leaves it.
LEMMA TypeInit == Init => TypeOK
BY DEF Init, TypeOK, TimerPC, WorkerPC, NoResult, Reasons

\* The steps of a target's goroutine keep the types.
LEMMA TypeTimer ==
  ASSUME TypeOK, NEW t \in Targets, Timer(t)
  PROVE  TypeOK'
<1> USE DEF TypeOK, TimerPC, wvars, metrics, history, life
<1>1. CASE FireSkip(t)
  BY <1>1 DEF FireSkip
<1>2. CASE FireClaim(t)
  BY <1>2 DEF FireClaim
<1>3. CASE Send(t)
  <2>1. Append(queue, t) \in Seq(Targets)
    BY AppendProperties
  <2>2. queue' \in Seq(Targets) /\ jobsSkipped' \in Nat
    <3>1. CASE Len(queue) < QueueCap
      BY <1>3, <2>1, <3>1 DEF Send
    <3>2. CASE ~(Len(queue) < QueueCap)
      BY <1>3, <3>2 DEF Send
    <3> QED BY <3>1, <3>2
  <2>4. pending' \in [Targets -> BOOLEAN]
    <3>1. [pending EXCEPT ![t] = FALSE] \in [Targets -> BOOLEAN]
      BY UpdateType, Zenon
    <3> QED BY <1>3, <3>1, Zenon DEF Send
  <2>3. timer' \in [Targets -> TimerPC]
    BY <1>3 DEF Send
  <2> QED BY <1>3, <2>2, <2>3, <2>4 DEF Send
<1>4. CASE TimerExit(t)
  BY <1>4 DEF TimerExit
<1> QED BY <1>1, <1>2, <1>3, <1>4 DEF Timer

\* The steps of a worker keep the types.
LEMMA TypeWorker ==
  ASSUME TypeOK, NEW w \in Workers, Worker(w)
  PROVE  TypeOK'
<1> USE DEF TypeOK, WorkerPC, NoResult, wvars, metrics, history, life
<1>1. CASE DialOk(w)
  BY <1>1 DEF DialOk
<1>2. CASE DialFail(w)
  BY <1>2 DEF DialFail
<1>3. CASE BackoffElapsed(w)
  BY <1>3 DEF BackoffElapsed
<1>4. CASE BackoffCancelled(w)
  BY <1>4 DEF BackoffCancelled
<1>5. CASE IdleCancelled(w)
  BY <1>5 DEF IdleCancelled
<1>6. CASE Dequeue(w)
  <2>1. Head(queue) \in Targets /\ Tail(queue) \in Seq(Targets)
    BY <1>6, HeadTailProperties DEF Dequeue
  <2> QED BY <1>6, <2>1 DEF Dequeue
<1>7. CASE DropJob(w)
  <2>1. [pending EXCEPT ![job[w]] = FALSE] \in [Targets -> BOOLEAN]
    BY UpdateType, Zenon
  <2> QED BY <1>7, <2>1 DEF DropJob
<1>8. CASE BeginRun(w)
  BY <1>8 DEF BeginRun
<1>9. ASSUME NEW r \in Results, RunOk(w, r) PROVE TypeOK'
  <2>1. sent' \in [Targets -> Nat]
    <3>1. r.sent \in Nat
      OBVIOUS
    <3>2. job[w] \in Targets => sent[job[w]] + r.sent \in Nat
      BY <3>1
    <3>3. [sent EXCEPT ![job[w]] = sent[job[w]] + r.sent] \in [Targets -> Nat]
      BY <3>2, UpdateType
    <3> QED BY <1>9, <3>3 DEF RunOk
  <2>2. res' \in [Workers -> [sent : Nat, replies : Nat]]
    BY <1>9 DEF RunOk
  <2>3. pc' \in [Workers -> WorkerPC]
    BY <1>9 DEF RunOk
  <2> QED BY <1>9, <2>1, <2>2, <2>3 DEF RunOk
<1>10. CASE Record(w)
  <2>1. res[w].sent \in Nat /\ res[w].replies \in Nat
    OBVIOUS
  <2>2. observed' \in [Targets -> Nat]
    <3>1. job[w] \in Targets => observed[job[w]] + res[w].replies \in Nat
      BY <2>1
    <3>2. [observed EXCEPT ![job[w]] = observed[job[w]] + res[w].replies]
            \in [Targets -> Nat]
      BY <3>1, UpdateType
    <3> QED BY <1>10, <3>2 DEF Record
  <2>3. lost' \in [Targets -> Int]
    <3>1. job[w] \in Targets
            => lost[job[w]] + res[w].sent - res[w].replies \in Int
      BY <2>1
    <3>2. [lost EXCEPT ![job[w]] = lost[job[w]] + res[w].sent - res[w].replies]
            \in [Targets -> Int]
      BY <3>1, UpdateType
    <3> QED BY <1>10, <3>2 DEF Record
  <2>4. /\ res' \in [Workers -> [sent : Nat, replies : Nat]]
        /\ pc' \in [Workers -> WorkerPC]
        /\ recorded' \in Nat
    BY <1>10 DEF Record
  <2> QED BY <1>10, <2>2, <2>3, <2>4 DEF Record
<1>11. ASSUME NEW f \in Failures, RunFail(w, f) PROVE TypeOK'
  <2>1. remoteErrors' \in [Reasons -> Nat]
    BY <1>11 DEF RunFail, Failures, Reasons
  <2>2. pc' \in [Workers -> WorkerPC]
    BY <1>11 DEF RunFail, Failures
  <2> QED BY <1>11, <2>1, <2>2 DEF RunFail
<1>12. CASE EndRun(w)
  <2>1. pending' \in [Targets -> BOOLEAN]
    BY <1>12 DEF EndRun
  <2>2. /\ job' \in [Workers -> Targets \cup {NoTarget}]
        /\ pc' \in [Workers -> WorkerPC]
    BY <1>12 DEF EndRun
  <2> QED BY <1>12, <2>1, <2>2 DEF EndRun
<1>13. CASE Reconnect(w)
  BY <1>13 DEF Reconnect
<1>14. CASE CloseSession(w)
  BY <1>14 DEF CloseSession
<1>15. CASE WorkerExit(w)
  BY <1>15 DEF WorkerExit
<1> QED
  BY <1>1, <1>2, <1>3, <1>4, <1>5, <1>6, <1>7, <1>8, <1>9, <1>10, <1>11,
     <1>12, <1>13, <1>14, <1>15 DEF Worker

\* Every step keeps the types.
LEMMA TypeNext == TypeOK /\ [Next]_vars => TypeOK'
<1> SUFFICES ASSUME TypeOK, [Next]_vars PROVE TypeOK'
  OBVIOUS
<1> USE DEF TypeOK, wvars, metrics, history, life
<1>1. CASE Start
  <2>1. wg' \in Int
    BY <1>1, FS_CardinalityType DEF Start
  <2> QED BY <1>1, <2>1 DEF Start, WorkerPC, TimerPC
<1>2. CASE StopUnstarted
  BY <1>2 DEF StopUnstarted
<1>3. CASE StopCancel
  BY <1>3 DEF StopCancel
<1>4. CASE StopReturn
  BY <1>4 DEF StopReturn
<1>5. CASE \E t \in Targets : Timer(t)
  BY <1>5, TypeTimer
<1>6. CASE \E w \in Workers : Worker(w)
  BY <1>6, TypeWorker
<1>7. CASE UNCHANGED vars
  BY <1>7 DEF vars
<1> QED
  BY <1>1, <1>2, <1>3, <1>4, <1>5, <1>6, <1>7 DEF Next, Terminated

\* Every variable keeps its type, whatever the router, the timers and Stop do.
THEOREM TypeCorrect == Spec => []TypeOK
BY TypeInit, TypeNext, PTL DEF Spec

-----------------------------------------------------------------------------
(***************************************************************************)
(* Custody: where a target can be.  PendingIsOnePlace counts the places of *)
(* a target; the inductive form says where each place excludes the others. *)
(***************************************************************************)
Queued(t) == \E i \in 1 .. Len(queue) : queue[i] = t
Held(t)   == \E w \in Workers : job[w] = t

JobsAreHeld ==
  /\ \A w \in Workers : Holding(w) => job[w] \in Targets /\ pending[job[w]]
  /\ \A w \in Workers : ~Holding(w) => job[w] = NoTarget
  /\ \A v, w \in Workers : job[v] = job[w] /\ job[v] # NoTarget => v = w

QueueIsHeld ==
  /\ \A i \in 1 .. Len(queue) : pending[queue[i]] /\ ~Held(queue[i])
  /\ \A i, j \in 1 .. Len(queue) : queue[i] = queue[j] => i = j

ClaimsAreHeld ==
  \A t \in Targets : timer[t] = "claimed" => pending[t] /\ ~Queued(t) /\ ~Held(t)

FlagHasOwner ==
  \A t \in Targets : pending[t] => timer[t] = "claimed" \/ Queued(t) \/ Held(t)

\* Where the elements of Append(q, e) and of Tail(q) are.
LEMMA AppendPositions ==
  ASSUME NEW S, NEW q \in Seq(S), NEW e \in S
  PROVE  /\ Len(q) \in Nat
         /\ \A i \in 1 .. Len(q) : /\ i \in 1 .. Len(Append(q, e))
                                   /\ Append(q, e)[i] = q[i]
         /\ Len(q) + 1 \in 1 .. Len(Append(q, e))
         /\ Append(q, e)[Len(q) + 1] = e
         /\ \A i \in 1 .. Len(Append(q, e)) :
              i \in 1 .. Len(q) \/ i = Len(q) + 1
BY AppendProperties, LenProperties

\* Taking the head off a sequence moves the others one place forward.
LEMMA TailPositions ==
  ASSUME NEW S, NEW q \in Seq(S), q # <<>>
  PROVE  /\ \A i \in 1 .. Len(Tail(q)) : /\ i + 1 \in 1 .. Len(q)
                                         /\ i + 1 # 1
                                         /\ Tail(q)[i] = q[i + 1]
         /\ \A i \in 1 .. Len(q) : i = 1 \/ i - 1 \in 1 .. Len(Tail(q))
         /\ 1 \in 1 .. Len(q)
         /\ Head(q) = q[1]
BY HeadTailProperties, LenProperties

\* Before Start no goroutine exists.
Unstarted ==
  main = "new" => /\ \A t \in Targets : timer[t] = "absent"
                  /\ \A w \in Workers : pc[w] = "absent"

Custody ==
  JobsAreHeld /\ QueueIsHeld /\ ClaimsAreHeld /\ FlagHasOwner /\ Unstarted

\* No flag is set before Start.
LEMMA CustodyInit == Init => Custody
BY DEF Init, Custody, JobsAreHeld, QueueIsHeld, ClaimsAreHeld, FlagHasOwner,
       Unstarted, Queued, Held, Holding

\* A step that moves no target leaves the custody as it is.
LEMMA CustodyQuiet ==
  ASSUME Custody,
         UNCHANGED <<pending, queue, job>>,
         \A t \in Targets : (timer'[t] = "claimed") <=> (timer[t] = "claimed"),
         \A w \in Workers : Holding(w)' <=> Holding(w),
         Unstarted'
  PROVE  Custody'
BY DEF Custody, JobsAreHeld, QueueIsHeld, ClaimsAreHeld, FlagHasOwner, Queued, Held

\* A timer claims a free target, then passes it to the queue or lets go.
LEMMA CustodyTimer ==
  ASSUME TypeOK, Custody, NEW t \in Targets, Timer(t)
  PROVE  Custody'
<1>0. /\ timer \in [Targets -> TimerPC]
      /\ pending \in [Targets -> BOOLEAN]
      /\ queue \in Seq(Targets)
      /\ pc \in [Workers -> WorkerPC]
      /\ job \in [Workers -> Targets \cup {NoTarget}]
  BY DEF TypeOK
<1> USE <1>0 DEF wvars, metrics, history, life
<1>1. CASE FireSkip(t)
  <2>1. UNCHANGED <<main, timer, pending, queue, pc, job>>
    BY <1>1 DEF FireSkip
  <2> QED BY <2>1, CustodyQuiet DEF Holding, Unstarted, Custody
<1>2. CASE FireClaim(t)
  <2>1. ~Queued(t) /\ ~Held(t)
    BY <1>2 DEF FireClaim, Custody, QueueIsHeld, JobsAreHeld, Queued, Held
  <2>2. /\ pending' = [pending EXCEPT ![t] = TRUE]
        /\ timer' = [timer EXCEPT ![t] = "claimed"]
        /\ UNCHANGED <<queue, pc, job, main>>
    BY <1>2 DEF FireClaim
  <2>3. JobsAreHeld'
    BY <2>2 DEF Custody, JobsAreHeld, Holding
  <2>4. QueueIsHeld'
    BY <2>1, <2>2 DEF Custody, QueueIsHeld, Queued, Held
  <2>5. ClaimsAreHeld'
    BY <2>1, <2>2 DEF Custody, ClaimsAreHeld, Queued, Held
  <2>6. FlagHasOwner'
    BY <2>2 DEF Custody, FlagHasOwner, Queued, Held
  <2>7. Unstarted'
    BY <1>2, <2>2 DEF Custody, Unstarted, FireClaim
  <2> QED BY <2>3, <2>4, <2>5, <2>6, <2>7 DEF Custody
<1>3. CASE Send(t)
  <2>1. pending[t] /\ ~Queued(t) /\ ~Held(t)
    BY <1>3 DEF Send, Custody, ClaimsAreHeld
  <2>2. /\ timer' = [timer EXCEPT ![t] = "waiting"]
        /\ UNCHANGED <<pc, job, main>>
    BY <1>3 DEF Send
  <2>3. main # "new"
    BY <1>3 DEF Send, Custody, Unstarted
  <2>4. CASE Len(queue) < QueueCap
    <3>1. queue' = Append(queue, t) /\ UNCHANGED pending
      BY <1>3, <2>4 DEF Send
    <3>2. /\ Len(queue) \in Nat
          /\ \A i \in 1 .. Len(queue) : /\ i \in 1 .. Len(queue')
                                        /\ queue'[i] = queue[i]
          /\ Len(queue) + 1 \in 1 .. Len(queue')
          /\ queue'[Len(queue) + 1] = t
          /\ \A i \in 1 .. Len(queue') :
               i \in 1 .. Len(queue) \/ i = Len(queue) + 1
      BY <3>1, AppendPositions
    <3>4. JobsAreHeld'
      BY <2>2, <3>1 DEF Custody, JobsAreHeld, Holding
    <3>5. \A u : Queued(u)' <=> Queued(u) \/ u = t
      BY <3>2, Zenon DEF Queued
    <3>6. \A u : Held(u)' <=> Held(u)
      BY <2>2 DEF Held
    <3>7. QueueIsHeld'
      <4>1. ASSUME NEW i \in 1 .. Len(queue')
            PROVE  pending[queue'[i]] /\ ~Held(queue'[i])
        BY <2>1, <3>2 DEF Custody, QueueIsHeld
      <4>2. ASSUME NEW i \in 1 .. Len(queue'), NEW j \in 1 .. Len(queue'),
                   queue'[i] = queue'[j]
            PROVE  i = j
        BY <2>1, <3>2, <4>2 DEF Custody, QueueIsHeld, Queued
      <4> QED BY <3>1, <3>6, <4>1, <4>2 DEF QueueIsHeld
    <3>8. ClaimsAreHeld'
      BY <2>2, <3>1, <3>5, <3>6 DEF Custody, ClaimsAreHeld
    <3>9. FlagHasOwner'
      BY <2>2, <3>1, <3>5, <3>6 DEF Custody, FlagHasOwner
    <3> QED BY <2>2, <2>3, <3>4, <3>7, <3>8, <3>9 DEF Custody, Unstarted
  <2>5. CASE ~(Len(queue) < QueueCap)
    <3>1. pending' = [pending EXCEPT ![t] = FALSE] /\ UNCHANGED queue
      BY <1>3, <2>5 DEF Send
    <3>2. JobsAreHeld'
      BY <2>1, <2>2, <3>1 DEF Custody, JobsAreHeld, Holding, Held
    <3>3. QueueIsHeld'
      BY <2>1, <2>2, <3>1 DEF Custody, QueueIsHeld, Queued, Held
    <3>4. ClaimsAreHeld'
      BY <2>1, <2>2, <3>1 DEF Custody, ClaimsAreHeld, Queued, Held
    <3>5. FlagHasOwner'
      BY <2>2, <3>1 DEF Custody, FlagHasOwner, Queued, Held
    <3> QED BY <2>2, <2>3, <3>2, <3>3, <3>4, <3>5 DEF Custody, Unstarted
  <2> QED BY <2>4, <2>5
<1>4. CASE TimerExit(t)
  BY <1>4, CustodyQuiet DEF TimerExit, Holding, Unstarted, Custody, Cancelled
<1> QED BY <1>1, <1>2, <1>3, <1>4 DEF Timer

\* A worker that lets go of its job clears the flag of nothing else.
LEMMA CustodyRelease ==
  ASSUME TypeOK, Custody, NEW w \in Workers, Holding(w),
         pending' = [pending EXCEPT ![job[w]] = FALSE],
         job' = [job EXCEPT ![w] = NoTarget],
         \A v \in Workers : Holding(v)' <=> Holding(v) /\ v # w,
         UNCHANGED <<queue, timer>>,
         Unstarted'
  PROVE  Custody'
<1>1. /\ job[w] \in Targets
      /\ Held(job[w])
      /\ ~Queued(job[w])
      /\ timer[job[w]] # "claimed"
  BY DEF Custody, JobsAreHeld, QueueIsHeld, ClaimsAreHeld, Queued, Held
<1>2. /\ pending \in [Targets -> BOOLEAN]
      /\ job \in [Workers -> Targets \cup {NoTarget}]
      /\ queue \in Seq(Targets)
  BY DEF TypeOK
<1>3. /\ ~pending'[job[w]]
      /\ \A t \in Targets : t # job[w] => pending'[t] = pending[t]
      /\ job'[w] = NoTarget
      /\ \A v \in Workers : v # w => job'[v] = job[v] /\ job[v] # job[w]
  BY <1>1, <1>2 DEF Custody, JobsAreHeld
<1>4. \A u \in Targets : Queued(u)' <=> Queued(u)
  BY DEF Queued
<1>5. \A u \in Targets : Held(u)' <=> Held(u) /\ u # job[w]
  BY <1>1, <1>3 DEF Held
<1>6. JobsAreHeld'
  BY <1>1, <1>3 DEF Custody, JobsAreHeld
<1>7. QueueIsHeld'
  <2>1. \A i \in 1 .. Len(queue) : queue[i] \in Targets /\ queue[i] # job[w]
    BY <1>1, <1>2, ElementOfSeq DEF Queued
  <2> QED BY <1>3, <1>5, <2>1 DEF Custody, QueueIsHeld
<1>8. ClaimsAreHeld'
  BY <1>1, <1>3, <1>4, <1>5 DEF Custody, ClaimsAreHeld
<1>9. FlagHasOwner'
  BY <1>1, <1>3, <1>4, <1>5 DEF Custody, FlagHasOwner
<1> QED BY <1>6, <1>7, <1>8, <1>9 DEF Custody

\* A worker takes the head of the queue over.
LEMMA CustodyDequeue ==
  ASSUME TypeOK, Custody, NEW w \in Workers, Dequeue(w)
  PROVE  Custody'
<1>1. /\ pending \in [Targets -> BOOLEAN]
      /\ job \in [Workers -> Targets \cup {NoTarget}]
      /\ pc \in [Workers -> WorkerPC]
      /\ queue \in Seq(Targets)
      /\ queue # <<>>
  BY DEF TypeOK, Dequeue
<1> DEFINE u == Head(queue)
<1>2. /\ \A i \in 1 .. Len(queue') : /\ i + 1 \in 1 .. Len(queue)
                                     /\ i + 1 # 1
                                     /\ queue'[i] = queue[i + 1]
      /\ \A i \in 1 .. Len(queue) : i = 1 \/ i - 1 \in 1 .. Len(queue')
      /\ 1 \in 1 .. Len(queue)
      /\ u = queue[1]
      /\ u \in Targets
  BY <1>1, TailPositions, HeadTailProperties DEF Dequeue
<1>3. pending[u] /\ ~Held(u)
  BY <1>2 DEF Custody, QueueIsHeld
<1>4. /\ job[w] = NoTarget
      /\ job' = [job EXCEPT ![w] = u]
      /\ UNCHANGED <<timer, pending, main>>
      /\ \A v \in Workers : Holding(v)' <=> Holding(v) \/ v = w
  BY <1>1 DEF Dequeue, Holding, Custody, JobsAreHeld, life
<1> HIDE DEF u
<1>5. timer[u] # "claimed"
  BY <1>2 DEF Custody, ClaimsAreHeld, Queued
<1>6. \A t \in Targets : Queued(t)' <=> Queued(t) /\ t # u
  <2>1. ASSUME NEW t \in Targets, Queued(t)' PROVE Queued(t) /\ t # u
    BY <1>2, <2>1 DEF Queued, Custody, QueueIsHeld
  <2>2. ASSUME NEW t \in Targets, Queued(t), t # u PROVE Queued(t)'
    <3>1. PICK i \in 1 .. Len(queue) : queue[i] = t
      BY <2>2 DEF Queued
    <3>2. i - 1 \in 1 .. Len(queue')
      BY <1>2, <2>2, <3>1
    <3>3. queue'[i - 1] = queue[(i - 1) + 1]
      BY <1>2, <3>2
    <3>4. (i - 1) + 1 = i
      OBVIOUS
    <3> QED BY <3>1, <3>2, <3>3, <3>4 DEF Queued
  <2> QED BY <2>1, <2>2
<1>7. \A t \in Targets : Held(t)' <=> Held(t) \/ t = u
  BY <1>1, <1>2, <1>4 DEF Held
<1>8. JobsAreHeld'
  BY <1>1, <1>2, <1>3, <1>4 DEF Custody, JobsAreHeld, Held
<1>9. QueueIsHeld'
  <2>1. ASSUME NEW i \in 1 .. Len(queue')
        PROVE  (pending[queue[i]] /\ ~Held(queue[i]))'
    <3>1. /\ pending[queue[i + 1]]
          /\ ~Held(queue[i + 1])
          /\ queue[i + 1] # u
          /\ queue[i + 1] \in Targets
      BY <1>1, <1>2, ElementOfSeq DEF Custody, QueueIsHeld
    <3> QED BY <1>2, <1>4, <1>7, <3>1
  <2>2. ASSUME NEW i \in 1 .. Len(queue'), NEW j \in 1 .. Len(queue'),
               queue'[i] = queue'[j]
        PROVE  i = j
    <3>1. i + 1 = j + 1
      BY <1>2, <2>2 DEF Custody, QueueIsHeld
    <3> QED BY <3>1
  <2> QED BY <1>4, <2>1, <2>2 DEF QueueIsHeld
<1>10. ClaimsAreHeld'
  BY <1>4, <1>5, <1>6, <1>7 DEF Custody, ClaimsAreHeld
<1>11. FlagHasOwner'
  BY <1>4, <1>6, <1>7 DEF Custody, FlagHasOwner
<1>12. Unstarted'
  BY <1>4 DEF Custody, Unstarted, Dequeue
<1> QED BY <1>8, <1>9, <1>10, <1>11, <1>12 DEF Custody

\* A worker takes over, keeps or releases its own target only.
LEMMA CustodyWorker ==
  ASSUME TypeOK, Custody, NEW w \in Workers, Worker(w)
  PROVE  Custody'
<1>1. main # "new" => main' # "new"
  BY DEF Worker, DialOk, DialFail, BackoffElapsed, BackoffCancelled,
         IdleCancelled, Dequeue, DropJob, BeginRun, RunOk, Record, RunFail,
         EndRun, Reconnect, CloseSession, WorkerExit, life
<1>2. main # "new"
  BY DEF Worker, DialOk, DialFail, BackoffElapsed, BackoffCancelled,
         IdleCancelled, Dequeue, DropJob, BeginRun, RunOk, Record, RunFail,
         EndRun, Reconnect, CloseSession, WorkerExit, Custody, Unstarted
<1>3. Unstarted'
  BY <1>1, <1>2 DEF Unstarted
<1>4. pc \in [Workers -> WorkerPC]
  BY DEF TypeOK
<1>5. CASE Dequeue(w)
  BY <1>5, CustodyDequeue
<1>6. CASE DropJob(w) \/ EndRun(w)
  <2>1. /\ Holding(w)
        /\ pending' = [pending EXCEPT ![job[w]] = FALSE]
        /\ job' = [job EXCEPT ![w] = NoTarget]
        /\ UNCHANGED <<queue, timer>>
    BY <1>6 DEF DropJob, EndRun, Holding
  <2>2. \A v \in Workers : Holding(v)' <=> Holding(v) /\ v # w
    BY <1>4, <1>6 DEF DropJob, EndRun, Holding
  <2> QED BY <1>3, <2>1, <2>2, CustodyRelease
<1>7. CASE ~(Dequeue(w) \/ DropJob(w) \/ EndRun(w))
  <2>1. UNCHANGED <<pending, queue, job, timer>>
    BY <1>7 DEF Worker, DialOk, DialFail, BackoffElapsed, BackoffCancelled,
         IdleCancelled, BeginRun, RunOk, Record, RunFail,
         Reconnect, CloseSession, WorkerExit
  <2>2. \A v \in Workers : Holding(v)' <=> Holding(v)
    BY <1>4, <1>7 DEF Worker, DialOk, DialFail, BackoffElapsed, BackoffCancelled,
         IdleCancelled, BeginRun, RunOk, Record, RunFail, Failures,
         Reconnect, CloseSession, WorkerExit, Holding
  <2> QED BY <1>3, <2>1, <2>2, CustodyQuiet
<1> QED BY <1>5, <1>6, <1>7

\* Every step hands a target on or leaves it where it is.
LEMMA CustodyNext == TypeOK /\ Custody /\ [Next]_vars => Custody'
<1> SUFFICES ASSUME TypeOK, Custody, [Next]_vars PROVE Custody'
  OBVIOUS
<1> USE DEF wvars, metrics, history, life
<1>1. CASE Start
  <2>1. /\ \A t \in Targets : timer[t] # "claimed" /\ timer'[t] # "claimed"
        /\ \A w \in Workers : ~Holding(w) /\ ~Holding(w)'
        /\ UNCHANGED <<pending, queue, job>>
        /\ main' # "new"
    BY <1>1 DEF Start, Custody, Unstarted, Holding
  <2> QED BY <2>1, CustodyQuiet DEF Unstarted
<1>2. CASE StopUnstarted \/ StopCancel \/ StopReturn \/ UNCHANGED vars
  <2>1. /\ UNCHANGED <<pending, queue, job, timer, pc>>
        /\ Unstarted'
    BY <1>2 DEF StopUnstarted, StopCancel, StopReturn, vars, Custody, Unstarted
  <2> QED BY <2>1, CustodyQuiet DEF Holding
<1>3. CASE \E t \in Targets : Timer(t)
  BY <1>3, CustodyTimer
<1>4. CASE \E w \in Workers : Worker(w)
  BY <1>4, CustodyWorker
<1> QED BY <1>1, <1>2, <1>3, <1>4 DEF Next, Terminated

\* A set flag has one owner: a timer about to send, a position of the queue or
\* a worker (scheduler.go:148-156, 191-211), in every reachable state.
THEOREM CustodyHolds == Spec => []Custody
<1>1. Spec => []TypeOK
  BY TypeCorrect
<1> QED BY <1>1, CustodyInit, CustodyNext, PTL DEF Spec

-----------------------------------------------------------------------------
(***************************************************************************)
(* What custody implies.                                                   *)
(***************************************************************************)

\* A set with at most one element, none unless b, counts as b.
LEMMA AtMostOne ==
  ASSUME NEW S, NEW b \in BOOLEAN,
         \A x, y \in S : x = y,
         b <=> S # {}
  PROVE  Cardinality(S) = IF b THEN 1 ELSE 0
<1>1. CASE S = {}
  BY <1>1, FS_EmptySet
<1>2. CASE S # {}
  <2>1. PICK x \in S : S = {x}
    BY <1>2
  <2> QED BY <1>2, <2>1, FS_Singleton
<1> QED BY <1>1, <1>2

\* One owner each is what PendingIsOnePlace counts.
LEMMA CustodyOnePlace == TypeOK /\ Custody => PendingIsOnePlace
<1> SUFFICES ASSUME TypeOK, Custody, NEW t \in Targets
             PROVE  Places(t) = IF pending[t] THEN 1 ELSE 0
  BY DEF PendingIsOnePlace
<1> DEFINE Q == {i \in DOMAIN queue : queue[i] = t}
           H == {w \in Workers : Holding(w) /\ job[w] = t}
<1>1. /\ queue \in Seq(Targets)
      /\ DOMAIN queue = 1 .. Len(queue)
      /\ pending[t] \in BOOLEAN
  BY LenProperties DEF TypeOK
<1>2. Cardinality(Q) = IF Queued(t) THEN 1 ELSE 0
  <2>1. \A i, j \in Q : i = j
    BY <1>1 DEF Custody, QueueIsHeld
  <2>2. Queued(t) <=> Q # {}
    BY <1>1 DEF Queued
  <2>3. Queued(t) \in BOOLEAN
    BY DEF Queued
  <2> HIDE DEF Q
  <2> QED BY <2>1, <2>2, <2>3, AtMostOne
<1>3. Cardinality(H) = IF Held(t) THEN 1 ELSE 0
  <2>1. \A v, w \in H : v = w
    BY DEF Custody, JobsAreHeld
  <2>2. Held(t) <=> H # {}
    BY DEF Held, Custody, JobsAreHeld
  <2>3. Held(t) \in BOOLEAN
    BY DEF Held
  <2> HIDE DEF H
  <2> QED BY <2>1, <2>2, <2>3, AtMostOne
<1>4. Queued(t) => pending[t] /\ ~Held(t)
  BY DEF Queued, Custody, QueueIsHeld
<1>5. Held(t) => pending[t]
  BY DEF Held, Custody, JobsAreHeld
<1>6. timer[t] = "claimed" => pending[t] /\ ~Queued(t) /\ ~Held(t)
  BY DEF Custody, ClaimsAreHeld
<1>7. pending[t] => timer[t] = "claimed" \/ Queued(t) \/ Held(t)
  BY DEF Custody, FlagHasOwner
<1>8. Places(t) = (IF timer[t] = "claimed" THEN 1 ELSE 0)
                  + (IF Queued(t) THEN 1 ELSE 0) + (IF Held(t) THEN 1 ELSE 0)
  BY <1>2, <1>3 DEF Places
<1> QED BY <1>4, <1>5, <1>6, <1>7, <1>8

\* The pending flag is exactly "the target is in one place", so runs of a
\* target never overlap and no target is silenced for good.
THEOREM OnePlace == Spec => []PendingIsOnePlace
BY TypeCorrect, CustodyHolds, CustodyOnePlace, PTL

\* The targets in the queue are distinct and other than the one its timer has
\* claimed, so they are fewer than there are targets.
LEMMA CustodyRoom == TypeOK /\ Custody => QueueHasRoom
<1> SUFFICES ASSUME TypeOK, Custody, NEW t \in Targets, timer[t] = "claimed"
             PROVE  Len(queue) < QueueCap
  BY DEF QueueHasRoom
<1>1. /\ queue \in Seq(Targets)
      /\ Len(queue) \in Nat
      /\ queue \in [1 .. Len(queue) -> Targets]
  BY LenProperties DEF TypeOK
<1>2. queue \in [1 .. Len(queue) -> Targets \ {t}]
  BY <1>1 DEF Custody, ClaimsAreHeld, Queued
<1>3. queue \in Injection(1 .. Len(queue), Targets \ {t})
  BY <1>2 DEF Injection, IsInjective, Custody, QueueIsHeld
<1>4. /\ IsFiniteSet(Targets \ {t})
      /\ Cardinality(Targets \ {t}) = Cardinality(Targets) - 1
  BY FS_RemoveElement
<1>5. Cardinality(1 .. Len(queue)) <= Cardinality(Targets \ {t})
  BY <1>3, <1>4, FS_Injection
<1>6. Cardinality(1 .. Len(queue)) = Len(queue)
  BY <1>1, FS_Interval
<1>7. Cardinality(Targets) \in Nat
  BY FS_CardinalityType
<1> QED BY <1>1, <1>4, <1>5, <1>6, <1>7 DEF QueueCap

\* enqueue never finds the queue full.
THEOREM RoomInQueue == Spec => []QueueHasRoom
BY TypeCorrect, CustodyHolds, CustodyRoom, PTL
=============================================================================
