--------------------------- MODULE SchedulerRefines ----------------------------
(***************************************************************************)
(* Proof that the scheduler implements RunSlots: every step of a timer, a  *)
(* worker or Stop is one step of the slots, or none.                       *)
(***************************************************************************)
EXTENDS SchedulerCounts

USE TargetsAssumption, WorkersAssumption, ResultsAssumption,
    BackoffAssumption, BoundsAssumption

\* The slot of a target, read off the one place custody allows it.
SlotReading ==
  TypeOK /\ Custody =>
    /\ \A w \in Workers :
         /\ pc[w] = "got" => SlotOf(job[w]) = "waiting"
         /\ pc[w] \in {"run", "sent"} => SlotOf(job[w]) = "running"
         /\ pc[w] \in {"keep", "lose"} => SlotOf(job[w]) = "reported"
    /\ \A t \in Targets :
         ~Held(t) => SlotOf(t) = IF pending[t] THEN "waiting" ELSE "free"

\* The slot of a target, read case by case.
LEMMA SlotIsRead == SlotReading
<1> SUFFICES ASSUME TypeOK, Custody PROVE SlotReading
  BY DEF SlotReading
<1>1. ASSUME NEW w \in Workers, Holding(w)
      PROVE  /\ job[w] \in Targets /\ pending[job[w]]
             /\ \A v \in Workers : job[v] = job[w] => v = w
  BY <1>1 DEF Custody, JobsAreHeld
<1>2. \A w \in Workers : pc[w] = "got" => SlotOf(job[w]) = "waiting"
  BY <1>1 DEF SlotOf, Holding
<1>3. \A w \in Workers : pc[w] \in {"run", "sent"} => SlotOf(job[w]) = "running"
  BY <1>1 DEF SlotOf, Holding
<1>4. \A w \in Workers : pc[w] \in {"keep", "lose"} => SlotOf(job[w]) = "reported"
  BY <1>1 DEF SlotOf, Holding
<1>5. \A t \in Targets :
        ~Held(t) => SlotOf(t) = IF pending[t] THEN "waiting" ELSE "free"
  BY DEF SlotOf, Held
<1> QED BY <1>2, <1>3, <1>4, <1>5 DEF SlotReading

\* The same of the slot after a step.
LEMMA SlotIsReadNext == SlotReading'
BY SlotIsRead, PTL

\* Slots that do not change, and one slot that does.
LEMMA SlotsStay ==
  ASSUME \A t \in Targets : SlotOf(t)' = SlotOf(t), UNCHANGED PhaseOf
  PROVE  UNCHANGED Slots!svars
BY DEF Slots!svars

\* When one target's slot changes, the slot function changes there only.
LEMMA SlotMoves ==
  ASSUME NEW t \in Targets, NEW a, NEW b,
         SlotOf(t) = a, SlotOf(t)' = b,
         \A u \in Targets \ {t} : SlotOf(u)' = SlotOf(u),
         UNCHANGED PhaseOf
  PROVE  Slots!Move(t, a, b)
BY DEF Slots!Move

\* The slot of t depends on its flag and on the workers that hold it.
LEMMA SlotDepends ==
  ASSUME NEW t \in Targets, pending'[t] = pending[t],
         \A w \in Workers :
           /\ (job'[w] = t /\ pc'[w] \in {"run", "sent"})
                <=> (job[w] = t /\ pc[w] \in {"run", "sent"})
           /\ (job'[w] = t /\ pc'[w] \in {"keep", "lose"})
                <=> (job[w] = t /\ pc[w] \in {"keep", "lose"})
  PROVE  SlotOf(t)' = SlotOf(t)
BY DEF SlotOf

SlotStep == [Slots!SlotNext]_(Slots!svars)

\* A timer admits a target, gives it back, or does nothing to the slots.
LEMMA RefineTimer ==
  ASSUME TypeOK, Custody, TypeOK', Custody', StopIsClean,
         NEW t \in Targets, Timer(t)
  PROVE  SlotStep
<1>1. /\ pending \in [Targets -> BOOLEAN]
      /\ UNCHANGED <<main, job, pc>>
      /\ main # "stopped"
  BY DEF TypeOK, Timer, FireSkip, FireClaim, Send, TimerExit, life, wvars,
         StopIsClean, LiveTimers
<1>2. UNCHANGED PhaseOf /\ PhaseOf # "closed"
  BY <1>1 DEF PhaseOf, TypeOK
<1>3. CASE FireClaim(t)
  <2>1. ~Held(t)
    BY <1>3 DEF FireClaim, Custody, JobsAreHeld, Held
  <2>2. ~Held(t)'
    BY <1>1, <2>1 DEF Held
  <2>3. pending' = [pending EXCEPT ![t] = TRUE] /\ ~pending[t]
    BY <1>3 DEF FireClaim
  <2>4. SlotOf(t) = "free" /\ SlotOf(t)' = "waiting"
    BY <1>1, <2>1, <2>2, <2>3, SlotIsRead, SlotIsReadNext DEF SlotReading
  <2>5. \A u \in Targets \ {t} : SlotOf(u)' = SlotOf(u)
    BY <1>1, <2>3, SlotDepends
  <2>6. Slots!Move(t, "free", "waiting")
    BY <1>2, <2>4, <2>5, SlotMoves
  <2> QED BY <1>2, <2>6 DEF SlotStep, Slots!SlotNext, Slots!Admit
<1>4. CASE ~FireClaim(t)
  <2>1. UNCHANGED pending
    <3>1. CASE Send(t)
      BY <3>1, CustodyRoom DEF Send, QueueHasRoom
    <3> QED BY <1>4, <3>1 DEF Timer, FireSkip, TimerExit
  <2>2. \A u \in Targets : SlotOf(u)' = SlotOf(u)
    BY <1>1, <2>1, SlotDepends
  <2> QED BY <1>2, <2>2, SlotsStay DEF SlotStep
<1> QED BY <1>3, <1>4

\* The steps of a worker that move its target's slot, and those that do not.
LEMMA RefineWorker ==
  ASSUME TypeOK, Custody, TypeOK', Custody', StopIsClean,
         NEW w \in Workers, Worker(w)
  PROVE  SlotStep
<1>u. PICK u : u = job[w]
  OBVIOUS
<1>1. /\ pending \in [Targets -> BOOLEAN]
      /\ pc \in [Workers -> WorkerPC]
      /\ job \in [Workers -> Targets \cup {NoTarget}]
  BY DEF TypeOK
<1>2. UNCHANGED main /\ main # "stopped"
  BY DEF Worker, DialOk, DialFail, BackoffElapsed, BackoffCancelled,
         IdleCancelled, Dequeue, DropJob, BeginRun, RunOk, Record, RunFail,
         EndRun, Reconnect, CloseSession, WorkerExit, life, StopIsClean,
         LiveWorkers
<1>3. /\ UNCHANGED PhaseOf
      /\ PhaseOf # "closed"
      /\ Cancelled <=> PhaseOf = "closing"
      /\ ~Cancelled => PhaseOf = "open"
  BY <1>2 DEF PhaseOf, Cancelled, TypeOK
<1>4. ASSUME Holding(w)
      PROVE  u \in Targets /\ \A v \in Workers : job[v] = u => v = w
  BY <1>u, <1>4 DEF Custody, JobsAreHeld
<1>5. CASE BeginRun(w)
  <2>1. /\ Holding(w)
        /\ pc[w] = "got" /\ ~Cancelled
        /\ pc' = [pc EXCEPT ![w] = "run"]
        /\ UNCHANGED <<job, pending>>
    BY <1>5 DEF BeginRun, Holding
  <2>2. SlotOf(u) = "waiting" /\ SlotOf(u)' = "running"
    BY <1>u, <1>1, <2>1, SlotIsRead, SlotIsReadNext DEF SlotReading
  <2>3. \A t \in Targets \ {u} : SlotOf(t)' = SlotOf(t)
    BY <1>u, <1>1, <2>1, SlotDepends
  <2>4. Slots!Move(u, "waiting", "running")
    BY <1>3, <1>4, <2>1, <2>2, <2>3, SlotMoves
  <2> QED BY <1>3, <1>4, <2>1, <2>4 DEF SlotStep, Slots!SlotNext, Slots!Begin
<1>6. CASE Record(w) \/ \E f \in Failures : RunFail(w, f)
  <2>1. /\ Holding(w)
        /\ pc[w] \in {"run", "sent"}
        /\ pc' = [pc EXCEPT ![w] = pc'[w]]
        /\ pc'[w] \in {"keep", "lose"}
        /\ UNCHANGED <<job, pending>>
    BY <1>1, <1>6 DEF Record, RunFail, Failures, Holding
  <2>2. SlotOf(u) = "running" /\ SlotOf(u)' = "reported"
    BY <1>u, <1>1, <2>1, SlotIsRead, SlotIsReadNext DEF SlotReading
  <2>3. \A t \in Targets \ {u} : SlotOf(t)' = SlotOf(t)
    BY <1>u, <1>1, <2>1, SlotDepends
  <2>4. Slots!Move(u, "running", "reported")
    BY <1>3, <1>4, <2>1, <2>2, <2>3, SlotMoves
  <2> QED BY <1>3, <1>4, <2>1, <2>4 DEF SlotStep, Slots!SlotNext, Slots!Report
<1>7. CASE EndRun(w) \/ DropJob(w)
  <2>1. /\ Holding(w)
        /\ pending' = [pending EXCEPT ![u] = FALSE]
        /\ job' = [job EXCEPT ![w] = NoTarget]
        /\ \A v \in Workers : v # w => pc'[v] = pc[v]
    BY <1>u, <1>1, <1>7 DEF EndRun, DropJob, Holding
  <2>2. SlotOf(u)' = "free"
    <3>1. ~pending'[u]
      BY <1>u, <1>1, <1>4, <2>1
    <3>2. \A v \in Workers : job'[v] # u
      BY <1>u, <1>1, <1>4, <2>1
    <3> QED BY <3>1, <3>2 DEF SlotOf
  <2>3. \A t \in Targets \ {u} : SlotOf(t)' = SlotOf(t)
    BY <1>u, <1>1, <1>4, <2>1, SlotDepends
  <2>4. CASE EndRun(w)
    <3>1. SlotOf(u) = "reported"
      BY <1>u, <2>4, SlotIsRead DEF EndRun, SlotReading
    <3>2. Slots!Move(u, "reported", "free")
      BY <1>3, <1>4, <2>1, <2>2, <2>3, <3>1, SlotMoves
    <3> QED BY <1>3, <1>4, <2>1, <3>2 DEF SlotStep, Slots!SlotNext, Slots!Release
  <2>5. CASE DropJob(w)
    <3>1. SlotOf(u) = "waiting" /\ Cancelled
      BY <1>u, <2>5, SlotIsRead DEF DropJob, SlotReading
    <3>2. Slots!Move(u, "waiting", "free")
      BY <1>3, <1>4, <2>1, <2>2, <2>3, <3>1, SlotMoves
    <3> QED BY <1>3, <1>4, <2>1, <3>1, <3>2 DEF SlotStep, Slots!SlotNext, Slots!Discard
  <2> QED BY <1>7, <2>4, <2>5
<1>8. CASE ~(\/ BeginRun(w) \/ Record(w) \/ EndRun(w) \/ DropJob(w)
             \/ \E f \in Failures : RunFail(w, f))
  <2>1. UNCHANGED pending
    BY <1>8 DEF Worker, DialOk, DialFail, BackoffElapsed, BackoffCancelled,
         IdleCancelled, Dequeue, RunOk, Reconnect, CloseSession, WorkerExit
  <2>2. /\ \A v \in Workers : v # w => pc'[v] = pc[v] /\ job'[v] = job[v]
        /\ \/ /\ {pc[w], pc'[w]} \cap {"run", "sent", "keep", "lose"} = {}
           \/ pc[w] = "run" /\ pc'[w] = "sent" /\ job'[w] = job[w]
    BY <1>1, <1>8 DEF Worker, DialOk, DialFail, BackoffElapsed, BackoffCancelled,
         IdleCancelled, Dequeue, RunOk, Reconnect, CloseSession, WorkerExit
  <2>3. \A t \in Targets : SlotOf(t)' = SlotOf(t)
    BY <2>1, <2>2, SlotDepends
  <2> QED BY <1>3, <2>3, SlotsStay DEF SlotStep
<1> QED BY <1>5, <1>6, <1>7, <1>8

\* Every step of the scheduler is a step or a stutter of RunSlots.
LEMMA RefineNext ==
  TypeOK /\ Custody /\ TypeOK' /\ Custody' /\ StopIsClean /\ StopIsClean'
    /\ [Next]_vars => SlotStep
<1> SUFFICES ASSUME TypeOK, Custody, TypeOK', Custody',
                    StopIsClean, StopIsClean', [Next]_vars
             PROVE  SlotStep
  OBVIOUS
<1>1. CASE Start
  <2>1. \A w \in Workers : {pc[w], pc'[w]} \cap {"run", "sent", "keep", "lose"} = {}
    BY <1>1 DEF Start, Custody, Unstarted
  <2>2. \A t \in Targets : SlotOf(t)' = SlotOf(t)
    BY <1>1, <2>1, SlotDepends DEF Start
  <2>3. UNCHANGED PhaseOf
    BY <1>1 DEF Start, PhaseOf
  <2> QED BY <2>2, <2>3, SlotsStay DEF SlotStep
<1>2. CASE StopCancel
  <2>1. \A t \in Targets : SlotOf(t)' = SlotOf(t)
    BY <1>2, SlotDepends DEF StopCancel, wvars
  <2>2. PhaseOf = "open" /\ PhaseOf' = "closing"
    BY <1>2 DEF StopCancel, PhaseOf
  <2>3. Slots!Closing
    BY <2>1, <2>2 DEF Slots!Closing
  <2> QED BY <2>3 DEF SlotStep, Slots!SlotNext
<1>3. CASE StopUnstarted \/ StopReturn
  <2>1. \A t \in Targets : SlotOf(t)' = SlotOf(t)
    BY <1>3, SlotDepends DEF StopUnstarted, StopReturn, wvars
  <2>2. PhaseOf # "closed" /\ PhaseOf' = "closed"
    BY <1>3 DEF StopUnstarted, StopReturn, PhaseOf
  <2>3. \A w \in Workers : pc[w] \in {"absent", "exited"}
    BY <1>3 DEF StopUnstarted, StopReturn, StopIsClean, LiveWorkers, wvars
  <2>4. \A t \in Targets : SlotOf(t) \in {"free", "waiting"}
    BY <2>3 DEF SlotOf
  <2>5. Slots!Closed
    BY <2>1, <2>2, <2>4 DEF Slots!Closed
  <2> QED BY <2>5 DEF SlotStep, Slots!SlotNext
<1>4. CASE UNCHANGED vars
  <2>1. \A t \in Targets : SlotOf(t)' = SlotOf(t)
    BY <1>4, SlotDepends DEF vars, wvars
  <2>2. UNCHANGED PhaseOf
    BY <1>4 DEF vars, life, PhaseOf
  <2> QED BY <2>1, <2>2, SlotsStay DEF SlotStep
<1>5. CASE \E t \in Targets : Timer(t)
  BY <1>5, RefineTimer
<1>6. CASE \E w \in Workers : Worker(w)
  BY <1>6, RefineWorker
<1> QED BY <1>1, <1>2, <1>3, <1>4, <1>5, <1>6 DEF Next, Terminated

\* Before Start every slot is free and the phase open.
LEMMA RefineInit == Init => Slots!SlotInit
<1> SUFFICES ASSUME Init PROVE Slots!SlotInit
  OBVIOUS
<1>1. PhaseOf = "open"
  BY DEF Init, PhaseOf
<1>2. \A t \in Targets : SlotOf(t) = "free"
  BY DEF Init, SlotOf
<1> QED BY <1>1, <1>2 DEF Slots!SlotInit

\* The scheduler implements the slots: one run of a target at a time, one
\* outcome per run before the next may wait, no run begun after Stop.
THEOREM SlotsImplemented == Spec => ImplementsRunSlots
<1>1. Spec => [](TypeOK /\ Custody /\ StopIsClean)
  BY TypeCorrect, CustodyHolds, CleanStop, PTL
<1> QED BY <1>1, RefineInit, RefineNext, PTL
        DEF Spec, ImplementsRunSlots, Slots!SlotSpec, SlotStep
=============================================================================
