----------------------------- MODULE ReloadProofs -----------------------------
(***************************************************************************)
(* Proofs about the reload loop, for any handlers and label sets and any   *)
(* number of signals, edits, runs and pings.                               *)
(***************************************************************************)
EXTENDS Reload, TLAPS, FiniteSetTheorems

USE PostersAssumption, BoundsAssumption, NoneAssumption

-----------------------------------------------------------------------------
(***************************************************************************)
(* The inductive invariant.  Before: the attempt has begun, and what the   *)
(* attempt before it started is still there or being stopped.  After: its  *)
(* own pingers run.                                                        *)
(***************************************************************************)
Before   == {"vectors", "histogram", "prepare", "stop", "drain", "stopLocal",
             "startLocal"}
After    == {"dropCollector", "updateProbes", "collector", "startRemote"}
Starting == Before \cup After

\* An attempt is paid for by a signal or by a POST that was taken.
Taken == {p \in Posters : post[p] \in {"waiting", "ok", "failed"}}
AttemptsArePaid ==
  attempt + (IF hup THEN 1 ELSE 0) + (IF loop \in {"read", "unregister"} THEN 1 ELSE 0)
    <= hups + Cardinality(Taken)

\* Which attempt is live, and that the current one is new until StartRemote.
AttemptIsNew ==
  /\ live # None => live <= attempt
  /\ loop \in Before => live # attempt
  /\ loop \in After => live = attempt
  /\ loop \in {"stop", "drain", "stopLocal"} => live # None
  /\ loop \in Starting => sched[attempt] \in {"none", "ready"}
  /\ \A g \in Attempts : g > attempt => sched[g] = "none"

\* Only the live scheduler runs, and only it is stopped.
SchedulersInPlace ==
  /\ \A g \in Attempts : sched[g] = "running" =>
       g = live /\ loop \notin {"drain", "stopLocal", "startLocal"} \cup After
  /\ \A g \in Attempts : sched[g] = "stopping" => g = live /\ loop = "drain"

\* The account of attempt g balances; before its scheduler starts it is empty.
Balanced(g)  == sent[g] - observed[g] = lost[g] + (IF run[g] = "sent" THEN 2 ELSE 0)
Untouched(g) == run[g] = "none" /\ sent[g] = 0 /\ observed[g] = 0 /\ lost[g] = 0
Books ==
  /\ \A g \in Attempts : run[g] # "none" => sched[g] \in {"running", "stopping"}
  /\ \A g \in Attempts : Balanced(g)
  /\ \A g \in Attempts : sched[g] \in {"none", "ready"} => Untouched(g)

\* What each step of the loop has left in the registry.
RegistryInStep ==
  /\ loop \in {"vectors", "histogram"} => reg["histogram"] = None
  /\ loop \in Starting \ {"vectors"} => reg["vectors"] = attempt
  /\ loop \in Starting \ {"vectors", "histogram"} => reg["histogram"] = attempt
  /\ loop \in {"updateProbes", "collector"} => reg["collector"] = None
  /\ loop = "startRemote" => reg["collector"] = attempt

\* Only the live pingers run; after UpdateProbes they have their callbacks.
PingersInStep ==
  /\ \A g \in Attempts : local[g] \in {"running", "failed"} =>
       g = live /\ loop # "startLocal"
  /\ loop \in After => local[live] \in {"running", "failed"}
  /\ loop \in {"collector", "startRemote"} => hooked[live]

\* What a signal or a POST saw of the file is not newer than what is read.
RequestsInTime ==
  /\ hupped <= file.version
  /\ proc = "up" => hup \/ loop = "read" \/ tried >= hupped
  /\ \A p \in Posters : asked[p] <= file.version
  /\ loop # "select" /\ client # None => post[client] = "waiting"
  /\ loop \notin {"select", "read"} /\ client # None => loaded.version >= asked[client]
  /\ loop \in After => applied = loaded.version

-----------------------------------------------------------------------------
(***************************************************************************)
(* Frames: what the parts of Next leave alone.                             *)
(***************************************************************************)
vloop    == <<loop, client, loaded, tried, attempt, succeeded, reg, dims, live,
              applied, sched, hooked>>
Requests == (\E c \in Configs : Edit(c)) \/ Hup \/ EarlyHup \/ \E p \in Posters : Post(p)
Working(g) == BeginRun(g) \/ Finish(g)
Pinging(g) == Ping(g) \/ LocalFails(g)

\* Requests, runs and pings take no step of the loop.
LEMMA RequestsFrame ==
  ASSUME Requests
  PROVE  UNCHANGED <<vloop, got, local, remote, locals>>
BY DEF Requests, Edit, Hup, EarlyHup, Post, vloop, config, posts, probes, remote, locals

LEMMA WorkingFrame ==
  ASSUME NEW g \in Attempts, Working(g)
  PROVE  UNCHANGED <<vloop, proc, file, signals, posts, local, locals>>
BY DEF Working, Finish, BeginRun, RunFails, AddSent, Record, vloop, config, signals,
       posts, probes, locals

LEMMA PingingFrame ==
  ASSUME NEW g \in Attempts, Pinging(g)
  PROVE  UNCHANGED <<vloop, proc, file, signals, posts, remote>>
BY DEF Pinging, Ping, LocalFails, vloop, config, signals, posts, probes, remote

-----------------------------------------------------------------------------
(***************************************************************************)
(* Type correctness.  That there is room for one more attempt is part of   *)
(* it: attempts are paid for.                                              *)
(***************************************************************************)
LEMMA UpdateType ==
  ASSUME NEW S, NEW T, NEW f \in [S -> T], NEW x, NEW v, x \in S => v \in T
  PROVE  [f EXCEPT ![x] = v] \in [S -> T]
OBVIOUS

LEMMA AttemptsType ==
  /\ Cardinality(Posters) \in Nat
  /\ Attempts = 0 .. MaxHups + Cardinality(Posters)
  /\ Attempts \subseteq Nat
BY FS_CardinalityType DEF Attempts

\* The three steps that register a metric.
LEMMA RegisterType ==
  ASSUME TypeOK, NEW r \in [Names -> Attempts \cup {None}], NEW name \in Names,
         NEW next \in LoopPC, MustRegister(r, name, next)
  PROVE  /\ reg' \in [Names -> Attempts \cup {None}]
         /\ dims' \in Labels \cup {None}
         /\ loop' \in LoopPC
         /\ proc' \in {"up", "exited", "crashed"}
<1>1. [r EXCEPT ![name] = attempt] \in [Names -> Attempts \cup {None}]
  BY DEF TypeOK
<1>2. loaded.cfg.labels \in Labels
  BY DEF TypeOK, Files, Configs
<1> QED BY <1>1, <1>2 DEF MustRegister, TypeOK

LEMMA WithoutType ==
  ASSUME TypeOK, NEW name
  PROVE  Without(name) \in [Names -> Attempts \cup {None}]
BY DEF Without, TypeOK

\* An answer, and a reload that is given up.
LEMMA AnswerType ==
  ASSUME TypeOK, NEW result \in {"ok", "failed"}, Answer(result)
  PROVE  /\ post' \in [Posters -> {"none", "asking", "waiting", "ok", "failed"}]
         /\ got' \in [Posters -> Versions]
BY DEF Answer, TypeOK

LEMMA GiveUpType ==
  ASSUME TypeOK, GiveUp
  PROVE  /\ post' \in [Posters -> {"none", "asking", "waiting", "ok", "failed"}]
         /\ got' \in [Posters -> Versions]
         /\ proc' \in {"up", "exited", "crashed"}
         /\ loop' \in LoopPC
         /\ succeeded' \in BOOLEAN
BY AnswerType DEF GiveUp, TypeOK, LoopPC

LEMMA TypeInit == Init => TypeOK
<1> SUFFICES ASSUME Init PROVE TypeOK
  OBVIOUS
<1>1. 0 \in Attempts /\ 0 \in Versions /\ 0 \in 0 .. MaxHups
  BY AttemptsType DEF Versions
<1>2. file \in Files /\ loaded \in Files /\ loaded.cfg.accepted
  BY <1>1 DEF Init, Files, Configs
<1>3. /\ asked \in [Posters -> Versions] /\ got \in [Posters -> Versions]
      /\ {sent, observed, lost, pings, answered} \subseteq [Attempts -> Nat]
  BY <1>1 DEF Init
<1>4. hooked \in [Attempts -> BOOLEAN] /\ {succeeded, hup} \subseteq BOOLEAN
  BY DEF Init
<1> QED BY <1>1, <1>2, <1>3, <1>4 DEF Init, TypeOK, LoopPC

LEMMA TypeRequests ==
  ASSUME TypeOK, Requests PROVE TypeOK'
<1> USE DEF TypeOK, vloop, remote, locals
<1>1. ASSUME NEW c \in Configs, Edit(c) PROVE TypeOK'
  BY <1>1 DEF Edit, Files, Versions, signals, posts, probes
<1>2. CASE Hup
  BY <1>2 DEF Hup, config, Files, posts, probes
<1>3. CASE EarlyHup
  BY <1>3 DEF EarlyHup, config, Files, posts, probes
<1>4. ASSUME NEW p \in Posters, Post(p) PROVE TypeOK'
  BY <1>4 DEF Post, config, Files, signals, probes
<1> QED BY <1>1, <1>2, <1>3, <1>4 DEF Requests

LEMMA TypeWorking ==
  ASSUME TypeOK, NEW g \in Attempts, Working(g) PROVE TypeOK'
<1> USE DEF TypeOK, config, signals, posts, probes, locals
<1>1. CASE BeginRun(g)
  BY <1>1 DEF BeginRun
<1>2. CASE RunFails(g)
  BY <1>2 DEF RunFails
<1>3. CASE AddSent(g)
  BY <1>3 DEF AddSent
<1>4. CASE Record(g)
  BY <1>4 DEF Record
<1> QED BY <1>1, <1>2, <1>3, <1>4 DEF Working, Finish

LEMMA TypePinging ==
  ASSUME TypeOK, NEW g \in Attempts, Pinging(g) PROVE TypeOK'
<1> USE DEF TypeOK, config, signals, posts, probes, locals, remote
<1>1. CASE Ping(g)
  BY <1>1 DEF Ping
<1>2. CASE LocalFails(g)
  BY <1>2 DEF LocalFails
<1> QED BY <1>1, <1>2 DEF Pinging

LEMMA TypeStep ==
  ASSUME TypeOK, attempt + 1 \in Attempts \/ loop # "unregister", Step
  PROVE  TypeOK'
<1> USE DEF TypeOK, config, signals, posts, probes, remote, locals, At
<1>1. CASE TakeHup
  BY <1>1 DEF TakeHup, LoopPC
<1>2. ASSUME NEW p \in Posters, TakePost(p) PROVE TypeOK'
  BY <1>2 DEF TakePost, LoopPC
<1>3. CASE ReadConfig
  <2>1. loaded' \in Files /\ loaded'.cfg.accepted /\ tried' \in Versions
    BY <1>3 DEF ReadConfig, Files
  <2>2. CASE file.cfg.accepted
    BY <1>3, <2>1, <2>2 DEF ReadConfig, LoopPC
  <2>3. CASE ~file.cfg.accepted
    BY <1>3, <2>1, <2>3, GiveUpType DEF ReadConfig
  <2> QED BY <2>2, <2>3
<1>4. CASE UnregisterHistogram
  BY <1>4, WithoutType DEF UnregisterHistogram, LoopPC
<1>5. CASE InitMetrics
  BY <1>5, WithoutType, RegisterType DEF InitMetrics, LoopPC, Names
<1>6. CASE RegisterHistogram
  BY <1>6, RegisterType DEF RegisterHistogram, LoopPC, Names
<1>7. CASE PrepareFails
  BY <1>7, GiveUpType DEF PrepareFails
<1>8. CASE PrepareOk
  BY <1>8 DEF PrepareOk, LoopPC
<1>9. CASE StopScheduler
  BY <1>9 DEF StopScheduler, LoopPC
<1>10. CASE SchedulerStopped
  BY <1>10 DEF SchedulerStopped, LoopPC
<1>11. CASE StopLocal
  BY <1>11 DEF StopLocal, LoopPC
<1>12. CASE StartLocal
  BY <1>12 DEF StartLocal, LoopPC, Files
<1>13. CASE DropCollector
  BY <1>13, WithoutType DEF DropCollector, LoopPC
<1>14. CASE UpdateProbes
  <2>1. hooked' \in [Attempts -> BOOLEAN]
    BY <1>14, UpdateType, Zenon DEF UpdateProbes
  <2> QED BY <1>14, <2>1 DEF UpdateProbes, LoopPC
<1>15. CASE RegisterCollector
  BY <1>15, RegisterType DEF RegisterCollector, LoopPC, Names
<1>16. CASE StartRemote
  BY <1>16, AnswerType DEF StartRemote, LoopPC
<1> QED
  BY <1>1, <1>2, <1>3, <1>4, <1>5, <1>6, <1>7, <1>8, <1>9, <1>10, <1>11, <1>12,
     <1>13, <1>14, <1>15, <1>16 DEF Step

Registering == InitMetrics \/ RegisterHistogram \/ RegisterCollector

\* A handler whose POST was taken stays one.
LEMMA TakenGrows ==
  ASSUME TypeOK, [Next]_vars
  PROVE  Cardinality(Taken) \in Nat /\ Cardinality(Taken) <= Cardinality(Taken')
<1>1. IsFiniteSet(Taken) /\ IsFiniteSet(Taken')
  BY FS_Subset DEF Taken
<1>2. Taken \subseteq Taken'
  <2>1. CASE Requests
    BY <2>1 DEF Requests, Edit, Hup, EarlyHup, Post, posts, Taken, TypeOK
  <2>2. CASE Step
    <3>1. ASSUME NEW result \in {"ok", "failed"}, Answer(result) PROVE Taken \subseteq Taken'
      BY <3>1 DEF Answer, Taken, TypeOK
    <3>2. CASE GiveUp
      BY <3>1, <3>2 DEF GiveUp, Taken
    <3>3. ASSUME NEW p \in Posters, TakePost(p) PROVE Taken \subseteq Taken'
      BY <3>3 DEF TakePost, Taken, TypeOK
    <3>4. CASE ReadConfig
      BY <3>2, <3>4 DEF ReadConfig, Taken
    <3>5. CASE StartRemote
      BY <3>1, <3>5 DEF StartRemote
    <3>6. CASE PrepareFails
      BY <3>2, <3>6 DEF PrepareFails
    <3>7. UNCHANGED post => Taken \subseteq Taken'
      BY DEF Taken
    <3>8. CASE \/ TakeHup \/ UnregisterHistogram \/ InitMetrics \/ RegisterHistogram
               \/ PrepareOk \/ StopScheduler \/ SchedulerStopped \/ StopLocal
               \/ StartLocal \/ DropCollector \/ UpdateProbes \/ RegisterCollector
      BY <3>7, <3>8 DEF TakeHup, UnregisterHistogram, InitMetrics, RegisterHistogram,
         PrepareOk, StopScheduler, SchedulerStopped, StopLocal, StartLocal,
         DropCollector, UpdateProbes, RegisterCollector, posts
    <3> QED BY <2>2, <3>3, <3>4, <3>5, <3>6, <3>8 DEF Step
  <2>3. ASSUME NEW g \in Attempts, Working(g) \/ Pinging(g) PROVE Taken \subseteq Taken'
    BY <2>3, WorkingFrame, PingingFrame DEF posts, Taken
  <2>4. CASE UNCHANGED vars
    BY <2>4 DEF vars, posts, Taken
  <2> QED BY <2>1, <2>2, <2>3, <2>4 DEF Next, Requests, Working, Pinging
<1> QED BY <1>1, <1>2, FS_Subset, FS_CardinalityType

\* Every attempt that begins has taken a signal or a POST.
LEMMA AttemptsPaid ==
  ASSUME TypeOK, AttemptsArePaid, [Next]_vars
  PROVE  AttemptsArePaid'
<1> DEFINE Paid == hups + Cardinality(Taken)
           Due  == attempt + (IF hup THEN 1 ELSE 0)
                     + (IF loop \in {"read", "unregister"} THEN 1 ELSE 0)
<1> USE DEF AttemptsArePaid
<1>1. /\ Cardinality(Taken) \in Nat /\ Cardinality(Taken') \in Nat
      /\ Cardinality(Taken) <= Cardinality(Taken')
  <2>1. IsFiniteSet(Taken')
    BY FS_Subset DEF Taken
  <2> QED BY <2>1, TakenGrows, FS_CardinalityType
<1>2. hups \in Nat /\ attempt \in Nat /\ hup \in BOOLEAN
  BY AttemptsType DEF TypeOK
<1>3. CASE Requests
  <2>1. (hups' = hups /\ hup' = hup) \/ hups' = hups + 1
    BY <1>3 DEF Requests, Edit, Hup, EarlyHup, Post, signals
  <2> QED BY <1>1, <1>2, <1>3, <2>1, RequestsFrame DEF vloop
<1>4. CASE Step
  <2>1. ASSUME NEW p \in Posters, TakePost(p) PROVE AttemptsArePaid'
    <3>1. Taken' = Taken \cup {p} /\ p \notin Taken
      BY <2>1 DEF TakePost, Taken, TypeOK
    <3>2. Cardinality(Taken') = Cardinality(Taken) + 1
      BY <3>1, FS_Subset, FS_AddElement DEF Taken
    <3> QED BY <1>1, <1>2, <2>1, <3>2 DEF TakePost, At, signals
  <2>2. CASE TakeHup
    BY <1>1, <1>2, <2>2 DEF TakeHup, At
  <2>3. CASE ReadConfig
    BY <1>1, <1>2, <2>3 DEF ReadConfig, GiveUp, At, signals
  <2>4. CASE UnregisterHistogram
    BY <1>1, <1>2, <2>4 DEF UnregisterHistogram, At, signals
  <2>5. CASE Registering \/ PrepareFails \/ PrepareOk
    BY <1>1, <1>2, <2>5 DEF Registering, InitMetrics, RegisterHistogram,
       RegisterCollector, MustRegister, PrepareFails, PrepareOk, GiveUp, At, signals
  <2>6. CASE \/ StopScheduler \/ SchedulerStopped \/ StopLocal \/ StartLocal
             \/ DropCollector \/ UpdateProbes \/ StartRemote
    BY <1>1, <1>2, <2>6 DEF StopScheduler, SchedulerStopped, StopLocal, StartLocal,
       DropCollector, UpdateProbes, StartRemote, At, signals
  <2> QED BY <1>4, <2>1, <2>2, <2>3, <2>4, <2>5, <2>6 DEF Step, Registering
<1>5. ASSUME NEW g \in Attempts, Working(g) \/ Pinging(g) PROVE AttemptsArePaid'
  BY <1>1, <1>2, <1>5, WorkingFrame, PingingFrame DEF vloop, signals
<1>6. CASE UNCHANGED vars
  BY <1>1, <1>2, <1>6 DEF vars, signals
<1> QED BY <1>3, <1>4, <1>5, <1>6 DEF Next, Requests, Working, Pinging

\* There is room for the attempt that begins.
LEMMA RoomForAttempt ==
  ASSUME TypeOK, AttemptsArePaid, loop = "unregister"
  PROVE  attempt + 1 \in Attempts
<1>1. Cardinality(Taken) <= Cardinality(Posters) /\ Cardinality(Taken) \in Nat
  BY FS_Subset, FS_CardinalityType DEF Taken
<1> QED BY <1>1, AttemptsType DEF TypeOK, AttemptsArePaid

Typed == TypeOK /\ AttemptsArePaid

LEMMA TypedNext == Typed /\ [Next]_vars => Typed'
<1> SUFFICES ASSUME Typed, [Next]_vars PROVE TypeOK'
  BY AttemptsPaid DEF Typed
<1> USE DEF Typed
<1>1. CASE Step
  BY <1>1, RoomForAttempt, TypeStep
<1>2. CASE UNCHANGED vars
  BY <1>2 DEF vars, TypeOK, config, signals, posts, probes, remote, locals
<1> QED
  BY <1>1, <1>2, TypeRequests, TypeWorking, TypePinging
     DEF Next, Requests, Working, Pinging

LEMMA TypedInit == Init => Typed
<1> SUFFICES ASSUME Init PROVE AttemptsArePaid
  BY TypeInit DEF Typed
<1>1. Taken = {}
  BY DEF Init, Taken
<1> QED BY <1>1, FS_EmptySet DEF Init, AttemptsArePaid

LEMMA AlwaysTyped == Spec => []Typed
BY TypedInit, TypedNext, PTL DEF Spec

\* Every variable keeps its type, and sc.C is at all times a configuration
\* that Validate accepted (config.go:152-158).
THEOREM ReloadTypes == Spec => []TypeOK
BY AlwaysTyped, PTL DEF Typed

-----------------------------------------------------------------------------
(***************************************************************************)
(* Which attempt is live, and which schedulers run.                        *)
(***************************************************************************)
Quiet == <<loop, attempt, live, sched>>

\* The sets of steps of the loop that only move loop on, one way or another.
Settling == \/ TakeHup \/ (\E p \in Posters : TakePost(p)) \/ ReadConfig
            \/ Registering \/ PrepareFails \/ DropCollector \/ UpdateProbes

LEMMA SettlingMoves ==
  ASSUME Settling
  PROVE  /\ UNCHANGED <<attempt, live, applied, sched, local, run>>
         /\ \/ loop' = loop
            \/ loop \in {"read", "prepare"} /\ loop' = "select"
            \/ loop = "select" /\ loop' = "read"
            \/ loop = "read" /\ loop' = "unregister"
            \/ loop = "vectors" /\ loop' = "histogram"
            \/ loop = "histogram" /\ loop' = "prepare"
            \/ loop = "dropCollector" /\ loop' = "updateProbes"
            \/ loop = "updateProbes" /\ loop' = "collector"
            \/ loop = "collector" /\ loop' = "startRemote"
<1> USE DEF probes, remote, At, GiveUp
<1>1. CASE TakeHup
  BY <1>1 DEF TakeHup
<1>2. ASSUME NEW p \in Posters, TakePost(p)
      PROVE  UNCHANGED <<attempt, probes, remote>> /\ loop = "select" /\ loop' = "read"
  BY <1>2 DEF TakePost
<1>3. CASE ReadConfig
  BY <1>3 DEF ReadConfig
<1>4. CASE InitMetrics
  BY <1>4 DEF InitMetrics, MustRegister
<1>5. CASE RegisterHistogram
  BY <1>5 DEF RegisterHistogram, MustRegister
<1>6. CASE RegisterCollector
  BY <1>6 DEF RegisterCollector, MustRegister
<1>7. CASE PrepareFails
  BY <1>7 DEF PrepareFails
<1>8. CASE DropCollector
  BY <1>8 DEF DropCollector
<1>9. CASE UpdateProbes
  BY <1>9 DEF UpdateProbes
<1> QED
  BY <1>1, <1>2, <1>3, <1>4, <1>5, <1>6, <1>7, <1>8, <1>9 DEF Settling, Registering

\* The steps that leave loop and the schedulers alone.
LEMMA QuietSteps ==
  ASSUME Requests \/ (\E g \in Attempts : Working(g) \/ Pinging(g)) \/ UNCHANGED vars
  PROVE  UNCHANGED Quiet
BY RequestsFrame, WorkingFrame, PingingFrame DEF Quiet, vloop, vars, probes

\* Next, by what it does to loop and the schedulers.
LEMMA StepKinds ==
  ASSUME [Next]_vars
  PROVE  \/ Requests \/ (\E g \in Attempts : Working(g) \/ Pinging(g)) \/ UNCHANGED vars
         \/ Settling \/ UnregisterHistogram \/ PrepareOk
         \/ StopScheduler \/ SchedulerStopped \/ StopLocal \/ StartLocal \/ StartRemote
BY DEF Next, Requests, Step, Settling, Registering, Working, Pinging

LEMMA AttemptNext ==
  ASSUME Typed, AttemptIsNew, [Next]_vars
  PROVE  AttemptIsNew'
<1> USE AttemptsType DEF AttemptIsNew, Typed, TypeOK, Before, After, Starting, At
<1>1. CASE UNCHANGED Quiet
  BY <1>1 DEF Quiet
<1>2. CASE Settling
  BY <1>2, SettlingMoves
<1>3. CASE UnregisterHistogram
  <2>1. attempt \in Nat /\ attempt + 1 \in Attempts
    BY <1>3, RoomForAttempt DEF UnregisterHistogram
  <2>2. attempt' = attempt + 1 /\ loop' = "vectors" /\ UNCHANGED <<live, sched>>
    BY <1>3 DEF UnregisterHistogram, probes
  <2>3. live # None => live \in Nat /\ live < attempt + 1
    BY <2>1
  <2> HIDE DEF Typed, TypeOK
  <2>4. sched[attempt + 1] = "none" /\ \A g \in Attempts : g > attempt + 1 => sched[g] = "none"
    BY <2>1
  <2> QED BY <2>1, <2>2, <2>3, <2>4
<1>4. CASE PrepareOk
  BY <1>4 DEF PrepareOk
<1>5. CASE StopScheduler
  BY <1>5 DEF StopScheduler
<1>6. CASE SchedulerStopped
  BY <1>6 DEF SchedulerStopped
<1>7. CASE StopLocal
  BY <1>7 DEF StopLocal
<1>8. CASE StartLocal
  BY <1>8 DEF StartLocal
<1>9. CASE StartRemote
  BY <1>9 DEF StartRemote
<1> QED
  BY <1>1, <1>2, <1>3, <1>4, <1>5, <1>6, <1>7, <1>8, <1>9, StepKinds, QuietSteps

LEMMA SchedulersNext ==
  ASSUME Typed, AttemptIsNew, SchedulersInPlace, [Next]_vars
  PROVE  SchedulersInPlace'
<1> USE AttemptsType DEF AttemptIsNew, SchedulersInPlace, Typed, TypeOK, Before, After,
        Starting, At
<1>1. CASE UNCHANGED Quiet
  BY <1>1 DEF Quiet
<1>2. CASE Settling
  <2>1. UNCHANGED <<live, sched>>
    BY <1>2, SettlingMoves
  <2>2. /\ loop' \in {"drain", "stopLocal", "startLocal"} => loop' = loop
        /\ loop = "drain" => loop' = "drain"
        /\ loop' \in After => loop \in After
    BY <1>2, SettlingMoves
  <2> QED BY <2>1, <2>2
<1>3. CASE UnregisterHistogram
  BY <1>3 DEF UnregisterHistogram, probes
<1>4. CASE PrepareOk
  BY <1>4 DEF PrepareOk
<1>5. CASE StopScheduler
  BY <1>5 DEF StopScheduler
<1>6. CASE SchedulerStopped
  BY <1>6 DEF SchedulerStopped
<1>7. CASE StopLocal
  BY <1>7 DEF StopLocal
<1>8. CASE StartLocal
  BY <1>8 DEF StartLocal
<1>9. CASE StartRemote
  BY <1>9 DEF StartRemote
<1> QED
  BY <1>1, <1>2, <1>3, <1>4, <1>5, <1>6, <1>7, <1>8, <1>9, StepKinds, QuietSteps

\* Placed: the invariant about attempts and schedulers.
Placed == Typed /\ AttemptIsNew /\ SchedulersInPlace

LEMMA AlwaysPlaced == Spec => []Placed
<1>1. Init => Placed
  BY TypedInit, AttemptsType
     DEF Init, Placed, AttemptIsNew, SchedulersInPlace, Before, After, Starting
<1>2. Placed /\ [Next]_vars => Placed'
  BY TypedNext, AttemptNext, SchedulersNext DEF Placed
<1> QED BY <1>1, <1>2, PTL DEF Spec

\* Two schedulers of a router never run at once, not even while one of them
\* stops: Stop returns before start goes on (main.go:125).
THEOREM OneSchedulerAtATime == Spec => []OneScheduler
<1>1. Placed => OneScheduler
  BY DEF Placed, SchedulersInPlace, OneScheduler
<1> QED BY <1>1, AlwaysPlaced, PTL

-----------------------------------------------------------------------------
(***************************************************************************)
(* The accounts: what requests_total and the histogram of an attempt say.  *)
(***************************************************************************)
Figures == <<run, sent, observed, lost>>

\* Nothing but runs and UpdateProbes touches the figures.
LEMMA FiguresFrame ==
  ASSUME \/ Requests \/ (\E g \in Attempts : Pinging(g)) \/ UNCHANGED vars
         \/ Settling /\ ~UpdateProbes
         \/ UnregisterHistogram \/ PrepareOk \/ StopScheduler \/ SchedulerStopped
         \/ StopLocal \/ StartLocal \/ StartRemote
  PROVE  UNCHANGED Figures
<1> USE DEF Figures, remote
<1>1. CASE Requests \/ (\E g \in Attempts : Pinging(g)) \/ UNCHANGED vars
  BY <1>1, RequestsFrame, PingingFrame DEF vars
<1>2. CASE Settling /\ ~UpdateProbes
  BY <1>2 DEF Settling, Registering, TakeHup, TakePost, ReadConfig, InitMetrics,
     RegisterHistogram, RegisterCollector, PrepareFails, DropCollector
<1>3. CASE \/ UnregisterHistogram \/ PrepareOk \/ StopScheduler \/ SchedulerStopped
           \/ StopLocal \/ StartLocal \/ StartRemote
  BY <1>3 DEF UnregisterHistogram, PrepareOk, StopScheduler, SchedulerStopped,
     StopLocal, StartLocal, StartRemote
<1> QED BY <1>1, <1>2, <1>3

\* The steps of a run.
LEMMA BooksWorking ==
  ASSUME Placed, Books, NEW g \in Attempts, Working(g)
  PROVE  Books'
<1> USE DEF Placed, Typed, TypeOK, Books, Balanced, Untouched, probes
<1>1. CASE BeginRun(g)
  BY <1>1 DEF BeginRun
<1>2. CASE RunFails(g)
  BY <1>2 DEF RunFails
<1>3. CASE AddSent(g)
  BY <1>3 DEF AddSent
<1>4. CASE Record(g)
  BY <1>4 DEF Record
<1> QED BY <1>1, <1>2, <1>3, <1>4 DEF Working, Finish

LEMMA BooksNext ==
  ASSUME Placed, Books, [Next]_vars
  PROVE  Books'
<1> USE DEF Placed, Typed, TypeOK, Books, Balanced, Untouched, Figures, At
<1>1. CASE UNCHANGED <<sched, Figures>>
  BY <1>1
<1>2. ASSUME NEW g \in Attempts, Working(g) PROVE Books'
  BY <1>2, BooksWorking
<1>3. CASE UpdateProbes
  \* The histogram that is emptied is that of an attempt that has not started.
  <2>1. Untouched(attempt)
    BY <1>3 DEF UpdateProbes, AttemptIsNew, After, Starting
  <2>2. /\ observed' = [observed EXCEPT ![attempt] = 0]
        /\ UNCHANGED <<sched, run, sent, lost>>
    BY <1>3 DEF UpdateProbes
  <2>3. observed' = observed
    BY <2>1, <2>2
  <2> QED BY <2>2, <2>3
<1>4. CASE PrepareOk
  BY <1>4, FiguresFrame DEF PrepareOk, AttemptIsNew, Before, Starting
<1>5. CASE StopScheduler
  BY <1>5, FiguresFrame DEF StopScheduler
<1>6. CASE SchedulerStopped
  BY <1>6, FiguresFrame DEF SchedulerStopped
<1>7. CASE StartRemote
  BY <1>7, FiguresFrame DEF StartRemote
<1>8. CASE UnregisterHistogram \/ StopLocal \/ StartLocal
  <2>1. UNCHANGED sched
    BY <1>8 DEF UnregisterHistogram, StopLocal, StartLocal, probes
  <2> QED BY <1>1, <1>8, <2>1, FiguresFrame
<1>9. CASE \/ Requests \/ (\E g \in Attempts : Pinging(g)) \/ UNCHANGED vars
           \/ Settling /\ ~UpdateProbes
  <2>1. UNCHANGED sched
    BY <1>9, QuietSteps, SettlingMoves DEF Quiet
  <2> QED BY <1>1, <1>9, <2>1, FiguresFrame
<1> QED
  BY <1>2, <1>3, <1>4, <1>5, <1>6, <1>7, <1>8, <1>9, StepKinds

LEMMA AlwaysBooks == Spec => []Books
<1>1. Init => Books
  BY AttemptsType DEF Init, Books, Balanced, Untouched
<1>2. Placed /\ Books /\ [Next]_vars => Books'
  BY BooksNext
<1> QED BY <1>1, <1>2, AlwaysPlaced, PTL DEF Spec

\* The difference between the counters that are exported together is the loss
\* the router reported, across reloads: updateProbes empties only a histogram
\* nobody has counted requests for (main.go:159-165).
THEOREM ExportedLoss == Spec => []ExportedLossIsReal
<1>1. Placed /\ Books => ExportedLossIsReal
  <2> SUFFICES ASSUME Placed, Books, NEW g \in Attempts
               PROVE  \/ sent[g] - observed[g] = lost[g]
                      \/ run[g] = "sent" /\ sent[g] - observed[g] = lost[g] + 2
    BY DEF ExportedLossIsReal
  <2> QED BY DEF Books, Balanced, Placed, Typed, TypeOK
<1> QED BY <1>1, AlwaysPlaced, AlwaysBooks, PTL

-----------------------------------------------------------------------------
(***************************************************************************)
(* The registry, and the local pingers.                                    *)
(***************************************************************************)
LEMMA RegistryNext ==
  ASSUME Placed, RegistryInStep, [Next]_vars
  PROVE  RegistryInStep'
<1> USE AttemptsType
    DEF Placed, Typed, TypeOK, RegistryInStep, Before, After, Starting, At, Names, Without
<1>1. CASE UNCHANGED <<loop, attempt, reg>>
  BY <1>1
<1>2. CASE Requests \/ (\E g \in Attempts : Working(g) \/ Pinging(g)) \/ UNCHANGED vars
  BY <1>1, <1>2, RequestsFrame, WorkingFrame, PingingFrame DEF vloop, vars
<1>3. CASE TakeHup \/ \E p \in Posters : TakePost(p)
  BY <1>3 DEF TakeHup, TakePost
<1>4. CASE ReadConfig \/ PrepareFails
  BY <1>1, <1>4 DEF ReadConfig, PrepareFails, GiveUp, config
<1>5. CASE UnregisterHistogram
  BY <1>5 DEF UnregisterHistogram
<1>6. CASE InitMetrics
  BY <1>6 DEF InitMetrics, MustRegister
<1>7. CASE RegisterHistogram
  BY <1>7 DEF RegisterHistogram, MustRegister
<1>8. CASE PrepareOk
  BY <1>8 DEF PrepareOk
<1>9. CASE StopScheduler \/ SchedulerStopped \/ StopLocal \/ StartLocal
  BY <1>9 DEF StopScheduler, SchedulerStopped, StopLocal, StartLocal
<1>10. CASE DropCollector
  BY <1>10 DEF DropCollector
<1>11. CASE UpdateProbes
  BY <1>11 DEF UpdateProbes
<1>12. CASE RegisterCollector
  BY <1>12 DEF RegisterCollector, MustRegister
<1>13. CASE StartRemote
  BY <1>13 DEF StartRemote
<1> QED
  BY <1>2, <1>3, <1>4, <1>5, <1>6, <1>7, <1>8, <1>9, <1>10, <1>11, <1>12, <1>13,
     StepKinds DEF Settling, Registering

LEMMA AlwaysRegistry == Spec => []RegistryInStep
<1>1. Init => RegistryInStep
  BY DEF Init, RegistryInStep, Names, Starting, Before, After
<1>2. Placed /\ RegistryInStep /\ [Next]_vars => RegistryInStep'
  BY RegistryNext
<1> QED BY <1>1, <1>2, AlwaysPlaced, PTL DEF Spec

LEMMA PingersNext ==
  ASSUME Placed, PingersInStep, [Next]_vars
  PROVE  PingersInStep'
<1> USE AttemptsType
    DEF Placed, Typed, TypeOK, PingersInStep, AttemptIsNew, Before, After, Starting, At
<1>1. CASE UNCHANGED <<loop, live, local, hooked>>
  BY <1>1
<1>2. CASE Requests \/ (\E g \in Attempts : Working(g)) \/ UNCHANGED vars
  BY <1>1, <1>2, RequestsFrame, WorkingFrame DEF vloop, vars, probes
<1>3. ASSUME NEW g \in Attempts, Pinging(g) PROVE PingersInStep'
  <2>1. UNCHANGED <<loop, live, hooked>>
    BY <1>3, PingingFrame DEF vloop
  <2>2. \/ local' = local
        \/ local[g] = "running" /\ local' = [local EXCEPT ![g] = "failed"]
    BY <1>3 DEF Pinging, Ping, LocalFails, probes
  <2>3. loop \in After => live \in Attempts
    OBVIOUS
  <2> QED BY <2>1, <2>2, <2>3
<1>4. CASE Settling /\ ~UpdateProbes
  <2>1. UNCHANGED hooked
    BY <1>4 DEF Settling, Registering, TakeHup, TakePost, ReadConfig, InitMetrics,
       RegisterHistogram, RegisterCollector, PrepareFails, DropCollector, probes
  <2>2. loop' = "collector" => loop = "collector"
    BY <1>4 DEF Settling, Registering, TakeHup, TakePost, ReadConfig, InitMetrics,
       RegisterHistogram, RegisterCollector, PrepareFails, DropCollector,
       MustRegister, GiveUp
  <2> QED BY <1>4, <2>1, <2>2, SettlingMoves
<1>5. CASE UpdateProbes
  BY <1>5 DEF UpdateProbes
<1>6. CASE UnregisterHistogram
  BY <1>6 DEF UnregisterHistogram, probes
<1>7. CASE PrepareOk
  BY <1>7 DEF PrepareOk
<1>8. CASE StopScheduler
  BY <1>8 DEF StopScheduler
<1>9. CASE SchedulerStopped
  BY <1>9 DEF SchedulerStopped
<1>10. CASE StopLocal
  BY <1>10 DEF StopLocal
<1>11. CASE StartLocal
  BY <1>11 DEF StartLocal
<1>12. CASE StartRemote
  BY <1>12 DEF StartRemote
<1> QED
  BY <1>2, <1>3, <1>4, <1>5, <1>6, <1>7, <1>8, <1>9, <1>10, <1>11, <1>12, StepKinds

LEMMA AlwaysPingers == Spec => []PingersInStep
<1>1. Init => PingersInStep
  BY DEF Init, PingersInStep, After
<1>2. Placed /\ PingersInStep /\ [Next]_vars => PingersInStep'
  BY PingersNext
<1> QED BY <1>1, <1>2, AlwaysPlaced, PTL DEF Spec

-----------------------------------------------------------------------------
(***************************************************************************)
(* A reload that succeeded has replaced everything.                        *)
(***************************************************************************)
InStep == Placed /\ RegistryInStep /\ PingersInStep
Whole  ==
  /\ \A name \in Names : reg[name] = live
  /\ hooked[live]
  /\ \A g \in Attempts : sched[g] = "running" <=> g = live
  /\ \A g \in Attempts : local[g] \in {"running", "failed"} <=> g = live
WholeAtSelect == loop = "select" /\ succeeded => Whole

\* Only StartRemote reports success.
LEMMA StartRemoteMakesWhole ==
  ASSUME InStep, StartRemote
  PROVE  Whole'
<1> USE AttemptsType DEF InStep, Placed, Typed, TypeOK, StartRemote, At
<1>1. live = attempt /\ attempt \in Attempts /\ live' = attempt
  BY DEF AttemptIsNew, After
<1>2. \A name \in Names : reg'[name] = live'
  BY <1>1 DEF RegistryInStep, Names, Starting, Before, After
<1>3. hooked'[live']
  BY <1>1 DEF PingersInStep
<1>4. \A g \in Attempts : sched'[g] = "running" <=> g = live'
  BY <1>1 DEF SchedulersInPlace, After
<1>5. \A g \in Attempts : local'[g] \in {"running", "failed"} <=> g = live'
  BY <1>1 DEF PingersInStep, After
<1> QED BY <1>2, <1>3, <1>4, <1>5 DEF Whole

LEMMA WholeNext ==
  ASSUME InStep, WholeAtSelect, [Next]_vars
  PROVE  WholeAtSelect'
<1> USE DEF WholeAtSelect
<1>1. CASE UNCHANGED <<loop, succeeded, reg, live, sched, local, hooked>>
  BY <1>1 DEF Whole
<1>2. CASE Requests \/ (\E g \in Attempts : Working(g)) \/ UNCHANGED vars
  BY <1>1, <1>2, RequestsFrame, WorkingFrame DEF vloop, vars, probes
<1>3. ASSUME NEW g \in Attempts, Pinging(g) PROVE WholeAtSelect'
  <2>1. UNCHANGED vloop
    BY <1>3, PingingFrame
  <2>2. \/ local' = local
        \/ local[g] = "running" /\ local' = [local EXCEPT ![g] = "failed"]
    BY <1>3 DEF Pinging, Ping, LocalFails, probes
  <2>3. local \in [Attempts -> {"none", "ready", "running", "failed", "stopped"}]
    BY DEF InStep, Placed, Typed, TypeOK
  <2> QED BY <2>1, <2>2, <2>3 DEF Whole, vloop
<1>4. CASE StartRemote
  BY <1>4, StartRemoteMakesWhole
<1>5. CASE ReadConfig \/ PrepareFails
  BY <1>5 DEF ReadConfig, PrepareFails, GiveUp, At
<1>6. CASE Step /\ ~StartRemote /\ ~ReadConfig /\ ~PrepareFails
  <2>1. loop' # "select"
    BY <1>6 DEF Step, TakeHup, TakePost, UnregisterHistogram, InitMetrics,
       RegisterHistogram, RegisterCollector, MustRegister, PrepareOk, StopScheduler,
       SchedulerStopped, StopLocal, StartLocal, DropCollector, UpdateProbes, At
  <2> QED BY <2>1
<1> QED
  BY <1>2, <1>3, <1>4, <1>5, <1>6 DEF Next, Requests, Working, Pinging

\* After a reload that succeeded, what runs, what is registered and what the
\* callbacks write to are of one attempt, and nothing of an older one runs
\* (main.go:405-463, smokePingers.start).
THEOREM SuccessfulReloadIsWhole == Spec => []ReloadIsWhole
<1>1. Init => WholeAtSelect
  BY DEF Init, WholeAtSelect
<1>2. InStep /\ WholeAtSelect /\ [Next]_vars => WholeAtSelect'
  BY WholeNext
<1>3. WholeAtSelect => ReloadIsWhole
  BY DEF WholeAtSelect, Whole, ReloadIsWhole, At
<1>4. Spec => []InStep
  BY AlwaysPlaced, AlwaysRegistry, AlwaysPingers, PTL DEF InStep
<1> QED BY <1>1, <1>2, <1>3, <1>4, PTL DEF Spec

-----------------------------------------------------------------------------
(***************************************************************************)
(* Requests and the file they were made for.                               *)
(***************************************************************************)
InTime == RequestsInTime /\ PostIsFresh

LEMMA InTimeRequests ==
  ASSUME Typed, InTime, Requests
  PROVE  InTime'
<1> USE DEF Typed, TypeOK, InTime, RequestsInTime, PostIsFresh, After, Files, Versions,
        config, signals, posts, probes
<1>1. ASSUME NEW c \in Configs, Edit(c) PROVE InTime'
  BY <1>1 DEF Edit
<1>2. CASE Hup
  BY <1>2 DEF Hup
<1>3. CASE EarlyHup
  BY <1>3 DEF EarlyHup
<1>4. ASSUME NEW p \in Posters, Post(p) PROVE InTime'
  \* The handler that begins is not the one the loop is working for.
  <2>1. loop # "select" => client # p
    BY <1>4 DEF Post
  <2> QED BY <1>4, <2>1 DEF Post
<1> QED BY <1>1, <1>2, <1>3, <1>4 DEF Requests

\* What a reload that is given up tells.
LEMMA InTimeGiveUp ==
  ASSUME Typed, InTime, proc = "up", loop \in {"read", "prepare"}, GiveUp,
         tried' >= hupped, loaded' = loaded,
         UNCHANGED <<client, file, hup, hupped, asked, applied>>
  PROVE  InTime'
BY DEF Typed, TypeOK, InTime, RequestsInTime, PostIsFresh, After, Files, Versions,
   GiveUp, Answer

LEMMA InTimeNext ==
  ASSUME Typed, InTime, [Next]_vars
  PROVE  InTime'
<1> DEFINE Told == <<client, hup, hupped, posts, file, loaded, tried, applied>>
<1> USE DEF Typed, TypeOK, InTime, RequestsInTime, PostIsFresh, After, Files, Versions,
        At, config, signals, posts, probes
<1>1. CASE Requests
  BY <1>1, InTimeRequests
<1>2. ASSUME UNCHANGED <<loop, Told>>, proc' = "up" => proc = "up" PROVE InTime'
  BY <1>2
<1>3. CASE (\E g \in Attempts : Working(g) \/ Pinging(g)) \/ UNCHANGED vars
  BY <1>2, <1>3, WorkingFrame, PingingFrame DEF vloop, vars
<1>4. CASE TakeHup
  BY <1>4 DEF TakeHup
<1>5. ASSUME NEW p \in Posters, TakePost(p) PROVE InTime'
  BY <1>5 DEF TakePost
<1>6. CASE ReadConfig
  <2>1. CASE file.cfg.accepted
    BY <1>6, <2>1 DEF ReadConfig
  <2>2. CASE ~file.cfg.accepted
    BY <1>6, <2>2, InTimeGiveUp DEF ReadConfig
  <2> QED BY <2>1, <2>2
<1>7. CASE PrepareFails
  <2>1. tried >= hupped \/ hup
    BY <1>7 DEF PrepareFails
  <2> QED BY <1>7, <2>1 DEF PrepareFails, GiveUp, Answer
<1>8. CASE Registering
  <2>1. UNCHANGED Told /\ loop \notin {"select", "read"} /\ proc = "up"
    BY <1>8 DEF Registering, InitMetrics, RegisterHistogram, RegisterCollector
  <2>2. loop' \notin {"select", "read"} /\ (loop' \in After => loop \in After)
    BY <1>8 DEF Registering, InitMetrics, RegisterHistogram, RegisterCollector,
       MustRegister
  <2> QED BY <2>1, <2>2
<1>9. CASE UnregisterHistogram \/ PrepareOk \/ StopScheduler \/ SchedulerStopped \/ StopLocal
  <2>1. UNCHANGED Told /\ loop \notin {"select", "read"} /\ proc = "up"
    BY <1>9 DEF UnregisterHistogram, PrepareOk, StopScheduler, SchedulerStopped, StopLocal
  <2>2. loop' \notin {"select", "read"} \cup After
    BY <1>9 DEF UnregisterHistogram, PrepareOk, StopScheduler, SchedulerStopped, StopLocal
  <2> QED BY <2>1, <2>2
<1>10. CASE StartLocal
  BY <1>10 DEF StartLocal
<1>11. CASE DropCollector \/ UpdateProbes
  <2>1. /\ UNCHANGED Told /\ loop \in After /\ proc = "up"
        /\ loop' \in After
    BY <1>11 DEF DropCollector, UpdateProbes
  <2> QED BY <2>1
<1>12. CASE StartRemote
  BY <1>12 DEF StartRemote, Answer
<1> QED
  BY <1>1, <1>3, <1>4, <1>5, <1>6, <1>7, <1>8, <1>9, <1>10, <1>11, <1>12
     DEF Next, Requests, Step, Registering, Working, Pinging

LEMMA AlwaysInTime == Spec => []InTime
<1>1. Init => InTime
  BY DEF Init, InTime, RequestsInTime, PostIsFresh, After
<1>2. Typed /\ InTime /\ [Next]_vars => InTime'
  BY InTimeNext
<1> QED BY <1>1, <1>2, AlwaysTyped, PTL DEF Spec

\* No SIGHUP is lost although signal.Notify drops one that finds the channel
\* full: whoever drains the channel reads the file afterwards (main.go:392).
THEOREM NoHupIsLost == Spec => []HupIsServed
<1>1. InTime => HupIsServed
  BY DEF InTime, RequestsInTime, HupIsServed, At
<1> QED BY <1>1, AlwaysInTime, PTL

\* A POST answered without an error has been served from the file as it was
\* when the request came, or from a later one (main.go:394-398, 461-463).
THEOREM AnsweredPostsAreFresh == Spec => []PostIsFresh
BY AlwaysInTime, PTL DEF InTime

-----------------------------------------------------------------------------
(***************************************************************************)
(* The registry refuses a name that is taken, and a name that was          *)
(* registered with other labels.  The first cannot happen.  The second     *)
(* cannot while all configurations ask for the same labels.                *)
(***************************************************************************)
LEMMA NothingIsRefused ==
  ASSUME Typed, RegistryInStep, NeverPanics, [Next]_vars,
         \A l, m \in Labels : l = m
  PROVE  NeverPanics'
<1> USE DEF Typed, TypeOK, NeverPanics, At
<1>1. dims \in {None, loaded.cfg.labels}
  <2>1. loaded.cfg.labels \in Labels
    BY DEF Files, Configs
  <2> QED BY <2>1
<1>2. CASE InitMetrics
  BY <1>1, <1>2 DEF InitMetrics, MustRegister, Without, Names
<1>3. CASE RegisterHistogram
  BY <1>1, <1>3 DEF RegisterHistogram, MustRegister, RegistryInStep
<1>4. CASE RegisterCollector
  BY <1>1, <1>4 DEF RegisterCollector, MustRegister, RegistryInStep
<1>5. CASE Requests
  BY <1>5 DEF Requests, Edit, Hup, EarlyHup, Post
<1>6. ASSUME NEW g \in Attempts, Working(g) \/ Pinging(g) PROVE NeverPanics'
  BY <1>6, WorkingFrame, PingingFrame
<1>7. CASE Step /\ ~Registering
  BY <1>7 DEF Step, Registering, TakeHup, TakePost, ReadConfig, PrepareFails, GiveUp,
     UnregisterHistogram, PrepareOk, StopScheduler, SchedulerStopped, StopLocal,
     StartLocal, DropCollector, UpdateProbes, StartRemote
<1>8. CASE UNCHANGED vars
  BY <1>8 DEF vars
<1> QED
  BY <1>2, <1>3, <1>4, <1>5, <1>6, <1>7, <1>8
     DEF Next, Requests, Registering, Working, Pinging

\* While the label set stays the same, no registration panics, whatever
\* reloads failed before (main.go:419-421, 438-440).  When it changes the
\* registration does panic: see NewLabelsAreAccepted.
THEOREM SameLabelsNeverPanic ==
  ASSUME \A l, m \in Labels : l = m
  PROVE  Spec => []NeverPanics
<1>1. Init => NeverPanics
  BY DEF Init, NeverPanics
<1>2. Typed /\ RegistryInStep /\ NeverPanics /\ [Next]_vars => NeverPanics'
  BY NothingIsRefused
<1> QED BY <1>1, <1>2, AlwaysTyped, AlwaysRegistry, PTL DEF Spec
=============================================================================
