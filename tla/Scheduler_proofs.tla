---------------------------- MODULE Scheduler_proofs ----------------------------
(***************************************************************************)
(* The counter the workers sleep on is exact, and short of a race no       *)
(* wakeup is lost, for any number of workers, jobs and restarts.           *)
(***************************************************************************)
EXTENDS Scheduler, FiniteSetTheorems, TLAPS

(* The workers that run a job, and whether the main thread has one. *)
Running == {w \in Workers : pc[w] = "running"}
MainHolds == IF main \in {"push", "helping"} THEN 1 ELSE 0

(* What the bound on the jobs rests on: each job counted was scheduled. *)
JobsAccounted ==
  /\ queued \in Nat
  /\ active <= scheduled
  /\ ActiveCountsWork

(* The state but for the two counters that need JobsAccounted. *)
Types ==
  /\ state \in [Workers -> {"ready", "running", "terminated"}]
  /\ pc \in [Workers -> {"absent", "begin", "loop", "sleep_test", "lock", "predicate",
                         "doze", "asleep", "woken", "try", "running", "until_idle",
                         "exited"}]
  /\ popped \in [Workers -> BOOLEAN]
  /\ mutex \in Workers \cup {None}
  /\ main \in {"off", "starting", "user", "push", "notify", "helping",
               "terminating", "joining"}
  /\ next \in 0 .. NumWorkers
  /\ scheduled \in 0 .. MaxJobs
  /\ starts \in 0 .. MaxStarts
  /\ raced \in BOOLEAN

(* The workers startup has yet to start have no thread. *)
StartsAbsent ==
  main = "starting" => \A w \in Workers : w >= next => pc[w] = "absent"

CountInv == Types /\ StartsAbsent /\ JobsAccounted

(* A worker that has found its predicate false goes to sleep on what is    *)
(* still true.                                                             *)
DozesRightly ==
  ~raced => \A w \in Workers : pc[w] = "doze" => active = 0 /\ state[w] # "terminated"

LEMMA WorkersFinite == IsFiniteSet(Workers)
BY SchedulerAssumption, FS_Interval DEF Workers

(* The number of workers that run a job, and that it may gain or lose one. *)
LEMMA RunningCount ==
  /\ IsFiniteSet(Running)
  /\ Cardinality(Running) \in Nat
  /\ InHand = Cardinality(Running) + MainHolds
  /\ \A w \in Running : Cardinality(Running) > 0
<1>1. IsFiniteSet(Running)
  BY WorkersFinite, FS_Subset DEF Running
<1>2. \A w \in Running : Cardinality(Running) > 0
  <2> SUFFICES ASSUME NEW w \in Running PROVE Cardinality(Running) > 0
    OBVIOUS
  <2>1. Cardinality(Running) \in Nat /\ Cardinality(Running) # 0
    BY <1>1, FS_EmptySet, FS_CardinalityType
  <2> QED BY <2>1
<1> QED BY <1>1, <1>2, FS_CardinalityType DEF InHand, Running, MainHolds

(* The same of the state after a step. *)
LEMMA RunningCountNext ==
  /\ IsFiniteSet(Running')
  /\ Cardinality(Running') \in Nat
  /\ InHand' = Cardinality(Running') + MainHolds'
<1>1. IsFiniteSet(Running')
  BY WorkersFinite, FS_Subset DEF Running
<1> QED BY <1>1, FS_CardinalityType DEF InHand, Running, MainHolds

(* active_jobs_ is a number within the bound. *)
LEMMA ActiveIsNat ==
  ASSUME CountInv
  PROVE  active \in 0 .. MaxJobs /\ queued \in 0 .. MaxJobs /\ queued + InHand = active
<1>1. InHand \in Nat
  BY RunningCount DEF CountInv, Types, MainHolds
<1>2. active = queued + InHand /\ queued \in Nat /\ active <= scheduled
  BY DEF CountInv, JobsAccounted, ActiveCountsWork
<1>3. scheduled \in 0 .. MaxJobs /\ MaxJobs \in Nat
  BY SchedulerAssumption DEF CountInv, Types
<1> QED BY <1>1, <1>2, <1>3

(* A step that leaves the jobs alone, and the workers that run one. *)
LEMMA QuietStep ==
  ASSUME CountInv, Types',
         StartsAbsent',
         UNCHANGED <<active, queued, scheduled>>, Running' = Running, MainHolds' = MainHolds
  PROVE  CountInv'
<1>1. InHand' = InHand
  BY RunningCount, RunningCountNext
<1> QED BY <1>1 DEF CountInv, JobsAccounted, ActiveCountsWork

--------------------------------------------------------------------------------
(* The main thread's steps keep the count. *)

LEMMA StartupCount == ASSUME CountInv, Startup PROVE CountInv'
<1>1. Types'
  BY SchedulerAssumption DEF Startup, CountInv, Types
<1>2. Running' = {} /\ MainHolds' = 0 /\ StartsAbsent'
  BY DEF Startup, Running, MainHolds, StartsAbsent
<1>3. InHand' = 0
  BY <1>2, RunningCountNext, FS_EmptySet
<1> QED BY <1>1, <1>2, <1>3 DEF Startup, ClearedActive, CountInv, JobsAccounted,
   ActiveCountsWork, Types

LEMMA StartWorkerCount == ASSUME CountInv, StartWorker PROVE CountInv'
<1> USE DEF StartWorker, GoWorker, More
<1>1. next \in Workers /\ pc[next] = "absent"
  BY SchedulerAssumption DEF CountInv, Types, StartsAbsent, Workers
<1>2. Types'
  BY <1>1, SchedulerAssumption DEF CountInv, Types, Workers
<1>3. StartsAbsent'
  BY <1>1, SchedulerAssumption DEF CountInv, Types, StartsAbsent, Workers
<1>4. Running' = Running
  BY <1>1 DEF CountInv, Types, Running
<1> QED BY <1>2, <1>3, <1>4, QuietStep DEF MainHolds

LEMMA TerminateWorkerCount == ASSUME CountInv, TerminateWorker PROVE CountInv'
<1> USE DEF TerminateWorker, More, workerVars
<1>1. next \in Workers
  BY SchedulerAssumption DEF CountInv, Types, Workers
<1>2. raced' \in BOOLEAN
  BY Zenon DEF CountInv, Types
<1>3. /\ state' \in [Workers -> {"ready", "running", "terminated"}]
      /\ next' \in 0 .. NumWorkers
  BY <1>1, SchedulerAssumption DEF CountInv, Types, Workers
<1>4. Types'
  BY <1>2, <1>3 DEF CountInv, Types
<1> QED BY <1>4, QuietStep DEF Running, MainHolds, StartsAbsent

LEMMA NotifyCount ==
  ASSUME CountInv, ScheduleNotify \/ ShutdownNotify
  PROVE  CountInv'
<1> USE DEF ScheduleNotify, ShutdownNotify, Awakened
<1>1. Types'
  BY SchedulerAssumption DEF CountInv, Types
<1>2. Running' = Running
  BY DEF CountInv, Types, Running
<1> QED BY <1>1, <1>2, QuietStep DEF MainHolds, StartsAbsent

LEMMA MainQuietCount ==
  ASSUME CountInv, StartupReturns \/ Shutdown \/ JoinWorker \/ ShutdownReturns
  PROVE  CountInv'
<1> USE DEF StartupReturns, Shutdown, JoinWorker, ShutdownReturns, workerVars
<1>1. Types'
  BY SchedulerAssumption DEF CountInv, Types, More
<1> QED BY <1>1, QuietStep DEF Running, MainHolds, StartsAbsent

LEMMA ScheduleCount == ASSUME CountInv, ScheduleActive PROVE CountInv'
<1> USE DEF ScheduleActive, workerVars
<1>1. raced' \in BOOLEAN
  BY Zenon DEF CountInv, Types
<1>2. Types' /\ StartsAbsent'
  BY <1>1, SchedulerAssumption DEF CountInv, Types, StartsAbsent
<1>3. Running' = Running /\ MainHolds = 0 /\ MainHolds' = 1
  BY DEF Running, MainHolds
<1>4. InHand' = InHand + 1 /\ InHand \in Nat
  BY <1>3, RunningCount, RunningCountNext
<1> QED BY <1>2, <1>4, ActiveIsNat DEF CountInv, JobsAccounted, ActiveCountsWork, Types

LEMMA PushCount == ASSUME CountInv, SchedulePush \/ HelpTake PROVE CountInv'
<1> USE DEF SchedulePush, HelpTake, workerVars
<1>1. Types' /\ StartsAbsent'
  BY DEF CountInv, Types, StartsAbsent
<1>2. /\ Running' = Running
      /\ \/ MainHolds = 1 /\ MainHolds' = 0 /\ queued' = queued + 1
         \/ MainHolds = 0 /\ MainHolds' = 1 /\ queued' = queued - 1 /\ queued > 0
      /\ UNCHANGED <<active, scheduled>>
  BY DEF Running, MainHolds
<1>3. queued' + InHand' = queued + InHand /\ queued' \in Nat
  BY <1>2, RunningCount, RunningCountNext, ActiveIsNat
<1> QED BY <1>1, <1>2, <1>3, ActiveIsNat DEF CountInv, JobsAccounted, ActiveCountsWork

LEMMA HelpDoneCount == ASSUME CountInv, HelpDone PROVE CountInv'
<1> USE DEF HelpDone, workerVars
<1>1. Types' /\ StartsAbsent'
  BY DEF CountInv, Types, StartsAbsent
<1>2. Running' = Running /\ MainHolds = 1 /\ MainHolds' = 0
  BY DEF Running, MainHolds
<1>3. InHand' = InHand - 1 /\ InHand \in Nat
  BY <1>2, RunningCount, RunningCountNext
<1> QED BY <1>1, <1>3, ActiveIsNat DEF CountInv, JobsAccounted, ActiveCountsWork, Types

--------------------------------------------------------------------------------
(* A worker's steps keep the count, too. *)

LEMMA WorkerQuietCount ==
  ASSUME CountInv, NEW w \in Workers,
         Begin(w) \/ Loop(w) \/ SleepTest(w) \/ Lock(w) \/ PredicateHolds(w)
           \/ PredicateFails(w) \/ Sleep(w) \/ SpuriousWakeup(w) \/ FindNothing(w)
           \/ UntilIdle(w)
  PROVE  CountInv'
<1> USE DEF Begin, Loop, SleepTest, Lock, PredicateHolds, PredicateFails, Sleep,
        SpuriousWakeup, FindNothing, UntilIdle, GoWorker
<1>1. PICK l : /\ l \in {"exited", "sleep_test", "lock", "try", "predicate", "doze", "asleep",
                          "woken", "until_idle", "loop"}
               /\ pc' = [pc EXCEPT ![w] = l]
  OBVIOUS
<1>2. pc[w] # "running" /\ pc[w] # "absent" /\ UNCHANGED <<main, next, active, queued, scheduled>>
  OBVIOUS
<1>3. pc' \in [Workers -> {"absent", "begin", "loop", "sleep_test", "lock", "predicate",
                           "doze", "asleep", "woken", "try", "running", "until_idle",
                           "exited"}]
  BY <1>1 DEF CountInv, Types
<1>4. /\ state' \in [Workers -> {"ready", "running", "terminated"}]
      /\ mutex' \in Workers \cup {None}
      /\ popped' \in [Workers -> BOOLEAN]
      /\ UNCHANGED <<starts, raced>>
  BY DEF CountInv, Types
<1>5. Types'
  BY <1>2, <1>3, <1>4 DEF CountInv, Types
<1>6. Running' = Running
  BY <1>1, <1>2 DEF CountInv, Types, Running
<1>7. StartsAbsent'
  BY <1>1, <1>2 DEF CountInv, Types, StartsAbsent
<1> QED BY <1>2, <1>5, <1>6, <1>7, QuietStep DEF MainHolds

LEMMA TakeJobCount == ASSUME CountInv, NEW w \in Workers, TakeJob(w) PROVE CountInv'
<1> USE DEF TakeJob, GoWorker
<1>1. Types' /\ StartsAbsent'
  BY DEF CountInv, Types, StartsAbsent
<1>2. Running' = Running \cup {w} /\ w \notin Running /\ MainHolds' = MainHolds
  BY DEF CountInv, Types, Running, MainHolds
<1>3. Cardinality(Running') = Cardinality(Running) + 1
  BY <1>2, RunningCount, FS_AddElement
<1>4. InHand' = InHand + 1 /\ InHand \in Int
  BY <1>2, <1>3, RunningCount, RunningCountNext DEF MainHolds
<1>5. queued' = queued - 1 /\ queued > 0 /\ UNCHANGED <<active, scheduled>>
  OBVIOUS
<1> QED BY <1>1, <1>4, <1>5, ActiveIsNat DEF CountInv, JobsAccounted, ActiveCountsWork

LEMMA FinishJobCount == ASSUME CountInv, NEW w \in Workers, FinishJob(w) PROVE CountInv'
<1> USE DEF FinishJob, GoWorker
<1>1. Types' /\ StartsAbsent'
  BY DEF CountInv, Types, StartsAbsent
<1>2. Running' = Running \ {w} /\ w \in Running /\ MainHolds' = MainHolds
  BY DEF CountInv, Types, Running, MainHolds
<1>3. Cardinality(Running') = Cardinality(Running) - 1
  BY <1>2, RunningCount, FS_RemoveElement
<1>4. InHand' = InHand - 1 /\ InHand \in Int
  BY <1>2, <1>3, RunningCount, RunningCountNext DEF MainHolds
<1>5. active' = active - 1 /\ UNCHANGED <<queued, scheduled>>
  OBVIOUS
<1> QED BY <1>1, <1>4, <1>5, ActiveIsNat DEF CountInv, JobsAccounted, ActiveCountsWork, Types

--------------------------------------------------------------------------------
LEMMA CountInit == Init => CountInv
<1> SUFFICES ASSUME Init PROVE CountInv
  OBVIOUS
<1>1. Types /\ StartsAbsent
  <2>1. /\ state \in [Workers -> {"ready", "running", "terminated"}]
        /\ popped \in [Workers -> BOOLEAN]
    BY DEF Init
  <2>2. pc \in [Workers -> {"absent", "begin", "loop", "sleep_test", "lock", "predicate",
                            "doze", "asleep", "woken", "try", "running", "until_idle",
                            "exited"}]
    BY DEF Init
  <2>3. next \in 0 .. NumWorkers /\ scheduled \in 0 .. MaxJobs /\ starts \in 0 .. MaxStarts
    BY SchedulerAssumption DEF Init
  <2>4. mutex \in Workers \cup {None} /\ main = "off"
    BY DEF Init
  <2>5. raced \in BOOLEAN
    BY Zenon DEF Init
  <2> QED BY <2>1, <2>2, <2>3, <2>4, <2>5 DEF Types, StartsAbsent
<1>2. Running = {} /\ MainHolds = 0
  BY DEF Init, Running, MainHolds
<1>3. InHand = 0
  BY <1>2, RunningCount, FS_EmptySet
<1> QED BY <1>1, <1>3 DEF Init, CountInv, JobsAccounted, ActiveCountsWork

LEMMA CountStutter == ASSUME CountInv, UNCHANGED vars PROVE CountInv'
<1>1. Types' /\ StartsAbsent' /\ Running' = Running /\ MainHolds' = MainHolds
  BY DEF vars, workerVars, CountInv, Types, StartsAbsent, Running, MainHolds
<1> QED BY <1>1, QuietStep DEF vars

(* Every step keeps the count. *)
LEMMA CountStep == CountInv /\ [Next]_vars => CountInv'
BY StartupCount, StartWorkerCount, TerminateWorkerCount, NotifyCount, MainQuietCount,
   ScheduleCount, PushCount, HelpDoneCount, WorkerQuietCount, TakeJobCount, FinishJobCount,
   CountStutter
   DEF Next, UserStep, MainStep, WorkerStep

LEMMA CountInvariant == Spec => []CountInv
BY CountInit, CountStep, PTL DEF Spec

(* Every variable keeps its type: neither counter falls below zero nor     *)
(* grows past the jobs scheduled.                                          *)
THEOREM TypeCorrect == Spec => []TypeOK
<1>1. CountInv => TypeOK
  BY ActiveIsNat DEF CountInv, Types, TypeOK
<1> QED BY <1>1, CountInvariant, PTL

(* active_jobs_ is exact in every state, for any number of workers.        *)
THEOREM ActiveIsExact == Spec => []ActiveCountsWork
<1>1. CountInv => ActiveCountsWork
  BY DEF CountInv, JobsAccounted
<1> QED BY <1>1, CountInvariant, PTL

--------------------------------------------------------------------------------
(* No wakeup is lost *)

SleepInv == DozesRightly /\ NoLostWakeup

LEMMA MainSleep ==
  ASSUME CountInv, SleepInv, UserStep \/ MainStep
  PROVE  SleepInv'
<1> SUFFICES ASSUME ~raced'
             PROVE  \A w \in Workers :
                      /\ pc'[w] = "doze" => active' = 0 /\ state'[w] # "terminated"
                      /\ pc'[w] = "asleep" =>
                           /\ active' > 0 => main' \in {"push", "notify"}
                           /\ state'[w] = "terminated" => main' = "terminating"
  BY DEF SleepInv, DozesRightly, NoLostWakeup
<1>1. active \in Nat
  BY ActiveIsNat
<1>2. CASE Startup
  BY <1>2 DEF Startup
<1>3. CASE StartWorker
  BY <1>1, <1>3 DEF StartWorker, GoWorker, SleepInv, DozesRightly, NoLostWakeup, CountInv, Types
<1>4. CASE StartupReturns \/ Shutdown \/ JoinWorker \/ ShutdownReturns
  BY <1>1, <1>4 DEF StartupReturns, Shutdown, JoinWorker, ShutdownReturns, workerVars,
     SleepInv, DozesRightly, NoLostWakeup
<1>5. CASE TerminateWorker
  BY <1>1, <1>5 DEF TerminateWorker, workerVars, SleepInv, DozesRightly, NoLostWakeup,
     CountInv, Types
<1>6. CASE ScheduleNotify \/ ShutdownNotify
  BY <1>1, <1>6 DEF ScheduleNotify, ShutdownNotify, Awakened, SleepInv, DozesRightly,
     NoLostWakeup, CountInv, Types
<1>7. CASE ScheduleActive \/ SchedulePush
  BY <1>1, <1>7 DEF ScheduleActive, SchedulePush, workerVars, SleepInv, DozesRightly,
     NoLostWakeup
<1>8. CASE HelpTake
  BY <1>1, <1>8 DEF HelpTake, workerVars, SleepInv, DozesRightly, NoLostWakeup
<1>9. CASE HelpDone
  <2>1. active > 0
    BY <1>9, ActiveIsNat, RunningCount DEF HelpDone, MainHolds
  <2> QED BY <1>1, <1>9, <2>1 DEF HelpDone, workerVars, SleepInv, DozesRightly, NoLostWakeup
<1> QED BY <1>2, <1>3, <1>4, <1>5, <1>6, <1>7, <1>8, <1>9 DEF UserStep, MainStep

LEMMA WorkerSleep ==
  ASSUME CountInv, SleepInv, NEW v \in Workers, WorkerStep(v) \/ SpuriousWakeup(v)
  PROVE  SleepInv'
<1> USE DEF GoWorker
<1> SUFFICES ASSUME ~raced'
             PROVE  \A w \in Workers :
                      /\ pc'[w] = "doze" => active' = 0 /\ state'[w] # "terminated"
                      /\ pc'[w] = "asleep" =>
                           /\ active' > 0 => main' \in {"push", "notify"}
                           /\ state'[w] = "terminated" => main' = "terminating"
  BY DEF SleepInv, DozesRightly, NoLostWakeup
<1>1. active \in Nat
  BY ActiveIsNat
<1>2. CASE Begin(v) \/ Loop(v) \/ SleepTest(v) \/ Lock(v) \/ PredicateHolds(v)
             \/ SpuriousWakeup(v) \/ UntilIdle(v)
  BY <1>1, <1>2 DEF Begin, Loop, SleepTest, Lock, PredicateHolds, SpuriousWakeup, UntilIdle,
     SleepInv, DozesRightly, NoLostWakeup, CountInv, Types
<1>3. CASE PredicateFails(v)
  BY <1>1, <1>3 DEF PredicateFails, MustWake, SleepInv, DozesRightly, NoLostWakeup,
     CountInv, Types
<1>4. CASE Sleep(v)
  BY <1>1, <1>4 DEF Sleep, SleepInv, DozesRightly, NoLostWakeup, CountInv, Types
<1>5. CASE TakeJob(v) \/ FindNothing(v)
  BY <1>1, <1>5 DEF TakeJob, FindNothing, SleepInv, DozesRightly, NoLostWakeup, CountInv, Types
<1>6. CASE FinishJob(v)
  <2>1. v \in Running
    BY <1>6 DEF FinishJob, Running
  <2>2. active > 0
    BY <2>1, ActiveIsNat, RunningCount DEF MainHolds
  <2> QED BY <1>1, <1>6, <2>2 DEF FinishJob, SleepInv, DozesRightly, NoLostWakeup, CountInv,
     Types
<1> QED BY <1>2, <1>3, <1>4, <1>5, <1>6 DEF WorkerStep

(* Short of a race, no worker sleeps through work or through its own end,  *)
(* except until the notification about to be sent.                         *)
THEOREM NoWakeupIsLost == Spec => []NoLostWakeup
<1>1. Init => SleepInv
  BY DEF Init, SleepInv, DozesRightly, NoLostWakeup
<1>2. CountInv /\ SleepInv /\ [Next]_vars => SleepInv'
  <2>1. ASSUME SleepInv, UNCHANGED vars PROVE SleepInv'
    BY <2>1 DEF vars, workerVars, SleepInv, DozesRightly, NoLostWakeup
  <2> QED BY <2>1, MainSleep, WorkerSleep DEF Next
<1>3. SleepInv => NoLostWakeup
  BY DEF SleepInv
<1> QED BY <1>1, <1>2, <1>3, CountInvariant, PTL DEF Spec

================================================================================
