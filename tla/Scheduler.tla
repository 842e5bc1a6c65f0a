------------------------------- MODULE Scheduler -------------------------------
(***************************************************************************)
(* The lifecycle of the worker threads: Scheduler::startup, schedule_job   *)
(* and shutdown on the main thread against Worker::main_proc on every      *)
(* worker, with the shared mutex and condition variable workers sleep on.  *)
(* Jobs come from the main thread and its queue is a number of entries.    *)
(* The workers' own queues are never pushed to; all that matters of them   *)
(* is that the first pop makes empty() false for good, because it lowers   *)
(* bottom_ below zero.                                                     *)
(***************************************************************************)
EXTENDS Integers, FiniteSets

CONSTANTS NumWorkers,   \* num_workers_
          MaxJobs,      \* bound: jobs scheduled over all
          MaxStarts     \* bound: calls of startup

ASSUME SchedulerAssumption ==
  NumWorkers \in Nat /\ MaxJobs \in Nat /\ MaxStarts \in Nat

Workers == 0 .. (NumWorkers - 1)
None == -1

VARIABLES state,      \* state[w]: Worker::state_
          pc,         \* pc[w]: where worker w is in main_proc
          popped,     \* popped[w]: w has popped its own queue, which is never
                      \* empty() again
          mutex,      \* the worker that holds worker_mut_, or None
          active,     \* active_jobs_
          queued,     \* jobs in the main thread's queue
          main,       \* where the main thread is
          next,       \* the worker its startup or shutdown loop is at
          scheduled,  \* jobs scheduled so far (bound)
          starts,     \* calls of startup so far (bound)
          raced       \* the main thread has counted a job or terminated a worker
                      \* at a moment the worker cannot notice (ghost)

workerVars == <<pc, popped, mutex>>
vars == <<state, workerVars, active, queued, main, next, scheduled, starts, raced>>

More == next < NumWorkers

GoWorker(w, label) == pc' = [pc EXCEPT ![w] = label]

Init ==
  /\ state = [w \in Workers |-> "ready"]
  /\ pc = [w \in Workers |-> "absent"]
  /\ popped = [w \in Workers |-> FALSE]
  /\ mutex = None
  /\ active = 0 /\ queued = 0
  /\ main = "off" /\ next = 0
  /\ scheduled = 0 /\ starts = 0
  /\ raced = FALSE

--------------------------------------------------------------------------------
(* startup *)

(* Mutant: active_jobs_ keeps what the last shutdown left. *)
KeptActive == active

ClearedActive == 0

(* The counter is cleared and every worker is replaced by a fresh one. *)
Startup ==
  /\ main = "off" /\ starts < MaxStarts
  /\ active' = ClearedActive
  /\ queued' = 0
  /\ state' = [w \in Workers |-> "ready"]
  /\ popped' = [w \in Workers |-> FALSE]
  /\ pc' = [w \in Workers |-> "absent"]
  /\ main' = "starting" /\ next' = 0
  /\ starts' = starts + 1
  /\ UNCHANGED <<mutex, scheduled, raced>>

StartWorker ==
  /\ main = "starting" /\ More
  /\ GoWorker(next, "begin")
  /\ next' = next + 1
  /\ UNCHANGED <<state, popped, mutex, active, queued, main, scheduled, starts, raced>>

StartupReturns ==
  /\ main = "starting" /\ next = NumWorkers
  /\ main' = "user"
  /\ UNCHANGED <<state, workerVars, active, queued, next, scheduled, starts, raced>>

--------------------------------------------------------------------------------
(* schedule_job, and the main thread helping while it waits *)

(* A dozing worker is about to sleep on what it saw before. *)
ScheduleActive ==
  /\ main = "user" /\ scheduled < MaxJobs
  /\ active' = active + 1
  /\ scheduled' = scheduled + 1
  /\ main' = "push"
  /\ raced' = (raced \/ \E w \in Workers : pc[w] = "doze")
  /\ UNCHANGED <<state, workerVars, queued, next, starts>>

SchedulePush ==
  /\ main = "push"
  /\ queued' = queued + 1
  /\ main' = "notify"
  /\ UNCHANGED <<state, workerVars, active, next, scheduled, starts, raced>>

Awakened == [w \in Workers |-> IF pc[w] = "asleep" THEN "woken" ELSE pc[w]]

(* Mutant: the notification is forgotten. *)
ScheduleUnnotified ==
  /\ main = "notify"
  /\ main' = "user"
  /\ UNCHANGED <<state, workerVars, active, queued, next, scheduled, starts, raced>>

(* notify_all, without holding the mutex *)
ScheduleNotify ==
  /\ main = "notify"
  /\ pc' = Awakened
  /\ main' = "user"
  /\ UNCHANGED <<state, popped, mutex, active, queued, next, scheduled, starts, raced>>

HelpTake ==
  /\ main = "user" /\ queued > 0
  /\ queued' = queued - 1
  /\ main' = "helping"
  /\ UNCHANGED <<state, workerVars, active, next, scheduled, starts, raced>>

HelpDone ==
  /\ main = "helping"
  /\ active' = active - 1
  /\ main' = "user"
  /\ UNCHANGED <<state, workerVars, queued, next, scheduled, starts, raced>>

--------------------------------------------------------------------------------
(* shutdown *)

(* Also called by ~Scheduler, whether or not the program has called it.    *)
Shutdown ==
  /\ main \in {"user", "off"}
  /\ main' = "terminating" /\ next' = 0
  /\ UNCHANGED <<state, workerVars, active, queued, scheduled, starts, raced>>

(* A worker that has not begun will overwrite its state_. *)
TerminateWorker ==
  /\ main = "terminating" /\ More
  /\ state' = [state EXCEPT ![next] = "terminated"]
  /\ next' = next + 1
  /\ raced' = (raced \/ pc[next] \in {"begin", "doze"})
  /\ UNCHANGED <<workerVars, active, queued, main, scheduled, starts>>

ShutdownNotify ==
  /\ main = "terminating" /\ next = NumWorkers
  /\ pc' = Awakened
  /\ main' = "joining" /\ next' = 0
  /\ UNCHANGED <<state, popped, mutex, active, queued, scheduled, starts, raced>>

(* A worker without a thread need not be waited for. *)
JoinWorker ==
  /\ main = "joining" /\ More
  /\ pc[next] \in {"exited", "absent"}
  /\ next' = next + 1
  /\ UNCHANGED <<state, workerVars, active, queued, main, scheduled, starts, raced>>

ShutdownReturns ==
  /\ main = "joining" /\ next = NumWorkers
  /\ main' = "off"
  /\ UNCHANGED <<state, workerVars, active, queued, next, scheduled, starts, raced>>

--------------------------------------------------------------------------------
(* main_proc *)

(* The first thing a worker does, whatever its state_ was. *)
Begin(w) ==
  /\ pc[w] = "begin"
  /\ state' = [state EXCEPT ![w] = "running"]
  /\ GoWorker(w, "loop")
  /\ UNCHANGED <<popped, mutex, active, queued, main, next, scheduled, starts, raced>>

Loop(w) ==
  /\ pc[w] = "loop"
  /\ GoWorker(w, IF state[w] = "terminated" THEN "exited" ELSE "sleep_test")
  /\ UNCHANGED <<state, popped, mutex, active, queued, main, next, scheduled, starts, raced>>

SleepTest(w) ==
  /\ pc[w] = "sleep_test"
  /\ GoWorker(w, IF active = 0 /\ popped[w] THEN "lock" ELSE "try")
  /\ UNCHANGED <<state, popped, mutex, active, queued, main, next, scheduled, starts, raced>>

(* A woken worker takes the mutex again before it looks at the predicate. *)
Lock(w) ==
  /\ pc[w] \in {"lock", "woken"} /\ mutex = None
  /\ mutex' = w
  /\ GoWorker(w, "predicate")
  /\ UNCHANGED <<state, popped, active, queued, main, next, scheduled, starts, raced>>

(* Mutant: only jobs wake a worker. *)
MustWakeForJobs(w) == active > 0

MustWake(w) == active > 0 \/ state[w] = "terminated"

PredicateHolds(w) ==
  /\ pc[w] = "predicate" /\ MustWake(w)
  /\ mutex' = None
  /\ GoWorker(w, "try")
  /\ UNCHANGED <<state, popped, active, queued, main, next, scheduled, starts, raced>>

PredicateFails(w) ==
  /\ pc[w] = "predicate" /\ ~MustWake(w)
  /\ GoWorker(w, "doze")
  /\ UNCHANGED <<state, popped, mutex, active, queued, main, next, scheduled, starts, raced>>

(* Entering the wait set and releasing the mutex are one step. *)
Sleep(w) ==
  /\ pc[w] = "doze"
  /\ mutex' = None
  /\ GoWorker(w, "asleep")
  /\ UNCHANGED <<state, popped, active, queued, main, next, scheduled, starts, raced>>

SpuriousWakeup(w) ==
  /\ pc[w] = "asleep"
  /\ GoWorker(w, "woken")
  /\ UNCHANGED <<state, popped, mutex, active, queued, main, next, scheduled, starts, raced>>

(* Mutant: an entry is taken from an empty queue, too. *)
TakeJobUnchecked(w) ==
  /\ pc[w] = "try"
  /\ queued' = queued - 1
  /\ popped' = [popped EXCEPT ![w] = TRUE]
  /\ GoWorker(w, "running")
  /\ UNCHANGED <<state, mutex, active, main, next, scheduled, starts, raced>>

(* try_run_job: its own queue yields nothing, the random victim may be the *)
(* main thread's queue or not.                                             *)
TakeJob(w) ==
  /\ pc[w] = "try" /\ queued > 0
  /\ queued' = queued - 1
  /\ popped' = [popped EXCEPT ![w] = TRUE]
  /\ GoWorker(w, "running")
  /\ UNCHANGED <<state, mutex, active, main, next, scheduled, starts, raced>>

FindNothing(w) ==
  /\ pc[w] = "try"
  /\ popped' = [popped EXCEPT ![w] = TRUE]
  /\ GoWorker(w, "until_idle")
  /\ UNCHANGED <<state, mutex, active, queued, main, next, scheduled, starts, raced>>

FinishJob(w) ==
  /\ pc[w] = "running"
  /\ active' = active - 1
  /\ GoWorker(w, "until_idle")
  /\ UNCHANGED <<state, popped, mutex, queued, main, next, scheduled, starts, raced>>

(* do ... while ( active_jobs_->load() > 0 ) *)
UntilIdle(w) ==
  /\ pc[w] = "until_idle"
  /\ GoWorker(w, IF active > 0 THEN "try" ELSE "loop")
  /\ UNCHANGED <<state, popped, mutex, active, queued, main, next, scheduled, starts, raced>>

--------------------------------------------------------------------------------
(* What the program does of its own accord, and what the library then does. *)
UserStep == Startup \/ ScheduleActive \/ HelpTake \/ Shutdown

MainStep ==
  \/ StartWorker \/ StartupReturns
  \/ SchedulePush \/ ScheduleNotify \/ HelpDone
  \/ TerminateWorker \/ ShutdownNotify \/ JoinWorker \/ ShutdownReturns

WorkerStep(w) ==
  \/ Begin(w) \/ Loop(w) \/ SleepTest(w)
  \/ Lock(w) \/ PredicateHolds(w) \/ PredicateFails(w) \/ Sleep(w)
  \/ TakeJob(w) \/ FindNothing(w) \/ FinishJob(w) \/ UntilIdle(w)

Next ==
  \/ UserStep \/ MainStep
  \/ \E w \in Workers : WorkerStep(w) \/ SpuriousWakeup(w)

Spec == Init /\ [][Next]_vars

(* Threads keep running and jobs return; a worker that keeps drawing       *)
(* random victims draws the main thread's queue in the end; a worker that  *)
(* keeps contending for the mutex gets it.                                 *)
FairSpec ==
  /\ Spec
  /\ WF_vars(MainStep)
  /\ \A w \in Workers :
       WF_vars(WorkerStep(w)) /\ SF_vars(TakeJob(w)) /\ SF_vars(Lock(w))

--------------------------------------------------------------------------------
(* Every variable keeps its type. *)
TypeOK ==
  /\ state \in [Workers -> {"ready", "running", "terminated"}]
  /\ pc \in [Workers -> {"absent", "begin", "loop", "sleep_test", "lock", "predicate",
                         "doze", "asleep", "woken", "try", "running", "until_idle",
                         "exited"}]
  /\ popped \in [Workers -> BOOLEAN]
  /\ mutex \in Workers \cup {None}
  /\ active \in 0 .. MaxJobs
  /\ queued \in 0 .. MaxJobs
  /\ main \in {"off", "starting", "user", "push", "notify", "helping",
               "terminating", "joining"}
  /\ next \in 0 .. NumWorkers
  /\ scheduled \in 0 .. MaxJobs
  /\ starts \in 0 .. MaxStarts
  /\ raced \in BOOLEAN

(* The jobs that left the queue, or have not reached it yet. *)
InHand == Cardinality({w \in Workers : pc[w] = "running"})
          + (IF main \in {"push", "helping"} THEN 1 ELSE 0)

(* active_jobs_, on which workers decide to sleep or to go on spinning,    *)
(* counts the jobs queued and in hand exactly, also after restarts that    *)
(* found the queue not empty.                                              *)
ActiveCountsWork == active = queued + InHand

(* Short of a race, no worker sleeps while there is work, or while it is   *)
(* to terminate, except until the notification about to be sent.           *)
NoLostWakeup ==
  ~raced => \A w \in Workers : pc[w] = "asleep" =>
    /\ active > 0 => main \in {"push", "notify"}
    /\ state[w] = "terminated" => main = "terminating"

(* Short of a race, every job is taken from the queue in the end, without  *)
(* the main thread's help, unless the program shuts down.                  *)
JobsAreTaken ==
  queued > 0 ~> (queued = 0 \/ main \in {"terminating", "joining", "off"} \/ raced)

(* Short of a race, shutdown returns. *)
ShutdownCompletes == main = "terminating" ~> (main = "off" \/ raced)

--------------------------------------------------------------------------------
(* "Shuts down the scheduler by waiting until all workers have completed   *)
(* the current job": it returns, whatever the workers are doing.           *)
ShutdownAlwaysCompletes == main = "terminating" ~> main = "off"

================================================================================
