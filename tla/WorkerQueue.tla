------------------------------ MODULE WorkerQueue ------------------------------
(***************************************************************************)
(* Jobs that schedule jobs.  A worker pops its own queue before anything   *)
(* was ever pushed there, each time through try_run_job, and every such    *)
(* pop lowers bottom_ by one: below zero, where an unsigned bottom_ is     *)
(* larger than any top_.  Then it steals a job elsewhere, whose function   *)
(* runs a JobGroup and waits for it on this very queue.                    *)
(*                                                                         *)
(* The owner is that worker, the thieves are all other threads; what they  *)
(* do elsewhere is not seen here.  Each job is made once, and one function *)
(* at a time waits on the queue.                                           *)
(***************************************************************************)
EXTENDS FixedWorkStealingQueue, FiniteSets, Sequences

CONSTANT CounterModulus    \* 2^32: AtomicCounter holds a uint32_t

ASSUME WorkerQueueAssumption ==
  /\ ~Disciplined
  /\ IndexModulus % Capacity = 0     \* as with the library's capacity, 4096
  /\ IndexModulus > 2 * MaxIndex + 2 \* bound: above and below zero stay apart
  /\ IsFiniteSet(Jobs)
  /\ Cardinality(Jobs) <= Capacity   \* bound: no more pushes in all than slots
  /\ CounterModulus \in Nat /\ CounterModulus > Cardinality(Jobs)

VARIABLES state,      \* state[j]: Job::state
          stage,      \* stage[p]: where p is in try_run_job
          function,   \* what the job function the worker has stolen is doing
          job_count,  \* job_count_ of the group in that function
          stack,      \* what the owner has pushed and not popped (ghost)
          misled      \* a thief has taken bottom_ below zero for a large one, or a
                      \* missed pop has exposed a job a thread has yet to start (ghost)

jobVars == <<state, stage, function, job_count, stack, misled>>
allVars == <<vars, jobVars>>

(* bottom_ has been lowered more often than raised. *)
BelowZero(b) == b > IndexModulus \div 2

GroupInit ==
  /\ Init
  /\ state = [j \in Jobs |-> "unknown"]
  /\ stage = [p \in Threads |-> "look"]
  /\ function = "none"
  /\ job_count = 0
  /\ stack = <<>>
  /\ misled = FALSE

-------------------------------------------------------------------------------
(* The function of a job the worker has stolen from another queue *)

EnterFunction ==
  /\ function = "none" /\ stage[Owner] = "elsewhere"
  /\ function' = "runs_jobs"
  /\ stage' = [stage EXCEPT ![Owner] = "look"]
  /\ UNCHANGED <<vars, state, job_count, stack, misled>>

(* Mutant: the job is not counted. *)
GroupRunUncounted(j) ==
  /\ function = "runs_jobs" /\ state[j] = "unknown"
  /\ PushSlot(j)
  /\ state' = [state EXCEPT ![j] = "ready"]
  /\ stack' = Append(stack, j)
  /\ UNCHANGED <<stage, function, job_count, misled>>

(* JobGroup::run.  Nobody else knows of the job before it is pushed. *)
GroupRun(j) ==
  /\ function = "runs_jobs" /\ state[j] = "unknown"
  /\ PushSlot(j)
  /\ state' = [state EXCEPT ![j] = "ready"]
  /\ job_count' = (job_count + 1) % CounterModulus
  /\ stack' = Append(stack, j)
  /\ UNCHANGED <<stage, function, misled>>

(* Mutant: bottom_ is not raised. *)
GroupRunPushedLow ==
  /\ pc[Owner] = "push_bottom"
  /\ Return(Owner)
  /\ UNCHANGED <<top, bottom, slots, target, result, jobVars>>

GroupRunPushed == PushBottom /\ UNCHANGED jobVars

WaitForAll ==
  /\ function = "runs_jobs" /\ pc[Owner] = "idle"
  /\ function' = "waits"
  /\ UNCHANGED <<vars, state, stage, job_count, stack, misled>>

(* The function returns: its worker goes back to its main loop. *)
WaitReturns ==
  /\ function = "waits" /\ pc[Owner] = "idle" /\ stage[Owner] = "look" /\ job_count = 0
  /\ function' = "none"
  /\ UNCHANGED <<vars, state, stage, job_count, stack, misled>>

-------------------------------------------------------------------------------
(* try_run_job *)

(* After a pop in vain the owner tries to steal elsewhere. *)
Failed(p) == IF p = Owner THEN "elsewhere" ELSE "look"

(* What pop or steal has returned is looked at next. *)
Returned(p) ==
  stage' = [stage EXCEPT ![p] = IF pc'[p] # "idle" THEN "look"
                                ELSE IF result'[p] THEN "check" ELSE Failed(p)]

(* A missed pop is about to expose slot t, whose job a thread still holds. *)
Exposes ==
  /\ pc[Owner] = "pop_bottom" /\ ~result[Owner]
  /\ \E p \in Threads : stage[p] \in {"check", "start"} /\ target[p] = slots[Slot(t[Owner])]

(* The owner gives up the newest entry, if pop lets it have one. *)
Popped == IF stack = <<>> THEN stack ELSE SubSeq(stack, 1, Len(stack) - 1)

PopStep ==
  /\ stage[Owner] = "look" /\ function # "runs_jobs"
  /\ (pc[Owner] = "idle" /\ function = "waits") => job_count > 0
  /\ \/ PopDecrement /\ UNCHANGED stack
     \/ (PopTaken \/ PopWon) /\ stack' = Popped
     \/ (PopLast \/ PopLost \/ PopEmpty \/ PopBottom) /\ UNCHANGED stack
  /\ Returned(Owner)
  /\ misled' = (misled \/ Exposes)
  /\ UNCHANGED <<state, function, job_count>>

FindNothingElsewhere ==
  /\ stage[Owner] = "elsewhere"
  /\ stage' = [stage EXCEPT ![Owner] = "look"]
  /\ UNCHANGED <<vars, state, function, job_count, stack, misled>>

StealStep(p) ==
  /\ stage[p] = "look"
  /\ ThiefStep(p)
  /\ Returned(p)
  /\ misled' = (misled \/ (pc'[p] = "steal_slot" /\ BelowZero(bottom)))
  /\ UNCHANGED <<state, function, job_count, stack>>

Took(p, j) == target[p] = j

CheckReady(p) ==
  /\ stage[p] = "check"
  /\ stage' = [stage EXCEPT ![p] =
                 IF \E j \in Jobs : Took(p, j) /\ state[j] = "ready" THEN "start" ELSE Failed(p)]
  /\ UNCHANGED <<vars, state, function, job_count, stack, misled>>

Start(p) ==
  /\ stage[p] = "start"
  /\ \E j \in Jobs : Took(p, j) /\ state' = [state EXCEPT ![j] = "running"]
  /\ stage' = [stage EXCEPT ![p] = "running"]
  /\ UNCHANGED <<vars, function, job_count, stack, misled>>

Finish(p) ==
  /\ stage[p] = "running"
  /\ \E j \in Jobs : Took(p, j) /\ state' = [state EXCEPT ![j] = "completed"]
  /\ stage' = [stage EXCEPT ![p] = "finished"]
  /\ UNCHANGED <<vars, function, job_count, stack, misled>>

(* Mutant: the counter is signed and not repaired. *)
GroupDecrementSigned(p) ==
  /\ stage[p] = "finished"
  /\ job_count' = job_count - 1
  /\ stage' = [stage EXCEPT ![p] = "look"]
  /\ UNCHANGED <<vars, state, function, stack, misled>>

(* A decrement at zero wraps; its repair is a second step. *)
GroupDecrement(p) ==
  /\ stage[p] = "finished"
  /\ job_count' = IF job_count = 0 THEN CounterModulus - 1 ELSE job_count - 1
  /\ stage' = [stage EXCEPT ![p] = IF job_count = 0 THEN "clamp" ELSE "look"]
  /\ UNCHANGED <<vars, state, function, stack, misled>>

GroupClamp(p) ==
  /\ stage[p] = "clamp"
  /\ job_count' = 0
  /\ stage' = [stage EXCEPT ![p] = "look"]
  /\ UNCHANGED <<vars, state, function, stack, misled>>

RunJob(p) == CheckReady(p) \/ Start(p) \/ Finish(p) \/ GroupDecrement(p) \/ GroupClamp(p)

-------------------------------------------------------------------------------
GroupNext ==
  \/ EnterFunction \/ (\E j \in Jobs : GroupRun(j)) \/ GroupRunPushed
  \/ WaitForAll \/ WaitReturns \/ PopStep \/ FindNothingElsewhere
  \/ \E p \in Thieves : StealStep(p)
  \/ \E p \in Threads : RunJob(p)

GroupSpec == GroupInit /\ [][GroupNext]_allVars

-------------------------------------------------------------------------------
(* Every variable of this module keeps its type. *)
GroupTypeOK ==
  /\ state \in [Jobs -> {"unknown", "ready", "running", "completed"}]
  /\ stage \in [Threads -> {"look", "elsewhere", "check", "start", "running", "finished",
                             "clamp"}]
  /\ function \in {"none", "runs_jobs", "waits"}
  /\ job_count \in 0 .. (CounterModulus - 1)
  /\ stack \in Seq(Jobs)
  /\ misled \in BOOLEAN

(* While bottom_ is below zero nothing is lost: whatever the thieves do,   *)
(* the owner finds the jobs it has pushed right under bottom_, the newest  *)
(* on top.                                                                 *)
NestedJobsKept ==
  pc[Owner] = "idle" /\ BelowZero(bottom) =>
    \A k \in 0 .. (Len(stack) - 1) :
      slots[Slot(bottom - 1 - k)] = stack[Len(stack) - k]

(* Once bottom_ has come up again, entries pushed below zero are out of    *)
(* reach until the ring has turned; they are not overwritten before.       *)
NoJobOverwritten ==
  ~misled => \A j \in Jobs : state[j] = "ready" =>
    \/ \E i \in DOMAIN slots : slots[i] = j
    \/ \E p \in Threads : target[p] = j /\ stage[p] \in {"check", "start"}

(* The wait covers the group's jobs as long as no thread was misled. *)
WaitCoversUnlessMisled ==
  [][WaitReturns /\ ~misled => \A j \in Jobs : state[j] \in {"unknown", "completed"}]_allVars

(* "Waits for all jobs in the group to finish execution", also in a job's  *)
(* function.                                                               *)
GroupWaitCoversAll ==
  [][WaitReturns => \A j \in Jobs : state[j] \in {"unknown", "completed"}]_allVars

===============================================================================
