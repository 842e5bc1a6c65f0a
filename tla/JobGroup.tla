------------------------------- MODULE JobGroup -------------------------------
(***************************************************************************)
(* Jobs from make_job to free_job: a main thread takes blocks from its     *)
(* part of the pool, schedules them as jobs, alone or in a JobGroup, and   *)
(* waits for them by helping; workers steal them.  A block is recycled     *)
(* when the pool has no fresh one left, and the queue may still hold stale *)
(* entries that point to it.  The queue is the main thread's, with the     *)
(* operations of AtomicQueue for as long as the ring has room, and what    *)
(* push does past that; the pool is JobPool's, whose free list keeps what  *)
(* it is given only while no two calls on it overlap.                      *)
(* The workers' own queues are never pushed to here and hold nothing but   *)
(* nullptr, so popping them and stealing from them changes nothing.        *)
(***************************************************************************)
EXTENDS AtomicQueue, FiniteSets

CONSTANTS CounterModulus,   \* 2^32: AtomicCounter holds a uint32_t
          MaxMakes          \* bound: jobs made over all

ASSUME GroupAssumption ==
  /\ IsFiniteSet(Jobs) /\ IsFiniteSet(Thieves)
  /\ Cardinality(Jobs) <= Capacity       \* pool_capacity, job_capacity_per_worker
  /\ MaxMakes \in Nat
  /\ CounterModulus \in Nat /\ CounterModulus > MaxMakes + 1

VARIABLES state,      \* state[j]: Job::state of the job in block j
          grouped,    \* grouped[j]: j's group_counter is set
          place,      \* place[j]: block j is in the allocator ("pool"), handed
                      \* out ("out") or on the free list ("listed")
          job_count,  \* JobGroup::job_count_
          active,     \* Scheduler::active_jobs_
          pc,         \* pc[p]: where thread p is
          making,     \* the job the main thread is scheduling
          grouping,   \* the main thread is in JobGroup::run
          waiting,    \* what the main thread waits for: Null, "group" or a job
          made,       \* calls of make_job so far (bound)
          former,     \* former[p]: what a steal p has begun may have read in the
                      \* oldest entry's slot before a push overwrote it
          early,      \* a job was entered before it was pushed (ghost)
          doubled,    \* a job was entered a second time (ghost); its block is then
                      \* given back twice, which place cannot tell from once
          exposed,    \* an empty pop has put a job back into the queue that a
                      \* thread had taken and not yet marked running (ghost)
          overrun,    \* a push has overwritten an entry of the queue (ghost)
          overlapped  \* two calls on the free list have been under way at once

jobVars == <<state, grouped, place, early, doubled, overlapped>>
mainVars == <<making, grouping, waiting, made>>
ringVars == <<former, exposed, overrun>>
vars == <<queueVars, ringVars, jobVars, mainVars, job_count, active, pc>>

Goto(p, label) == pc' = [pc EXCEPT ![p] = label]

(* Where try_run_job returns to: the wait loop or main_proc. *)
Home(p) == IF p = Owner THEN "wait" ELSE "idle"

(* AtomicCounter: the clamp of a decrement that wrapped is a second step. *)
Increment(c) == (c + 1) % CounterModulus
Decrement(c) == IF c = 0 THEN CounterModulus - 1 ELSE c - 1
Wrapped(c) == c = 0

Init ==
  /\ QueueInit
  /\ state = [j \in Jobs |-> "unknown"]
  /\ grouped = [j \in Jobs |-> FALSE]
  /\ place = [j \in Jobs |-> "pool"]
  /\ job_count = 0
  /\ active = 0
  /\ pc = [p \in Threads |-> IF p = Owner THEN "user" ELSE "idle"]
  /\ making = Null /\ grouping = FALSE /\ waiting = Null
  /\ made = 0
  /\ former = [p \in Thieves |-> {}]
  /\ early = FALSE /\ doubled = FALSE
  /\ exposed = FALSE /\ overrun = FALSE /\ overlapped = FALSE

-------------------------------------------------------------------------------
(* The main thread makes a job.  A stale entry lets a thread run a recycled *)
(* block as soon as it is ready, so each store is a step.                   *)

BeginRun(inGroup) ==
  /\ pc[Owner] = "user" /\ made < MaxMakes
  /\ made' = made + 1
  /\ grouping' = inGroup
  /\ Goto(Owner, "make")
  /\ UNCHANGED <<queueVars, ringVars, jobVars, active, making, waiting>>

(* Mutant: the group does not count the job. *)
GroupRunUncounted == BeginRun(TRUE) /\ UNCHANGED job_count

GroupRun == BeginRun(TRUE) /\ job_count' = Increment(job_count)

Run == BeginRun(FALSE) /\ UNCHANGED job_count

InPool == {j \in Jobs : place[j] = "pool"}
Listed == {j \in Jobs : place[j] = "listed"}

(* The threads in a call of free_job or free_all_this_thread.  The calls   *)
(* load and store the list without synchronisation.                        *)
OnList == {p \in Threads : pc[p] \in {"freeing", "reclaim"}}
Overlap == overlapped' = (overlapped \/ OnList # {})

(* Mutant: the allocator takes back jobs that are still out. *)
FreeAllJobs == {Jobs}

(* What the allocator may be given: the whole list, or after an overlap    *)
(* whatever part of it was not lost.                                       *)
FreeAll == IF overlapped THEN SUBSET Listed ELSE {Listed}

(* Only an exhausted allocator is given the free list. *)
BeginReclaim ==
  /\ pc[Owner] = "make" /\ InPool = {}
  /\ Overlap
  /\ Goto(Owner, "reclaim")
  /\ UNCHANGED <<queueVars, ringVars, state, grouped, place, early, doubled, mainVars,
                 job_count, active>>

(* The blocks of back go to the allocator, which hands out j. *)
Allocate(j, back) ==
  /\ j \in InPool \cup back
  /\ place' = [k \in Jobs |-> IF k = j THEN "out" ELSE IF k \in back THEN "pool" ELSE place[k]]
  /\ state' = [state EXCEPT ![j] = "ready"]
  /\ making' = j
  /\ Goto(Owner, "clear_group")
  /\ UNCHANGED <<queueVars, ringVars, grouped, early, doubled, overlapped, grouping, waiting,
                 made, job_count, active>>

MakeReady(j) ==
  \/ pc[Owner] = "make" /\ Allocate(j, {})
  \/ pc[Owner] = "reclaim" /\ \E back \in FreeAll : Allocate(j, back)

(* JobGroup::run dereferences the nullptr; the caller of make_job can see it. *)
MakeFails ==
  /\ pc[Owner] = "reclaim" /\ {} \in FreeAll
  /\ Goto(Owner, IF grouping THEN "crashed" ELSE "user")
  /\ UNCHANGED <<queueVars, ringVars, jobVars, mainVars, job_count, active>>

ClearGroup ==
  /\ pc[Owner] = "clear_group"
  /\ grouped' = [grouped EXCEPT ![making] = FALSE]
  /\ Goto(Owner, IF grouping THEN "set_group" ELSE "schedule")
  /\ UNCHANGED <<queueVars, ringVars, state, place, early, doubled, overlapped, mainVars,
                 job_count, active>>

SetGroup ==
  /\ pc[Owner] = "set_group"
  /\ grouped' = [grouped EXCEPT ![making] = TRUE]
  /\ grouping' = FALSE
  /\ Goto(Owner, "schedule")
  /\ UNCHANGED <<queueVars, ringVars, state, place, early, doubled, overlapped, making,
                 waiting, made, job_count, active>>

(* Mutant: active_jobs_ is not raised. *)
ScheduleUncounted ==
  /\ pc[Owner] = "schedule"
  /\ Goto(Owner, "push")
  /\ UNCHANGED <<queueVars, ringVars, jobVars, mainVars, job_count, active>>

ScheduleActive ==
  /\ pc[Owner] = "schedule"
  /\ active' = Increment(active)
  /\ Goto(Owner, "push")
  /\ UNCHANGED <<queueVars, ringVars, jobVars, mainVars, job_count>>

SchedulePush ==
  /\ pc[Owner] = "push"
  /\ Push(making)
  /\ making' = Null
  /\ Goto(Owner, "user")
  /\ UNCHANGED <<ringVars, jobVars, grouping, waiting, made, job_count, active>>

(* push never asks whether the ring is full: its first store overwrites an *)
(* entry, its second adds one all the same.                                *)
PushOverwrites ==
  /\ pc[Owner] = "push" /\ count >= Capacity
  /\ ring' = [ring EXCEPT ![At(count)] = making]
  /\ former' = [p \in Thieves |->
                  IF pc[p] = "idle" /\ At(count) = front
                  THEN former[p] \cup {ring[front]} ELSE former[p]]
  /\ overrun' = TRUE
  /\ Goto(Owner, "publish")
  /\ UNCHANGED <<front, count, got, exposed, jobVars, mainVars, job_count, active>>

PushPublishes ==
  /\ pc[Owner] = "publish"
  /\ count' = count + 1
  /\ making' = Null
  /\ Goto(Owner, "user")
  /\ UNCHANGED <<ring, front, got, ringVars, jobVars, grouping, waiting, made, job_count, active>>

-------------------------------------------------------------------------------
(* wait and wait_for_all *)

Wait(what) ==
  /\ pc[Owner] = "user"
  /\ waiting' = what
  /\ Goto(Owner, "wait")
  /\ UNCHANGED <<queueVars, ringVars, jobVars, making, grouping, made, job_count, active>>

WaitForAll == Wait("group")

(* A job can be waited for once it was made, and until it is recycled. *)
WaitForJob(j) == state[j] # "unknown" /\ Wait(j)

Satisfied ==
  IF waiting = "group" THEN job_count = 0 ELSE state[waiting] = "completed"

WaitReturns ==
  /\ pc[Owner] = "wait" /\ Satisfied
  /\ waiting' = Null
  /\ Goto(Owner, "user")
  /\ UNCHANGED <<queueVars, ringVars, jobVars, making, grouping, made, job_count, active>>

WaitHelps ==
  /\ pc[Owner] = "wait" /\ ~Satisfied
  /\ Goto(Owner, "pop")
  /\ UNCHANGED <<queueVars, ringVars, jobVars, mainVars, job_count, active>>

-------------------------------------------------------------------------------
(* try_run_job *)

(* A thief's compare_exchange fails once the oldest entry is another one. *)
FrontMoves == former' = [p \in Thieves |-> {}]

PopJob ==
  /\ pc[Owner] = "pop"
  /\ \/ PopNewest /\ UNCHANGED former
     \/ count = 1 /\ TakeOldest(Owner) /\ FrontMoves
  /\ Goto(Owner, "check")
  /\ UNCHANGED <<exposed, overrun, jobVars, mainVars, job_count, active>>

(* The stale content of the slot an empty pop exposes. *)
Stale == <<ring[front]>>

(* Nothing to pop, and nothing to steal from the workers. *)
PopNothing ==
  /\ pc[Owner] = "pop"
  /\ Phantom
  /\ exposed' = (exposed \/ \E p \in Threads : pc[p] \in {"check", "start"} /\ got[p] = Stale)
  /\ Goto(Owner, "wait")
  /\ UNCHANGED <<former, overrun, jobVars, mainVars, job_count, active>>

StealJob(p) ==
  /\ pc[p] = "idle"
  /\ Steal(p)
  /\ FrontMoves
  /\ Goto(p, "check")
  /\ UNCHANGED <<exposed, overrun, jobVars, mainVars, job_count, active>>

(* The thief read the slot before it was overwritten. *)
StealOverwritten(p) ==
  /\ pc[p] = "idle" /\ count > 0
  /\ \E c \in former[p] : got' = [got EXCEPT ![p] = <<c>>]
  /\ front' = At(1)
  /\ count' = count - 1
  /\ FrontMoves
  /\ Goto(p, "check")
  /\ UNCHANGED <<ring, exposed, overrun, jobVars, mainVars, job_count, active>>

(* Mutant: whatever was taken is run. *)
ReadyUnchecked(p) == \E j \in Jobs : got[p] = <<j>>

Ready(p) == \E j \in Jobs : got[p] = <<j>> /\ state[j] = "ready"

CheckReady(p) ==
  /\ pc[p] = "check" /\ Ready(p)
  /\ Goto(p, "start")
  /\ UNCHANGED <<queueVars, ringVars, jobVars, mainVars, job_count, active>>

DropUnready(p) ==
  /\ pc[p] = "check" /\ ~Ready(p)
  /\ Begin(p)
  /\ Goto(p, Home(p))
  /\ UNCHANGED <<ringVars, jobVars, mainVars, job_count, active>>

Start(p) ==
  /\ pc[p] = "start"
  /\ \E j \in Jobs :
       /\ got[p] = <<j>>
       /\ state' = [state EXCEPT ![j] = "running"]
       /\ early' = (early \/ j = making)
       /\ doubled' = (doubled \/ state[j] # "ready")
  /\ Goto(p, "running")
  /\ UNCHANGED <<queueVars, ringVars, grouped, place, overlapped, mainVars, job_count, active>>

Finish(p) ==
  /\ pc[p] = "running"
  /\ \E j \in Jobs : got[p] = <<j>> /\ state' = [state EXCEPT ![j] = "completed"]
  /\ Goto(p, "finished")
  /\ UNCHANGED <<queueVars, ringVars, grouped, place, early, doubled, overlapped, mainVars,
                 job_count, active>>

(* Mutant: the group is not told. *)
InGroupNever(p) == FALSE

InGroup(p) == \E j \in Jobs : got[p] = <<j>> /\ grouped[j]

GroupDecrement(p) ==
  /\ pc[p] = "finished" /\ InGroup(p)
  /\ job_count' = Decrement(job_count)
  /\ Goto(p, IF Wrapped(job_count) THEN "group_clamp" ELSE "free")
  /\ UNCHANGED <<queueVars, ringVars, jobVars, mainVars, active>>

GroupClamp(p) ==
  /\ pc[p] = "group_clamp"
  /\ job_count' = 0
  /\ Goto(p, "free")
  /\ UNCHANGED <<queueVars, ringVars, jobVars, mainVars, active>>

(* Mutant: the block never reaches the free list. *)
ListNothing(j) == UNCHANGED place

List(j) == place' = [place EXCEPT ![j] = "listed"]

BeginFree(p) ==
  /\ pc[p] = "free" \/ (pc[p] = "finished" /\ ~InGroup(p))
  /\ \E j \in Jobs : got[p] = <<j>> /\ List(j)
  /\ Overlap
  /\ Goto(p, "freeing")
  /\ UNCHANGED <<queueVars, ringVars, state, grouped, early, doubled, mainVars, job_count, active>>

EndFree(p) ==
  /\ pc[p] = "freeing"
  /\ Goto(p, "active_decrement")
  /\ UNCHANGED <<queueVars, ringVars, jobVars, mainVars, job_count, active>>

ActiveDecrement(p) ==
  /\ pc[p] = "active_decrement"
  /\ active' = Decrement(active)
  /\ Goto(p, IF Wrapped(active) THEN "active_clamp" ELSE Home(p))
  /\ Begin(p)
  /\ UNCHANGED <<ringVars, jobVars, mainVars, job_count>>

ActiveClamp(p) ==
  /\ pc[p] = "active_clamp"
  /\ active' = 0
  /\ Goto(p, Home(p))
  /\ UNCHANGED <<queueVars, ringVars, jobVars, mainVars, job_count>>

(* What a thread does with the job it has taken. *)
RunJob(p) ==
  \/ CheckReady(p) \/ DropUnready(p) \/ Start(p) \/ Finish(p)
  \/ GroupDecrement(p) \/ GroupClamp(p) \/ BeginFree(p) \/ EndFree(p)
  \/ ActiveDecrement(p) \/ ActiveClamp(p)

-------------------------------------------------------------------------------
(* What the main thread decides, and what the code then does for it. *)
UserStep == GroupRun \/ Run \/ WaitForAll \/ \E j \in Jobs : WaitForJob(j)

OwnerStep ==
  \/ \E j \in Jobs : MakeReady(j)
  \/ BeginReclaim \/ MakeFails \/ ClearGroup \/ SetGroup
  \/ ScheduleActive \/ SchedulePush \/ PushOverwrites \/ PushPublishes
  \/ WaitReturns \/ WaitHelps \/ PopJob \/ PopNothing
  \/ RunJob(Owner)

Next ==
  \/ UserStep \/ OwnerStep
  \/ \E p \in Thieves : StealJob(p) \/ StealOverwritten(p) \/ RunJob(p)

Spec == Init /\ [][Next]_vars

(* The main thread keeps running, and so does a worker that has a job: job *)
(* functions return.  Nothing is assumed of the workers' stealing: they    *)
(* may be asleep.                                                          *)
FairSpec ==
  /\ Spec
  /\ WF_vars(OwnerStep)
  /\ \A p \in Thieves : WF_vars(RunJob(p))

-------------------------------------------------------------------------------
(* Every variable keeps its type. *)
TypeOK ==
  /\ ring \in [Slots -> Contents] /\ front \in Slots /\ count \in Nat
  /\ got \in [Threads -> {<<>>} \cup {<<c>> : c \in Contents}]
  /\ former \in [Thieves -> SUBSET Contents]
  /\ state \in [Jobs -> {"unknown", "ready", "running", "completed"}]
  /\ grouped \in [Jobs -> BOOLEAN]
  /\ place \in [Jobs -> {"pool", "out", "listed"}]
  /\ job_count \in 0 .. (CounterModulus - 1)
  /\ active \in 0 .. (CounterModulus - 1)
  /\ pc \in [Threads -> {"user", "make", "reclaim", "clear_group", "set_group", "schedule",
                         "push", "publish", "crashed", "wait", "pop", "idle", "check",
                         "start", "running", "finished", "group_clamp", "free", "freeing",
                         "active_decrement", "active_clamp"}]
  /\ making \in Contents /\ grouping \in BOOLEAN
  /\ waiting \in Contents \cup {"group"}
  /\ made \in 0 .. MaxMakes
  /\ early \in BOOLEAN /\ doubled \in BOOLEAN
  /\ exposed \in BOOLEAN /\ overrun \in BOOLEAN /\ overlapped \in BOOLEAN

(* No block has been recycled yet. *)
Fresh == made <= Cardinality(Jobs)

(* try_run_job executes a job once (Worker.hpp): no job's function is      *)
(* entered twice.  The code fails this as soon as an empty pop puts a job  *)
(* back into the queue before the thread that took it has marked it        *)
(* running.                                                                *)
ExecutedOnce == Fresh => ~doubled

(* That is the only way, as long as no block has been recycled: otherwise  *)
(* no job is entered twice, nor before it was pushed, although empty pops  *)
(* keep putting jobs that were already taken back into the queue.          *)
AtMostOnce == Fresh /\ ~exposed => ~doubled /\ ~early

(* A thread is running the job in block j, or has not yet given it back. *)
Holds(p, j) ==
  got[p] = <<j>> /\ pc[p] \in {"running", "finished", "group_clamp", "free"}

(* A block is recycled only when its job has been completed and the thread *)
(* that ran it is done with it, whatever stale entries point to it and     *)
(* whatever becomes of the free list.                                      *)
RecycledOnlyWhenDone ==
  ~doubled =>
    \A j \in Jobs : place[j] # "out" =>
      /\ state[j] \in {"unknown", "completed"}
      /\ \A p \in Threads : ~Holds(p, j)

(* Until two calls on the free list have overlapped, make_job finds no     *)
(* block only when each holds a job that is still to run or that a thread  *)
(* has not given back yet.                                                 *)
FailsOnlyWhenInUse ==
  [][MakeFails /\ ~doubled /\ ~overlapped =>
       \A j \in Jobs : state[j] = "ready" \/ \E p \in Threads : Holds(p, j)]_vars

(* wait_for_all returns only when every job the group has run is done, as  *)
(* long as no job was entered too early or twice.                          *)
GroupWaitCoversAll ==
  [][(WaitReturns /\ waiting = "group" /\ ~early /\ ~doubled) =>
        \A j \in Jobs : grouped[j] => state[j] = "completed"]_vars

(* A worker goes to sleep on active_jobs_ = 0: by then no job is waiting   *)
(* in a queue or in a thread's hands, and none is running.                 *)
ActiveCoversWork ==
  active = 0 /\ ~early /\ ~doubled =>
    \A j \in Jobs : state[j] \in {"ready", "running"} =>
      making = j /\ pc[Owner] \in {"clear_group", "set_group", "schedule"}

(* A wait ends, even if no worker ever steals and even if a job ran twice, *)
(* unless a job was entered before its group was set, a block was given    *)
(* back twice and then recycled, or a push overwrote an entry.             *)
WaitsEnd ==
  pc[Owner] = "wait" ~>
    (pc[Owner] = "user" \/ early \/ overrun \/ (doubled /\ ~Fresh))

===============================================================================
