# A TLA+ model of Jobrocket

Jobrocket is a C++14 library that runs short tasks ("jobs") on worker threads:
per-thread lock-free work-stealing queues, a pool the jobs are recycled
through, groups of jobs that can be waited for, and a scheduler that starts,
wakes and stops the workers. This directory models its core
(`src/Source/Jobrocket`), model-checks the models with TLC and proves the central
results with TLAPS.

## 1. Inventory

| Component | State | Operations | Interacts with |
|---|---|---|---|
| `FixedWorkStealingQueue` | `top_`, `bottom_` (unsigned 64 bit), `jobs_` | `push`, `pop` by the owning thread, `steal` by any | called by `Worker` |
| `AtomicCounter` | `counter_` (unsigned 32 bit) | `load`, `store`, `increment`, `decrement` | one per group, one in the scheduler |
| `FixedPoolAllocator` | `memory_`, `next_`, `blocks_initialized_`, the links in the free blocks | `allocate`, `free`, `reset` | called by `JobPool` |
| `JobPool` | one allocator and one free list per thread index | `allocate_job`, `free_all_this_thread`, `free_job`, `reset` | jobs point back to it; any worker puts a finished job on its maker's list |
| `Job` | `state`, `group_counter`, `source_pool`, `worker_alloc` | `execute`, `is_ready` | made by one thread, run by another |
| `JobGroup` | `job_count_` | `run`, `wait_for_all` | counts down from whichever thread ran the job |
| `Worker` | its thread, its queue, `state_` | `start`, `terminate`, `join`, `schedule_job`, `try_run_job`, `main_proc` | shares a mutex, a condition variable and `active_jobs_` with all the others |
| `Scheduler` | `workers_`, `active_jobs_`, `main_thread_map_`, `next_main_` | `startup`, `shutdown`, `schedule_job`, `register_main_thread`, `thread_local_worker` | the public functions of `Jobrocket.cpp` |

Also there: `xoroshiro128`, which picks the victim of a steal; the templates that
unpack a tuple into a call; error messages; tests; examples.

What is hard in it, and what makes it correct:

* **The queue.** Owner and thieves race for the last entry with plain loads,
  stores and one `compare_exchange`. Every entry must reach exactly one thread, and a
  thief must hold the job its claimed entry contains, though it read the
  slot before it won the claim.
* **Jobs in flight.** `is_ready`, the store of `running`, the function, the store
  of `completed` and two counter decrements are separate steps of whichever thread
  took the job. A job must run once; `wait_for_all` must return after the last job
  and not before; `active_jobs_` must be above zero while there is work. Blocks are
  recycled while old queue entries still point at them.
* **Jobs that schedule jobs.** A worker has popped its own queue, in vain, before
  a job it runs pushes there. `bottom_` is unsigned and below zero by then.
* **Sleeping and waking.** Workers decide to sleep on `active_jobs_` and `state_`,
  both changed without the mutex. No wakeup may be lost, `shutdown` must return.
* **The pool.** Blocks carry their own free list; other threads return finished
  jobs through unsynchronised memory. No job may be recycled while it is in use,
  none may be lost.
* **Threads, queues and allocators.** `push` and `pop` are for the owner of the queue
  alone, and a part of the pool is for one thread alone: every thread must be given a
  worker and an index of its own, and the pool must have as many.

`PROJECT.json` lists the hazards line by line.

## 2. Modules

    AtomicQueue <--implements-- FixedWorkStealingQueue    FixedWorkStealingQueue_proofs
        ^ EXTENDS                   ^ EXTENDS
    JobGroup                    WorkerQueue (MCWorkerQueue)
                                             JobGroup_proofs, WorkerQueue_proofs
    FixedPoolAllocator <--implements-- JobPool    FixedPoolAllocator_proofs, JobPool_proofs
    Scheduler                                     Scheduler_proofs
    ThreadRegistry <--EXTENDS-- PoolIndex (MCRegistry)
                                                  ThreadRegistry_proofs, PoolIndex_proofs

**FixedWorkStealingQueue.** One action per access to shared memory: `push` is
`PushSlot`, `PushBottom`; `pop` is `PopDecrement`, then by what `top_` turned out to
be `PopTaken`, or `PopLast` and a won or lost race, or `PopEmpty`, and at last
`PopBottom`; `steal` is `StealTop`, `StealBottom`, `StealSlot`, `StealCas`. Indices are
numbers modulo `IndexModulus`. The constant `Disciplined` states the contract under which
the class works: there is room for a push (the class comment: overwriting is
"unlikely"), and the owner does not pop before it has pushed. The thread that
runs `main()` and the test fixtures keep it; workers do not (WorkerQueue).

**AtomicQueue** is what the queue promises to an owner that keeps the contract:
`Push`, `Pop`, `Steal`, each in one step, on a ring. It has one more action, `Phantom`: a
`pop` that finds nothing adds an entry, whose content is whatever the slot held. That is
what the code does (section 6), and a specification without it would not be implemented.

**JobGroup** composes jobs, groups, both counters, `try_run_job`, the waits and the
recycling of blocks with `AtomicQueue`. `UserStep` is what the program decides (run a job
alone or in a group, wait for a job or for the group); `OwnerStep` and `RunJob` are what
the library then does. A main thread schedules and helps; workers steal. Making a job is
one step per store that others can see, for a stale queue entry lets a thread run the
recycled block the moment its state is `ready`: `MakeReady`, `ClearGroup`, `SetGroup`,
`ScheduleActive`, `SchedulePush`. A call on the free list takes two steps, so that calls can
overlap: `BeginFree`, `EndFree` for `free_job`, `BeginReclaim` and `MakeReady` or `MakeFails`
for `free_all_this_thread` in an exhausted allocator. Once two have been under way at once
(`overlapped`) the list may have lost any of what it was given, and `FreeAll` gives back any
part of it; what happens load by load is JobPool's, whose `OneHolder` and
`KeepsAllocatorContract` are why it is a part of it and not something else. There may be as
many blocks as slots, as the library has it (4096 of each), so that with the entries empty pops
add `push` can meet a full ring: `PushOverwrites` and `PushPublishes` are its two stores then,
and a thief that read the slot before the first of them (`former`) takes what was there
(`StealOverwritten`). When `JobGroup::run` dereferences the nullptr of an exhausted pool the
main thread is `"crashed"`.

**WorkerQueue** is a worker's own queue, `FixedWorkStealingQueue` with
`Disciplined = FALSE`, under jobs that run groups. The owner pops as often as it likes
(`PopStep`, `FindNothingElsewhere`); now and then what it steals elsewhere is a job whose
function runs a `JobGroup` and waits for it on this very queue (`EnterFunction`, `GroupRun`,
`WaitForAll`, `WaitReturns`). Thieves are all other threads; what they do elsewhere
changes nothing here. The group's counter wraps and is repaired in two steps
(`GroupDecrement`, `GroupClamp`). A job is made once, one function at a time waits, and no more
jobs are pushed over the queue's whole life than it has slots.

**Scheduler** is the life of the worker threads. `Startup` .. `ShutdownReturns` are the
main thread's; `Begin` .. `UntilIdle` are `main_proc`: the test at its head, the predicate
under the mutex, the wait, and the inner loop. Failing the predicate and entering
the wait set are two steps (`PredicateFails`, `Sleep`), for neither
`notify_all` nor the changes it announces hold the mutex. The job queue is a number.
`popped` records that a worker has popped its own empty queue, after which
`empty()` is false for good: until then a worker cannot go to sleep. `Shutdown` may be
called again, and without a startup, as the destructor does.

**ThreadRegistry** is `startup`'s layout of `workers_`, `register_main_thread` and
`thread_local_worker`, which remembers the worker it found for good. **PoolIndex**
composes it with the pool the public `startup` creates, with one index per thread it
reckons with, and with `get_index`, whose `next_index++` is a load and a store
(`LoadIndex`, `StoreIndex`) and whose result a thread keeps for good.

**FixedPoolAllocator** has a block's first word as `link[b]`; `Write` is the client
using its block, link included. Pointers are block numbers, `End` (one past
the pool), a null and a foreign pointer.

**JobPool** is one index of the pool over the allocator, one action per load
and store of the free list. The two stores of `push` may happen in either order,
since the compiler may choose it. A thread that has read an index past the end of
`elements_` takes no further step: what would follow is undefined. `Reset` is what
`shutdown` does to index 0.

### Assumptions common to all

* Shared memory is sequentially consistent. The queue's fences order the accesses
  that matter on the platforms it is built for; reorderings beyond them
  are not modelled.
* `counter_` of the queue is written and never read: no variable.
* `std::thread`, `std::mutex`, `std::condition_variable` do what the standard says;
  a wait may wake up spuriously.

## 3. Runs

| Run | Checks | Bounds |
|---|---|---|
| `queue_is_atomic` | `QueueInv`, `StealClaimsCurrentEntry`, `PopMissesOnlyWhenEmpty`, `ImplementsAtomicQueue` | 2 jobs, 2 thieves, 2 slots, indices to 6 |
| `group` | `TypeOK`, `AtMostOnce`, `RecycledOnlyWhenDone`, `ActiveCoversWork`, `GroupWaitCoversAll`, `FailsOnlyWhenInUse`, `WaitsEnd` | 3 jobs made in 2 blocks, 1 worker, 2 slots |
| `run_twice` (violated) | `ExecutedOnce` | 2 jobs, 1 worker, 2 slots |
| `worker_queue` | `GroupTypeOK`, `NestedJobsKept`, `NoJobOverwritten`, `WaitCoversUnlessMisled` | 3 jobs, 2 thieves, 4 slots, indices 5 either side of zero |
| `nested_wait_early` (violated) | `GroupWaitCoversAll` | 1 job, 1 thief, 2 slots |
| `scheduler` | `TypeOK`, `ActiveCountsWork`, `NoLostWakeup`, `JobsAreTaken`, `ShutdownCompletes` | 2 workers, 3 jobs, 2 starts |
| `shutdown_hangs` (violated) | `ShutdownAlwaysCompletes` | 2 workers, 1 job |
| `registry` | `OneOwnerPerQueue`, `RegistryInv`, `IndexInPool`, `OneThreadPerIndex` | 4 threads, up to 2 workers and 2 stated main threads |
| `registry_auto` (violated) | `OneOwnerPerQueue` | 4 threads, 2 workers |
| `allocator` | `TypeOK`, `FreeListIntact`, `CountsHeldBlocks`, `AllocatesFreeBlock` | 4 blocks |
| `job_pool` | `TypeOK`, `UnfinishedStayAllocated`, `OneHolder`, `KeepsAllocatorContract`, `NoJobLost`, `ListHasRoom`, `FailsOnlyWhenAllUnfinished` | 3 jobs, 2 threads |
| `job_pool_loses` (violated) | `NoJobEverLost` | 2 jobs, 2 threads |

Why the bounds are enough. Two slots make the ring turn three times within six
indices, so a thief can sleep through a whole turn; two thieves and the owner are
all the parties that can meet over one entry. In `JobGroup` two blocks let one job be
alone and one in a group, and the third job made recycles a block that a stale entry still
points to. The main thread runs jobs as the worker does, so the two can hold one job, give it
back at once, or repair one counter together. Within three makes a push can overwrite an entry,
but none that a wait still needs (`WaitsEnd` then holds without `overrun`, too); a fourth
make, which can lose a job that way, has 8.6 million states and is left out. Section 5 proves
every safety property of the run for any number of workers, blocks and makes; only `WaitsEnd`
rests on these bounds.
In `WorkerQueue` five early pops are more than the ring has slots, and three jobs let a
thief take from the middle of what the owner has pushed. Two workers are one that sleeps
and one that does not; two starts show what a shutdown leaves behind. Four blocks make
the free list long enough to be cut in the middle. `JobGroup`'s counters are modulo 8 and
wrap where the code's do, at zero; the queue's indices are modulo 16, a multiple of the
slots as 2^64 is of 4096. What the small instances cannot show about larger ones is the
business of section 5.

Assumptions a run makes about the environment are constants or ghosts, by name. A property
that says "unless" one of them does not cover the hazard it names; section 6 says what
happens then, and where a run shows it.

* `Disciplined`: see section 2.
* `exposed` (`group`): an empty pop has put a job back into the queue that a thread had
  taken and not yet marked running. `AtMostOnce` holds short of it; `run_twice` shows that it
  comes about and what follows.
* `doubled`, `early` (`JobGroup`): a job was entered a second time, or before it was
  pushed, through a stale entry that pointed to its recycled block. `AtMostOnce` excludes
  both until blocks are recycled and short of `exposed`. `RecycledOnlyWhenDone` and
  `FailsOnlyWhenInUse` exclude `doubled`, `GroupWaitCoversAll` and `ActiveCoversWork` both.
  `WaitsEnd` excludes `early`, and `doubled` once blocks are recycled.
* `overrun` (`group`): a push has overwritten an entry, whose job may then be
  lost. The safety properties do not exclude it.
* `misled` (`worker_queue`): a thief took a `bottom_` below zero for a large one, or a missed
  pop exposed a job a thread had yet to start. `NestedJobsKept` and `GroupTypeOK` do not need
  it; `nested_wait_early` shows the first of the two.
* `raced` (`scheduler`): a job was counted, or a worker terminated, while a worker was
  between its predicate and its sleep, or a worker was terminated before it had begun. The
  properties about waking say "short of a race"; `ActiveCountsWork` does not need to.
  `shutdown_hangs` shows it.
* `overlapped`: two calls have been under way at once: on the free list (`group`,
  `job_pool`; `job_pool_loses` shows it), or in `registry` two first calls of `get_index`.
  `RecycledOnlyWhenDone`, `UnfinishedStayAllocated`, `OneHolder`, `KeepsAllocatorContract` and
  `IndexInPool` hold regardless.

The scheduler may stop when the program has used up its bounds or hangs, the main thread of
`JobGroup` when it has crashed, a program of `PoolIndex` when everybody is registered and
has an index, one of `JobPool` after an index out of range, one of `WorkerQueue` when
the indices have reached their bounds: these runs do not check for deadlock. The others do.

## 4. Fairness

`JobGroup`: the main thread keeps taking the steps the library takes for it, and so
does a worker that holds a job (job functions return). Nothing is assumed of a worker's
stealing, since it may be asleep. `Scheduler`: threads keep running; a worker that keeps
drawing random victims draws the main thread's queue in the end (strong fairness of
`TakeJob`: the generator does not avoid one index for ever); a worker that contends
for the mutex again and again gets it (strong fairness of `Lock`). Spurious wakeups
are possible and never needed. Program decisions (`UserStep`) have no fairness.
`WorkerQueue` states none: a waiting worker moves the indices with every pop, and a
bound on them would end every wait by itself.

## 5. Proofs

For every value of the constants that satisfies the named assumptions:

* **FixedWorkStealingQueue_proofs.** `TypeCorrect` needs no contract. Under
  `Disciplined`: `QueueInvariant`, `StealClaimsEntries`, `PopMisses`, and `Implementation`: the
  interleaved accesses implement `AtomicQueue`, with `front = top_ % capacity_` and `count`
  the entries as the owner sees them. The properties alone are not inductive. `QueueInv` adds,
  for each place in `push` and `pop`, how `bottom_` stands to `top_`
  (`OwnerInv`: in the middle of a pop `bottom_` may be one below `top_`), and that what a thief read is
  harmless when stale: `t[p] <= top`, and if it is still equal, the entry is
  still there and the slot unchanged (`ThiefInv`, `StealClaimsCurrentEntry`). The latter rests on the
  room the contract leaves: a push cannot reach the slot of an entry
  still in the queue (`SlotsDistinct`). The refinement goes action by action (`OwnerRefines`,
  `ThiefRefines`); `PopBottom` after a miss maps to `Phantom`, and most
  loads map to stutters.
* **JobGroup_proofs.** All of it assumes `Cardinality(Jobs) <= Capacity`, that a thread's part
  of the pool has no more blocks than its queue has slots (`GroupAssumption`; the library's
  constants are equal), and none of it that pushes find room, that threads do not pause or
  that the free list keeps what it is given.
  `RecyclesOnlyDone` and `FailsOnlyInUse` rest on `BlocksInv`: short of a
  second entry, a block that is out holds a job that is ready or in the hands of exactly one
  thread, whose place in `try_run_job` determines the job's state, and nobody works on a
  block that is not out. `WaitCoversGroup` and `ActiveIsExact` add `CountInv`, which says what
  each counter counts: `job_count_` the group's jobs that are ready, running or
  finished and not yet subtracted, plus one while `run` is about to make the next;
  `active_jobs_` the blocks that are out and counted, plus the threads
  that have given their block back and are about to subtract it. It follows that no decrement wraps
  (`ClampCount`), and each step moves a counter and its set together. The other
  theorems speak of the time before a block is recycled. `RoomInv` counts: the entries of the
  queue, a job about to be pushed included, are no more than the blocks used, and those no
  more than the calls of `make_job`. An empty pop adds an entry only to an empty queue, and
  then some block has been used, because whoever waits waits for a job that was made
  (`WaitsForSome`); so the ring has room for every push (`FreshRingHasRoom`) and a fresh block
  is left for every call (`RoomMakes`). A block never made a job of is nowhere, stale slots
  included (`Unseen`). `RunsAtMostOnce` adds `OnceInv`: until an empty pop exposes a job that was
  taken and not started, a ready job is in one place (`OnePlace`), one entry of the ring or the
  hands of one thread that has yet to mark it; the exposing pop is the only step that could
  change that (`OncePhantom`). So a job runs twice in the way `run_twice` shows or not
  at all. `FreshWaitsCoverGroup` and `FreshActiveIsExact` combine it with the counters: short of
  `exposed`, their "unless" cannot come about.
* **WorkerQueue_proofs.** `NestedJobsAreKept`, for an owner that does not keep the contract.
  `NearZero` follows the indices: `top_` never goes below zero, so a pop that has taken
  `bottom_` there never races, and once `bottom_` has come up above zero by an empty
  pop it does not go back below. `Kept` is the property in the midst of push and pop. A
  push does not overwrite what lies below it because two indices less than a turn apart have
  different slots, below zero too (`SlotsApart`), and the stack crosses zero unharmed
  because the modulus is a multiple of the slots (`SlotWraps`); that the pushes of the queue's whole life do not
  fill the ring is the assumption `Cardinality(Jobs) <= Capacity`. `GroupTypeCorrect` keeps the counter in its
  32 bits, the largest of which it holds between a decrement that wraps and its repair.
  `JobsAreNotOverwritten` and `WaitCoversNested` rest on `TidyInv`: until a thread is misled the
  queue, the threads' hands and the group's counter agree about every job. `bottom_` is
  either low, and then no thief has ever taken anything, or it has come up for good
  (`Low`, `High`). Above zero the worker keeps the contract without knowing it
  (`HighContract`: the queue never holds more entries than jobs were made, a phantom
  included, and a pop never starts at zero), so the queue's own invariant holds again:
  `ContractRegained`, and `ActsAtomically`, each step is one of `AtomicQueue`. An entry of the queue
  is then in nobody's hands (`Exclusive`): a job is pushed once and so lies in one slot, taking it
  removes that entry (`EntriesDiffer`), and a phantom that brings back a job somebody still holds is what
  `misled` records. So each job is started once and `job_count_` counts exactly the
  jobs not yet done (`Exact`); a function therefore begins with no job waiting, and all those it pushes
  lie less than a turn behind `bottom_` (`InReach`).
* **FixedPoolAllocator_proofs.** Under `Disciplined` (the client frees what it holds, or
  pointers `free` refuses): `PoolInvariant`. The invariant says there is a sequence of distinct,
  unallocated blocks, as long as the counter says, that the links follow; each step
  exhibits the new sequence. `PoolTypeCorrect`, `FreeListStaysIntact`, `AllocationsAreFree` and
  `CounterIsExact` follow.
* **JobPool_proofs.** `AllocatorContract` discharges that assumption: the pool frees only what
  is allocated, though its free list is not synchronised. The reason is `OneHolder`: a job to be
  recycled is in one element of the list or in the hands of one thread, never in two
  places, since the owner clears an element in the step that frees its job and every `free_job` is for
  another job. It is inductive with the allocator's own invariant, whose theorems are
  used through `INSTANCE`. `NoneIsLost`, `FreeListHasRoom` and `FailsOnlyExhausted` speak of calls
  that do not overlap. `SoloInv` says that the elements filled are then those below
  `Height`, which is `next_` corrected by what the call under way has done of its two stores, and that each
  recyclable job is among them or in the hands of that call. That the list has room is the
  pigeonhole principle: it holds different jobs, and not the one that is being freed. That a
  failed allocation means no free block uses the allocator's `CounterIsExact`, which the refinement
  carries over (`CountInvariant`).
* **Scheduler_proofs.** `ActiveIsExact`: `active_jobs_` is the jobs queued and in hand, for any number
  of workers, jobs and restarts. `NoWakeupIsLost` adds what a worker that is about to sleep
  has seen (`DozesRightly`).
* **ThreadRegistry_proofs.** `OneOwner`, for a program that starts the scheduler once and states
  how many main threads it has: this is the precondition
  of the queue's proofs. `RegistryInv` says that the indices handed out are
  distinct, below `next_main_` and below main()'s, and that a thread's remembered
  worker is the one it registered or main()'s.
* **PoolIndex_proofs.** For the same programs, `IndexStaysInPool`: however first calls
  overlap, an index is smaller than the number of threads that have one
  (`IndicesCounted`: `next_index` was stored by one of them), and only the workers, the
  registered threads and main() have one; the registry lets in no more than the pool has
  allocators for (`StoredFits`). `IndexIsOwn` is the precondition of JobPool's single owner.

Every invariant and action property of the passing runs is proved. Only model-checked are the
liveness properties, because fairness is out of the prover's reach.

## 6. Where code and comments part

Five of these have a run; the rest were met with the same models and are
recorded here and among the hazards.

1. **A worker's wait returns early** (`nested_wait_early`). Before anything was pushed,
   each `pop` lowers `bottom_`, and below zero an unsigned `bottom_` is larger than any `top_`:
   the result is true, the target whatever the slot holds. Every worker begins by popping its own
   queue. While `bottom_` stays there the worker itself finds what it pushes
   (`NestedJobsKept`), but a thief that looks then claims an entry at `top_`, where nothing
   was pushed, and gets whatever that slot of the ring holds: nullptr, or a copy of a job the owner
   pops too. Both find it ready, both run it, and the group is decremented twice.
2. **Entries pushed below zero get stranded** when `bottom_` comes up to zero again: neither
   the owner nor a thief sees them until empty pops have turned the ring, 4096 of
   them in the library. Nothing overwrites them as long as all the jobs ever pushed to that queue
   are no more than its slots (`NoJobOverwritten`); beyond that a push may, and the wait for that job
   never ends.
3. **An empty pop leaves an entry behind.** `bottom_` is set to `t + 1`, one more than before
   the pop, also after a race lost for the last entry, where the failed `compare_exchange` has
   updated `t`. The comments say "don't store decremented value"
   (`FixedWorkStealingQueue.hpp:105`, `:109`). The queue then holds a phantom: whatever the slot held before.
   `AtomicQueue` has it as the action `Phantom`, and `Implementation` proves
   that the code does this and no more.
4. **So a job can run twice on a main thread's queue as well** (`run_twice`). A worker steals
   a job and is preempted before it has stored `running`. The main thread waits, pops nothing
   again and again, and each empty pop exposes the next slot: two in the run, up to 4096 in the
   library, no more than a preempted thread leaves time for. Then the slot is the job's; the
   main thread pops it, finds it ready, and both run it, though `Worker.hpp:120` says "execute it
   once". The group is decremented twice, so `wait_for_all` may return early
   (`GroupWaitCoversAll` holds only without `doubled`). The second decrement may also wrap; it is
   repaired, which is why `WaitsEnd` holds. `RunsAtMostOnce` proves that before blocks are
   recycled there is no other way.
5. **A recycled block can run before it is pushed.** A stale entry points at it, and
   `make_job` stores `ready` before `run` stores the group: the job runs without telling the
   group, and `wait_for_all` never returns (`WaitsEnd` without `early` fails).
6. **JobGroup::run crashes on an exhausted pool**, also when every job has run: the last thread
   to run one may not have called `free_job` yet, or two of them called it at once and the
   free list has lost a block (`FailsOnlyWhenInUse` says no more than "in use", and excludes the
   overlap).
7. **shutdown may hang** (`shutdown_hangs`) because neither `terminate` nor `notify_all` holds the
   mutex; in the same way a scheduled job may find its worker asleep. It may
   also hang when it overtakes a worker that then sets `state_` to `running`: the loop in
   `Worker::start` that waited for that state is commented out, and so `startup` does not
   wait for its workers as `Scheduler.hpp:36` says.
8. **Queued jobs are not discarded on shutdown** (`Scheduler.hpp:40`): a terminated worker stays in
   its inner loop while `active_jobs_` is above zero.
9. **With automatic main threads main() has no worker of its own** (`registry_auto`): `workers_` is
   sized with the argument -1. A restart breaks the same property (`MaxStarts = 2`): indices are handed
   out anew, the map and the threads' remembered workers stay.
10. **Pool indices are unique only by luck**: `next_index++` is not synchronised, so two first
    calls can share an index (`OneThreadPerIndex` without `overlapped` fails), and after a restart the new
    pool counts from zero while old threads keep their index. `TestJobPool.cpp` expects uniqueness.
11. **The pool loses jobs** (`job_pool_loses`) when a `free_job` overlaps another call: the free list is
    not synchronised. The same race can raise `next_` past the end (`ListHasRoom` without
    its condition fails). A pool that has lost a block runs out while jobs are idle
    (`FailsOnlyWhenInUse` without `overlapped` fails in `group`).
12. **reset clears only index 0**, as often as there are threads (`JobPool.hpp:90`: "Resets all free
    lists and allocators"); the next startup replaces the pool.
13. **free accepts what it did not allocate**, the address one past the pool included.
14. **A push can overwrite a job that has yet to run**, with the library's own constants: a thread
    has 4096 blocks (`Jobrocket.cpp:17`) and its queue 4096 slots (`Scheduler.hpp:26`), and an entry
    that an empty pop has added takes a slot as well. When every block is queued beside it `push`
    asks nothing and stores over the oldest entry, and a wait for that job never ends (`WaitsEnd`
    without `overrun` fails once four jobs are made). It takes a recycled block (`FreshRingHasRoom`).

## 7. Not modelled

`xoroshiro128` (the victim is any worker), the call templates and the error messages (no state),
`auto_worker_count_value` (any number of workers), `make_unmanaged_job`'s lifetime (the thread that
runs such a job reads it once more after it is `completed`, when its waiter may have left
the scope), a job's captured data, weak memory, and several functions waiting on one
worker's queue at a time. Also outside: the tests, the examples and what
is vendored beside the library (GLFW under `src/Examples`, Catch and others),
which is most of the repository's source by size; Jobrocket itself is the files of
`src/Source/Jobrocket`, and every one of them with state is modelled.

## 8. What could follow

1. The lifetime of unmanaged jobs, and functions that nest: two groups waiting on one
   worker's queue.
2. A bound on what `xoroshiro128` may do to the choice of victims, since all
   workers share one seed.
