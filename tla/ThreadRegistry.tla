----------------------------- MODULE ThreadRegistry -----------------------------
(***************************************************************************)
(* Which thread works on which queue: Scheduler::startup lays out the      *)
(* workers, register_main_thread hands out the ones without a thread, and  *)
(* thread_local_worker finds a thread's worker once and remembers it.      *)
(* Threads are those the program made itself; a worker's thread always     *)
(* finds its own worker.  Lookup and registration hold main_thread_mut_    *)
(* and are one step each.                                                  *)
(***************************************************************************)
EXTENDS Integers

CONSTANTS Threads,      \* the program's own threads
          Main,         \* the one that runs main()
          Arguments,    \* <<num_workers_, num_main_threads>> startup may be called with
          MaxStarts     \* bound: calls of startup

AutoThreadCount == -1

ASSUME RegistryAssumption ==
  /\ Main \in Threads
  /\ Arguments \subseteq Nat \X (Nat \cup {AutoThreadCount})
  /\ MaxStarts \in Nat

None == -1

VARIABLES num_workers,        \* num_workers_
          num_main_threads,   \* num_main_threads_
          size,               \* workers_.size()
          next_main,          \* next_main_
          main_thread_map,    \* main_thread_map_, None where there is no entry
          local_worker,       \* the index of a thread's local_worker, None until used
          starts              \* calls of startup so far (bound)

vars == <<num_workers, num_main_threads, size, next_main, main_thread_map,
          local_worker, starts>>

Init ==
  /\ num_workers = 0 /\ num_main_threads = 0 /\ size = 0 /\ next_main = 0
  /\ main_thread_map = [p \in Threads |-> None]
  /\ local_worker = [p \in Threads |-> None]
  /\ starts = 0

--------------------------------------------------------------------------------
(* Mutant: there is no worker for the thread that runs main(). *)
LayoutTight(workers, mains) == workers + mains

Layout(workers, mains) == workers + mains + 1

(* The size is computed from the argument, -1 for AutoThreadCount too.     *)
(* The map and the threads' local_worker outlive a restart.                *)
Startup(workers, mains) ==
  /\ starts < MaxStarts
  /\ num_workers' = workers
  /\ num_main_threads' = IF mains > AutoThreadCount THEN mains ELSE num_main_threads
  /\ size' = Layout(workers, mains)
  /\ next_main' = workers
  /\ starts' = starts + 1
  /\ UNCHANGED <<main_thread_map, local_worker>>

(* Mutant: one main thread too many is let in. *)
RoomInclusive == next_main <= num_workers + num_main_threads

Room == next_main < num_workers + num_main_threads

(* The next index is used up even when there is no room. *)
RegisterMainThread(p) ==
  /\ starts > 0
  /\ main_thread_map[p] = None
  /\ next_main' = next_main + 1
  /\ main_thread_map' = [main_thread_map EXCEPT ![p] = IF Room THEN next_main ELSE None]
  /\ UNCHANGED <<num_workers, num_main_threads, size, local_worker, starts>>

FindLocalWorker(p) ==
  IF main_thread_map[p] # None THEN main_thread_map[p] ELSE size - 1

(* The contract: a thread other than main() registers before it schedules  *)
(* or waits.                                                               *)
MayUse(p) == starts > 0 /\ (p = Main \/ main_thread_map[p] # None)

ThreadLocalWorker(p) ==
  /\ MayUse(p) /\ local_worker[p] = None
  /\ local_worker' = [local_worker EXCEPT ![p] = FindLocalWorker(p)]
  /\ UNCHANGED <<num_workers, num_main_threads, size, next_main, main_thread_map, starts>>

(* Rejected registrations are repeated at most until next_main_ is there. *)
NextMainBound == next_main < num_workers + num_main_threads + 2

Next ==
  \/ \E a \in Arguments : Startup(a[1], a[2])
  \/ \E p \in Threads : (NextMainBound /\ RegisterMainThread(p)) \/ ThreadLocalWorker(p)

Spec == Init /\ [][Next]_vars

--------------------------------------------------------------------------------
Users == {p \in Threads : local_worker[p] # None}

(* "push must be called from the queue's owning thread": no two threads    *)
(* work on the same queue, and none on the queue of a worker's thread.     *)
OneOwnerPerQueue ==
  \A p \in Users :
    /\ local_worker[p] \in num_workers .. (size - 1)
    /\ \A q \in Users : local_worker[p] = local_worker[q] => p = q

(* Every variable keeps its type. *)
TypeOK ==
  /\ num_workers \in Nat /\ num_main_threads \in Nat
  /\ size \in Nat /\ next_main \in Nat /\ starts \in 0 .. MaxStarts
  /\ main_thread_map \in [Threads -> Nat \cup {None}]
  /\ local_worker \in [Threads -> Nat \cup {None}]

(* The inductive invariant of a program that starts the scheduler once and *)
(* says how many main threads it has.                                      *)
RegistryInv ==
  /\ TypeOK
  /\ starts = 0 => \A p \in Threads : main_thread_map[p] = None /\ local_worker[p] = None
  /\ starts > 0 => size = num_workers + num_main_threads + 1 /\ next_main >= num_workers
  /\ \A p \in Threads :
       main_thread_map[p] # None =>
         /\ main_thread_map[p] >= num_workers /\ main_thread_map[p] < next_main
         /\ main_thread_map[p] < num_workers + num_main_threads
         /\ \A q \in Threads : main_thread_map[q] = main_thread_map[p] => p = q
  /\ \A p \in Users :
       \/ main_thread_map[p] # None /\ local_worker[p] = main_thread_map[p]
       \/ p = Main /\ local_worker[p] = num_workers + num_main_threads

================================================================================
