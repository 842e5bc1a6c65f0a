------------------------------- MODULE PoolIndex -------------------------------
(***************************************************************************)
(* Which thread allocates from which part of the job pool: the public      *)
(* startup creates a pool with one index per thread it reckons with, and   *)
(* JobPool::get_index gives each thread that makes a job an index of its   *)
(* own, for good.  Composed with ThreadRegistry, which decides which       *)
(* threads may make jobs at all.                                           *)
(***************************************************************************)
EXTENDS ThreadRegistry, FiniteSets

CONSTANT WorkerThreads    \* the threads startup may create

ASSUME PoolIndexAssumption ==
  /\ IsFiniteSet(Threads) /\ IsFiniteSet(WorkerThreads)
  /\ Threads \cap WorkerThreads = {}

VARIABLES crew,         \* the worker threads startup has created
          num_threads,  \* the pool's num_threads_
          next_index,   \* next_index
          loaded,       \* loaded[p]: next_index as p has read it, to store it plus one
          index,        \* index[p]: the thread_local next, None until p has made a job
          overlapped    \* two first calls have been under way at once (ghost)

indexVars == <<loaded, index, overlapped>>
poolVars == <<crew, num_threads, next_index, indexVars>>
allVars == <<vars, poolVars>>

Makers == Threads \cup WorkerThreads

PoolInit ==
  /\ Init
  /\ crew = {} /\ num_threads = 0 /\ next_index = 0
  /\ loaded = [p \in Makers |-> None]
  /\ index = [p \in Makers |-> None]
  /\ overlapped = FALSE

(* Mutant: there is no index for the thread that runs main(). *)
NumMainThreadsTight == num_main_threads'

(* Scheduler::num_main_threads, after its startup. *)
NumMainThreads == num_main_threads' + 1

(* The new pool hands out indices from zero; the threads' index survives. *)
PoolStartup(workers, mains) ==
  /\ Startup(workers, mains)
  /\ \E new \in SUBSET (WorkerThreads \ crew) : Cardinality(new) = workers /\ crew' = new
  /\ num_threads' = workers + NumMainThreads
  /\ next_index' = 0
  /\ UNCHANGED indexVars

MayMake(p) == p \in crew \/ (p \in Threads /\ MayUse(p))

(* next = next_index++, the first time p makes a job. *)
LoadIndex(p) ==
  /\ MayMake(p) /\ index[p] = None /\ loaded[p] = None
  /\ loaded' = [loaded EXCEPT ![p] = next_index]
  /\ overlapped' = (overlapped \/ \E q \in Makers : loaded[q] # None)
  /\ UNCHANGED <<vars, crew, num_threads, next_index, index>>

(* Mutant: next_index is left as it was. *)
StoreIndexUnraised(p) ==
  /\ loaded[p] # None
  /\ index' = [index EXCEPT ![p] = loaded[p]]
  /\ loaded' = [loaded EXCEPT ![p] = None]
  /\ UNCHANGED <<vars, crew, num_threads, next_index, overlapped>>

StoreIndex(p) ==
  /\ loaded[p] # None
  /\ next_index' = loaded[p] + 1
  /\ index' = [index EXCEPT ![p] = loaded[p]]
  /\ loaded' = [loaded EXCEPT ![p] = None]
  /\ UNCHANGED <<vars, crew, num_threads, overlapped>>

Registry ==
  /\ \E p \in Threads : (NextMainBound /\ RegisterMainThread(p)) \/ ThreadLocalWorker(p)
  /\ UNCHANGED poolVars

PoolNext ==
  \/ \E a \in Arguments : PoolStartup(a[1], a[2])
  \/ Registry
  \/ \E p \in Makers : LoadIndex(p) \/ StoreIndex(p)

PoolSpec == PoolInit /\ [][PoolNext]_allVars

--------------------------------------------------------------------------------
(* The pool has an allocator for every thread the registry lets in: no     *)
(* thread gets an index past the end of allocators_, also when first calls *)
(* overlap and next_index is read twice or stored out of order.            *)
IndexInPool == \A p \in Makers : index[p] # None => index[p] \in 0 .. (num_threads - 1)

(* As long as no two first calls overlap, each thread has an allocator of  *)
(* its own: JobPool's proofs and runs know one owner per index.            *)
OneThreadPerIndex ==
  ~overlapped => \A p, q \in Makers : index[p] = index[q] /\ index[p] # None => p = q

================================================================================
