-------------------------- MODULE ThreadRegistry_proofs --------------------------
(***************************************************************************)
(* A program that starts the scheduler once, with a stated number of main  *)
(* threads, gives every thread a queue of its own.                         *)
(***************************************************************************)
EXTENDS ThreadRegistry, TLAPS

(* What the contract asks of startup: it is called once, and never with    *)
(* AutoThreadCount for the main threads.                                   *)
Stated == MaxStarts = 1 /\ \A a \in Arguments : a[1] \in Nat /\ a[2] \in Nat

(* The one call of startup finds no thread registered, and lays out one    *)
(* worker per thread and one more for main().                              *)
LEMMA StartupStep ==
  ASSUME Stated, RegistryInv, NEW a \in Arguments, Startup(a[1], a[2])
  PROVE  RegistryInv'
<1>1. starts = 0 /\ starts' = 1
  BY SMT DEF Startup, RegistryInv, TypeOK, Stated
<1>2. \A p \in Threads : main_thread_map'[p] = None /\ local_worker'[p] = None
  BY <1>1 DEF Startup, RegistryInv
<1>3. /\ num_workers' = a[1] /\ num_main_threads' = a[2]
      /\ size' = a[1] + a[2] + 1 /\ next_main' = a[1]
      /\ a[1] \in Nat /\ a[2] \in Nat
  BY SMT DEF Startup, Layout, Stated, AutoThreadCount
<1>4. TypeOK'
  BY <1>1, <1>3, SMT DEF Startup, RegistryInv, TypeOK, Stated
<1> QED
  BY <1>1, <1>2, <1>3, <1>4, SMT DEF RegistryInv, Users, None

(* A registration takes an index no other thread has, below the last       *)
(* worker, or none.                                                        *)
LEMMA RegisterStep ==
  ASSUME RegistryInv, NEW p \in Threads, RegisterMainThread(p)
  PROVE  RegistryInv'
<1> USE DEF RegisterMainThread
<1>1. TypeOK'
  BY SMT DEF RegistryInv, TypeOK, None
<1>2. \A q \in Threads : q # p => main_thread_map'[q] = main_thread_map[q]
  BY DEF RegistryInv, TypeOK
<1>3. main_thread_map'[p] = IF Room THEN next_main ELSE None
  BY DEF RegistryInv, TypeOK
<1>4. ASSUME NEW q \in Threads, main_thread_map'[q] # None
      PROVE  /\ main_thread_map'[q] >= num_workers' /\ main_thread_map'[q] < next_main'
             /\ main_thread_map'[q] < num_workers' + num_main_threads'
             /\ \A r \in Threads : main_thread_map'[r] = main_thread_map'[q] => q = r
  BY <1>2, <1>3, <1>4, SMT DEF RegistryInv, TypeOK, Room, None
<1>5. ASSUME NEW q \in Users'
      PROVE  \/ main_thread_map'[q] # None /\ local_worker'[q] = main_thread_map'[q]
             \/ q = Main /\ local_worker'[q] = num_workers' + num_main_threads'
  BY <1>2, <1>5 DEF RegistryInv, Users
<1>6. /\ starts' > 0
      /\ size' = num_workers' + num_main_threads' + 1
      /\ next_main' >= num_workers'
  BY SMT DEF RegistryInv, TypeOK
<1>7. starts' = 0 => \A q \in Threads : main_thread_map'[q] = None /\ local_worker'[q] = None
  BY <1>1, <1>6, SMT DEF TypeOK
<1> QED
  BY <1>1, <1>4, <1>5, <1>6, <1>7, Zenon DEF RegistryInv

(* A thread that may use the scheduler is given the index it registered    *)
(* or, as main(), the last one.                                            *)
LEMMA LookupStep ==
  ASSUME RegistryInv, NEW p \in Threads, ThreadLocalWorker(p)
  PROVE  RegistryInv'
<1> USE DEF ThreadLocalWorker, MayUse
<1>1. FindLocalWorker(p) = IF main_thread_map[p] # None
                             THEN main_thread_map[p] ELSE num_workers + num_main_threads
  BY SMT DEF FindLocalWorker, RegistryInv, TypeOK
<1>2. TypeOK'
  BY <1>1, SMT DEF RegistryInv, TypeOK, None
<1>3. \A q \in Threads : local_worker'[q] = IF q = p THEN FindLocalWorker(p)
                                                      ELSE local_worker[q]
  BY DEF RegistryInv, TypeOK
<1>4. \A q \in Users' : \/ main_thread_map'[q] # None /\ local_worker'[q] = main_thread_map'[q]
                        \/ q = Main /\ local_worker'[q] = num_workers' + num_main_threads'
  BY <1>1, <1>3 DEF RegistryInv, Users
<1> QED
  BY <1>2, <1>4, SMT DEF RegistryInv

(* Every step of a program that keeps the contract keeps the invariant.    *)
LEMMA RegistryStep == ASSUME Stated, RegistryInv, [Next]_vars PROVE RegistryInv'
<1>1. CASE UNCHANGED vars
  BY <1>1 DEF vars, RegistryInv, TypeOK, Users
<1>2. CASE Next
  BY <1>2, StartupStep, RegisterStep, LookupStep DEF Next
<1> QED BY <1>1, <1>2

(* The invariant gives every thread in the scheduler a queue of its own.   *)
LEMMA InvGivesOneOwner == RegistryInv => OneOwnerPerQueue
<1> SUFFICES ASSUME RegistryInv, NEW p \in Users
             PROVE  /\ local_worker[p] \in num_workers .. (size - 1)
                    /\ \A q \in Users : local_worker[p] = local_worker[q] => p = q
  BY DEF OneOwnerPerQueue
<1>1. starts > 0 /\ size = num_workers + num_main_threads + 1
  BY SMT DEF RegistryInv, TypeOK, Users
<1>2. local_worker[p] \in num_workers .. (size - 1)
  BY <1>1, SMT DEF RegistryInv, TypeOK, Users
<1>3. \A q \in Users : local_worker[p] = local_worker[q] => p = q
  BY <1>1, SMT DEF RegistryInv, TypeOK, Users
<1> QED BY <1>2, <1>3

(* RegistryInv holds in every run that calls startup once with a stated    *)
(* number of main threads.                                                 *)
THEOREM RegistryInvariant == ASSUME Stated PROVE Spec => []RegistryInv
<1>1. Init => RegistryInv
  BY RegistryAssumption, SMT DEF Init, RegistryInv, TypeOK, Users, None
<1>2. RegistryInv /\ [Next]_vars => RegistryInv'
  BY RegistryStep
<1> QED BY <1>1, <1>2, PTL DEF Spec

(* In such a run no two threads ever push to or pop from the same queue:   *)
(* the precondition of FixedWorkStealingQueue::push and pop is kept.       *)
THEOREM OneOwner == ASSUME Stated PROVE Spec => []OneOwnerPerQueue
BY RegistryInvariant, InvGivesOneOwner, PTL

================================================================================
