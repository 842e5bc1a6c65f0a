---------------------------- MODULE PoolIndex_proofs ----------------------------
(***************************************************************************)
(* A program that starts the scheduler once never indexes past the end of  *)
(* the pool, and short of a race no two of its threads allocate from the   *)
(* same part of it, however many threads there are.                        *)
(***************************************************************************)
EXTENDS PoolIndex, ThreadRegistry_proofs, FiniteSetTheorems

(* The threads that have an index for good, and those in the registry.     *)
Stored == {p \in Makers : index[p] # None}
Registered == {p \in Threads : main_thread_map[p] # None}

Types ==
  /\ crew \subseteq WorkerThreads
  /\ num_threads \in Nat /\ next_index \in Nat
  /\ loaded \in [Makers -> Nat \cup {None}]
  /\ index \in [Makers -> Nat \cup {None}]
  /\ overlapped \in BOOLEAN

(* The pool has one allocator per thread that may make a job.              *)
PoolSized ==
  IF starts = 0
    THEN /\ next_index = 0 /\ ~overlapped /\ crew = {}
         /\ \A p \in Makers : loaded[p] = None /\ index[p] = None
    ELSE /\ num_threads = num_workers + num_main_threads + 1
         /\ Cardinality(crew) = num_workers
         /\ \A p \in Makers : loaded[p] # None \/ index[p] # None => MayMake(p)

(* However the first calls overlap, an index is smaller than the number of *)
(* threads that have one: next_index was stored by one of them.            *)
IndicesCounted ==
  /\ next_index <= Cardinality(Stored)
  /\ \A p \in Makers :
       /\ loaded[p] # None => index[p] = None /\ loaded[p] <= Cardinality(Stored)
       /\ index[p] # None => index[p] < Cardinality(Stored)

(* Without an overlap next_index is above every index given so far.        *)
Ordered ==
  ~overlapped =>
    \A p \in Makers :
      /\ loaded[p] # None => loaded[p] = next_index
      /\ index[p] # None => index[p] < next_index
      /\ \A q \in Makers : loaded[p] # None /\ loaded[q] # None => p = q

IndexInv == Types /\ PoolSized /\ IndicesCounted /\ Ordered /\ OneThreadPerIndex

--------------------------------------------------------------------------------
(* The pool's steps are the registry's, or change nothing of it.           *)
LEMMA PoolStepRegisters == [PoolNext]_allVars => [Next]_vars
BY DEF PoolNext, allVars, vars, PoolStartup, Registry, LoadIndex, StoreIndex, Next

(* So all that holds of the registry holds with the pool.                  *)
THEOREM PoolKeepsRegistry == ASSUME Stated PROVE PoolSpec => []RegistryInv
<1>1. PoolSpec => Spec
  BY PoolStepRegisters, PTL DEF PoolSpec, PoolInit, Spec
<1> QED BY <1>1, RegistryInvariant, PTL

(* There are as many allocators as threads that may have an index.         *)
LEMMA StoredFits ==
  ASSUME Types, PoolSized, RegistryInv, starts > 0
  PROVE  /\ IsFiniteSet(Stored)
         /\ Cardinality(Stored) \in Nat
         /\ Cardinality(Stored) <= num_threads
<1> DEFINE Mains == num_workers .. (num_workers + num_main_threads - 1)
<1>1. /\ IsFiniteSet(Registered) /\ IsFiniteSet(crew) /\ IsFiniteSet({Main})
      /\ IsFiniteSet(Stored)
  <2>1. IsFiniteSet(Makers)
    BY PoolIndexAssumption, FS_Union DEF Makers
  <2> QED
    BY <2>1, PoolIndexAssumption, FS_Subset, FS_Singleton DEF Registered, Types, Stored
<1>2. num_workers \in Nat /\ num_main_threads \in Nat
  BY DEF RegistryInv, TypeOK
<1>3. Cardinality(Registered) <= num_main_threads
  <2>1. IsFiniteSet(Mains) /\ Cardinality(Mains) = num_main_threads
    BY <1>2, FS_Interval
  <2>2. [p \in Registered |-> main_thread_map[p]] \in Injection(Registered, Mains)
    <3>1. \A p \in Registered : main_thread_map[p] \in Mains
      <4> SUFFICES ASSUME NEW p \in Threads, main_thread_map[p] # None
                   PROVE  main_thread_map[p] \in Mains
        BY DEF Registered
      <4>1. main_thread_map[p] \in Nat
        BY DEF RegistryInv, TypeOK
      <4>2. /\ main_thread_map[p] >= num_workers
            /\ main_thread_map[p] < num_workers + num_main_threads
        BY DEF RegistryInv
      <4> QED BY <1>2, <4>1, <4>2
    <3>2. \A p, q \in Registered : main_thread_map[p] = main_thread_map[q] => p = q
      BY DEF RegistryInv, Registered
    <3> QED BY <3>1, <3>2 DEF Injection, IsInjective
  <2>3. Cardinality(Registered) <= Cardinality(Mains)
    BY <1>1, <2>1, <2>2, FS_Injection
  <2> QED BY <2>1, <2>3
<1>4. Stored \subseteq crew \cup (Registered \cup {Main})
  BY DEF PoolSized, Stored, MayMake, MayUse, Registered
<1>5. /\ IsFiniteSet(Registered \cup {Main})
      /\ Cardinality(Registered \cup {Main}) <= num_main_threads + 1
      /\ Cardinality(Registered \cup {Main}) \in Nat
  <2>1. Cardinality(Registered) \in Nat
    BY <1>1, FS_CardinalityType
  <2>2. /\ IsFiniteSet(Registered \cup {Main})
        /\ Cardinality(Registered \cup {Main}) =
             IF Main \in Registered THEN Cardinality(Registered) ELSE Cardinality(Registered) + 1
    BY <1>1, FS_AddElement
  <2> QED BY <1>2, <1>3, <2>1, <2>2
<1>6. /\ IsFiniteSet(crew \cup (Registered \cup {Main}))
      /\ Cardinality(crew \cup (Registered \cup {Main})) <= num_workers + (num_main_threads + 1)
  <2>1. Cardinality(crew) = num_workers
    BY SMT DEF PoolSized
  <2>2. /\ IsFiniteSet(crew \cap (Registered \cup {Main}))
        /\ Cardinality(crew \cap (Registered \cup {Main})) \in Nat
    BY <1>1, FS_Subset, FS_CardinalityType
  <2>3. /\ IsFiniteSet(crew \cup (Registered \cup {Main}))
        /\ Cardinality(crew \cup (Registered \cup {Main})) =
             Cardinality(crew) + Cardinality(Registered \cup {Main})
               - Cardinality(crew \cap (Registered \cup {Main}))
    BY <1>1, <1>5, FS_Union
  <2> QED BY <1>2, <1>5, <2>1, <2>2, <2>3
<1>7. Cardinality(Stored) \in Nat
  BY <1>1, FS_CardinalityType
<1>8. Cardinality(Stored) <= Cardinality(crew \cup (Registered \cup {Main}))
  BY <1>4, <1>6, FS_Subset
<1>9. num_threads = num_workers + num_main_threads + 1
  BY SMT DEF PoolSized
<1>10. Cardinality(crew \cup (Registered \cup {Main})) \in Nat
  BY <1>6, FS_CardinalityType
<1> QED BY <1>1, <1>2, <1>6, <1>7, <1>8, <1>9, <1>10

(* The invariant keeps every index within the pool.                        *)
LEMMA InvBoundsIndex == IndexInv /\ RegistryInv => IndexInPool
<1> SUFFICES ASSUME IndexInv, RegistryInv, NEW p \in Makers, index[p] # None
             PROVE  index[p] \in 0 .. (num_threads - 1)
  BY DEF IndexInPool
<1>1. starts > 0
  BY SMT DEF IndexInv, PoolSized, RegistryInv, TypeOK
<1>2. Cardinality(Stored) \in Nat /\ Cardinality(Stored) <= num_threads
  BY <1>1, StoredFits DEF IndexInv
<1>3. index[p] \in Nat /\ index[p] < Cardinality(Stored) /\ num_threads \in Nat
  BY DEF IndexInv, Types, IndicesCounted
<1> QED BY <1>2, <1>3

--------------------------------------------------------------------------------
(* Startup finds no index given out, and sizes the pool for its threads.   *)
LEMMA PoolStartupStep ==
  ASSUME Stated, RegistryInv, IndexInv, NEW a \in Arguments, PoolStartup(a[1], a[2])
  PROVE  IndexInv'
<1>1. starts = 0 /\ starts' = 1
  BY SMT DEF PoolStartup, Startup, RegistryInv, TypeOK, Stated
<1>2. /\ num_workers' = a[1] /\ num_main_threads' = a[2]
      /\ num_threads' = a[1] + (a[2] + 1) /\ a[1] \in Nat /\ a[2] \in Nat
  BY SMT DEF PoolStartup, Startup, NumMainThreads, Stated, AutoThreadCount
<1>3. crew' \subseteq WorkerThreads /\ Cardinality(crew') = a[1]
  BY DEF PoolStartup
<1>4. /\ UNCHANGED <<loaded, index, overlapped>> /\ next_index' = 0
      /\ \A p \in Makers : loaded[p] = None /\ index[p] = None
  BY <1>1 DEF PoolStartup, indexVars, IndexInv, PoolSized
<1>5. Types'
  BY <1>2, <1>3, <1>4, SMT DEF IndexInv, Types
<1>6. PoolSized'
  BY <1>1, <1>2, <1>3, <1>4, SMT DEF PoolSized
<1>7. Stored' = {} /\ Cardinality(Stored') = 0
  BY <1>4, FS_EmptySet DEF Stored
<1> QED
  BY <1>4, <1>5, <1>6, <1>7, SMT DEF IndexInv, IndicesCounted, Ordered, OneThreadPerIndex

(* The registry's own steps leave the pool alone, and a thread that may    *)
(* make a job still may.                                                   *)
LEMMA RegistryQuiet == ASSUME RegistryInv, IndexInv, Registry PROVE IndexInv'
<1>1. UNCHANGED <<crew, num_threads, next_index, loaded, index, overlapped>>
  BY DEF Registry, poolVars, indexVars
<1>2. UNCHANGED <<num_workers, num_main_threads, starts>> /\ starts > 0
  BY DEF Registry, RegisterMainThread, ThreadLocalWorker, MayUse
<1>3. \A p \in Threads : main_thread_map[p] # None => main_thread_map'[p] # None
  BY DEF Registry, RegisterMainThread, ThreadLocalWorker, RegistryInv, TypeOK
<1>4. \A p \in Makers : MayMake(p) => MayMake(p)'
  BY <1>1, <1>2, <1>3 DEF MayMake, MayUse
<1>5. PoolSized'
  BY <1>1, <1>2, <1>4, SMT DEF IndexInv, PoolSized
<1>6. Stored' = Stored
  BY <1>1 DEF Stored
<1> QED
  BY <1>1, <1>5, <1>6 DEF IndexInv, Types, IndicesCounted, Ordered, OneThreadPerIndex

(* A thread that reads next_index has yet to take an index.                *)
LEMMA LoadStep == ASSUME RegistryInv, IndexInv, NEW p \in Makers, LoadIndex(p) PROVE IndexInv'
<1> USE DEF LoadIndex
<1>1. /\ UNCHANGED <<crew, num_threads, next_index, index, starts, num_workers,
                     num_main_threads, main_thread_map>>
      /\ MayMake(p) /\ MayMake(p)' /\ starts # 0
  <2>1. /\ UNCHANGED <<crew, num_threads, next_index, index, starts, num_workers,
                       num_main_threads, main_thread_map>>
        /\ MayMake(p)
    BY DEF vars
  <2>2. MayMake(p)'
    BY <2>1 DEF MayMake, MayUse
  <2>3. starts # 0
    BY <2>1, SMT DEF MayMake, MayUse, IndexInv, PoolSized
  <2> QED BY <2>1, <2>2, <2>3
<1>2. \A q \in Makers : loaded'[q] = IF q = p THEN next_index ELSE loaded[q]
  BY DEF IndexInv, Types
<1>3. Types'
  BY <1>1 DEF IndexInv, Types
<1>4. PoolSized'
  BY <1>1, <1>2, SMT DEF IndexInv, PoolSized, MayMake, MayUse
<1>5. Stored' = Stored
  BY <1>1 DEF Stored
<1>6. IndicesCounted'
  BY <1>1, <1>2, <1>5 DEF IndexInv, IndicesCounted
<1>7. ~overlapped' => ~overlapped /\ \A q \in Makers : loaded[q] = None
  OBVIOUS
<1>8. Ordered'
  BY <1>1, <1>2, <1>7 DEF IndexInv, Ordered
<1> QED BY <1>1, <1>3, <1>4, <1>6, <1>7, <1>8 DEF IndexInv, OneThreadPerIndex

(* A thread that takes its index is one more thread that has one.          *)
LEMMA StoreStep == ASSUME RegistryInv, IndexInv, NEW p \in Makers, StoreIndex(p) PROVE IndexInv'
<1> USE DEF StoreIndex
<1>1. /\ UNCHANGED <<crew, num_threads, overlapped, starts, num_workers,
                     num_main_threads, main_thread_map>>
      /\ next_index' = loaded[p] + 1
      /\ loaded[p] \in Nat /\ index[p] = None /\ starts # 0
  BY SMT DEF vars, IndexInv, Types, IndicesCounted, PoolSized
<1>2. \A q \in Makers : /\ loaded'[q] = IF q = p THEN None ELSE loaded[q]
                        /\ index'[q] = IF q = p THEN loaded[p] ELSE index[q]
  BY DEF IndexInv, Types
<1>3. Types'
  BY <1>1 DEF IndexInv, Types
<1>4. PoolSized'
  BY <1>1, <1>2, SMT DEF IndexInv, PoolSized, MayMake, MayUse
<1>5. Stored' = Stored \cup {p} /\ p \notin Stored
  BY <1>1, <1>2 DEF Stored, None
<1>6. starts > 0
  BY <1>1, SMT DEF RegistryInv, TypeOK
<1>7. IsFiniteSet(Stored) /\ Cardinality(Stored) \in Nat
  BY <1>6, StoredFits DEF IndexInv
<1>8. Cardinality(Stored') = Cardinality(Stored) + 1
  BY <1>5, <1>7, FS_AddElement
<1>9. IndicesCounted'
  BY <1>1, <1>2, <1>7, <1>8, SMT DEF IndexInv, IndicesCounted, Types, None
<1>10. ~overlapped =>
         /\ loaded[p] = next_index
         /\ \A q \in Makers : q # p => loaded[q] = None
         /\ \A q \in Makers : index[q] # None => index[q] < next_index
  BY <1>1, SMT DEF IndexInv, Ordered
<1>11. Ordered'
  BY <1>1, <1>2, <1>10, SMT DEF IndexInv, Types, Ordered, None
<1>12. OneThreadPerIndex'
  BY <1>1, <1>2, <1>10, SMT DEF IndexInv, Types, OneThreadPerIndex, None
<1> QED BY <1>3, <1>4, <1>9, <1>11, <1>12 DEF IndexInv

(* Before the first startup no thread has an index.                        *)
LEMMA IndexInit == PoolInit => IndexInv
<1> SUFFICES ASSUME PoolInit PROVE IndexInv
  OBVIOUS
<1>1. \A p \in Makers : loaded[p] = None /\ index[p] = None
  BY DEF PoolInit
<1>2. starts = 0 /\ next_index = 0 /\ num_threads = 0 /\ crew = {} /\ overlapped = FALSE
  BY DEF PoolInit, Init
<1>3. loaded \in [Makers -> Nat \cup {None}] /\ index \in [Makers -> Nat \cup {None}]
  BY DEF PoolInit
<1>4. Types
  BY <1>2, <1>3 DEF Types
<1>5. Stored = {} /\ Cardinality(Stored) = 0
  BY <1>1, FS_EmptySet DEF Stored
<1> QED
  BY <1>1, <1>2, <1>4, <1>5
     DEF IndexInv, PoolSized, IndicesCounted, Ordered, OneThreadPerIndex

(* Every step keeps the indices in order.                                  *)
LEMMA IndexStep == ASSUME Stated, RegistryInv, IndexInv, [PoolNext]_allVars PROVE IndexInv'
<1>1. CASE UNCHANGED allVars
  BY <1>1 DEF allVars, vars, poolVars, indexVars, IndexInv, Types, PoolSized, IndicesCounted,
              Ordered, OneThreadPerIndex, Stored, MayMake, MayUse
<1>2. CASE PoolNext
  BY <1>2, PoolStartupStep, RegistryQuiet, LoadStep, StoreStep DEF PoolNext
<1> QED BY <1>1, <1>2

(* Once started, with a stated number of main threads, the program gives   *)
(* out indices in order and no more than the pool has.                     *)
THEOREM IndexInvariant == ASSUME Stated PROVE PoolSpec => []IndexInv
BY IndexInit, IndexStep, PoolKeepsRegistry, PTL DEF PoolSpec

(* No thread of such a program indexes past the end of allocators_, though *)
(* next_index++ is not synchronised.                                       *)
THEOREM IndexStaysInPool == ASSUME Stated PROVE PoolSpec => []IndexInPool
BY IndexInvariant, PoolKeepsRegistry, InvBoundsIndex, PTL

(* And where no two first calls overlap, each thread of such a program has *)
(* an allocator of its own, which is what JobPool's proofs start from.     *)
THEOREM IndexIsOwn == ASSUME Stated PROVE PoolSpec => []OneThreadPerIndex
<1>1. IndexInv => OneThreadPerIndex
  BY DEF IndexInv
<1> QED BY <1>1, IndexInvariant, PTL

================================================================================
