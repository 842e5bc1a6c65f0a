----------------------------- MODULE JobPool_proofs -----------------------------
(***************************************************************************)
(* One index of the job pool recycles nothing that is in use, and keeps    *)
(* the allocator's contract, for any capacity and any number of threads,   *)
(* however the loads and stores of the free list interleave; and it loses  *)
(* no job while its calls do not overlap.                                  *)
(***************************************************************************)
EXTENDS JobPool, FiniteSetTheorems, TLAPS

(* The allocator under its contract, with its proofs. *)
Alloc == INSTANCE FixedPoolAllocator_proofs WITH MaxBlocks <- Capacity, Disciplined <- TRUE

(* The index the owner works with while it takes a job off the list. *)
PopInRange ==
  pc[Owner] \in {"pop_next", "pop_element", "pop_clear"} => InRange(n[Owner])

(* The inductive invariant. *)
JobPoolInv ==
  /\ TypeOK
  /\ Alloc!PoolInv
  /\ PopInRange
  /\ unfinished \subseteq held
  /\ OneHolder

(* The assumptions of the allocator's module hold of the pool's. *)
LEMMA AllocatorAssumption == Alloc!PoolAssumption
BY JobPoolAssumption DEF Alloc!PoolAssumption

(* The two instances of the allocator agree. *)
LEMMA SamePool ==
  /\ Pool!Allocate <=> Alloc!Allocate
  /\ Pool!Reset <=> Alloc!Reset
  /\ Pool!Init <=> Alloc!Init
  /\ Alloc!Blocks = Jobs /\ Pool!Null = Alloc!Null /\ Pool!Memory = Alloc!Memory
  /\ \A j : Pool!Refuses(j) <=> Alloc!Refuses(j)
BY DEF Pool!Allocate, Alloc!Allocate, Pool!Exhausted, Alloc!Exhausted, Pool!Reset,
       Alloc!Reset, Pool!ClearCount, Alloc!ClearCount, Pool!Init, Alloc!Init, Jobs,
       Alloc!Blocks, Pool!Blocks, Pool!Null, Alloc!Null, Pool!Memory, Alloc!Memory,
       Pool!End, Alloc!End, Pool!Refuses, Alloc!Refuses

(* The allocator's part of the type invariant. *)
LEMMA PoolTypes ==
  /\ Alloc!PoolInv => Pool!TypeOK
  /\ Alloc!PoolInv' => Pool!TypeOK'
BY SamePool DEF Alloc!PoolInv, Alloc!TypeOK, Pool!TypeOK, Jobs, Pool!Blocks, Alloc!Blocks,
   Pool!Memory, Alloc!Memory, Pool!End, Alloc!End

(* What a step leaves alone of the allocator keeps its invariant. *)
LEMMA PoolUnchanged ==
  ASSUME Alloc!PoolInv, UNCHANGED poolVars
  PROVE  Alloc!PoolInv'
BY DEF poolVars, Alloc!PoolInv, Alloc!TypeOK, Alloc!FreeListIntact, Alloc!IsFreeList,
       Alloc!FreeCount

(* A job is a block, never the null pointer. *)
LEMMA NullIsNoJob == Null \notin Jobs
BY JobPoolAssumption DEF Null, Pool!Null, Jobs, Pool!Blocks

(* The block that is handed out is nowhere on its way back. *)
LEMMA AllocationStep == ASSUME JobPoolInv, Allocation PROVE JobPoolInv'
<1> USE DEF Allocation, Return, Goto, listVars, Threads
<1>1. Alloc!PoolInv' /\ next \in Jobs \ held
  BY AllocatorAssumption, SamePool, Alloc!AllocateStep DEF JobPoolInv
<1>2. held' = held \cup {next} /\ unfinished' = unfinished \cup {next}
  BY DEF Pool!Allocate
<1>3. TypeOK'
  BY <1>1, <1>2, PoolTypes, NullIsNoJob, JobPoolAssumption DEF JobPoolInv, TypeOK
<1>4. PopInRange' /\ unfinished' \subseteq held'
  BY <1>2 DEF JobPoolInv, TypeOK, PopInRange
<1>5. Recyclable' = Recyclable
  BY <1>1, <1>2 DEF Recyclable, JobPoolInv
<1>6. \A p \in Threads : InHand(p)' => InHand(p) /\ job'[p] = job[p]
  BY DEF JobPoolInv, TypeOK, InHand
<1>7. OneHolder'
  BY <1>5, <1>6 DEF JobPoolInv, OneHolder, TypeOK
<1> QED BY <1>1, <1>3, <1>4, <1>7 DEF JobPoolInv

(* Taking a job off the list frees what nobody else can take or store.     *)
LEMMA PopClearStep ==
  ASSUME JobPoolInv, PopClear
  PROVE  /\ JobPoolInv'
         /\ job[Owner] \in held \cup {Null}
<1> USE DEF PopClear, Goto, Threads, ClearElement
<1> DEFINE j == job[Owner]
<1>1. j \in Jobs \cup {Null} /\ n[Owner] \in 0 .. (Capacity - 1)
  BY DEF JobPoolInv, TypeOK, PopInRange, InRange
<1>2. j # Null => j \in Recyclable
  BY DEF JobPoolInv, OneHolder
<1>3. j \in held \cup {Null}
  BY <1>2 DEF Recyclable
<1>4. Alloc!PoolInv' /\ unfinished' = unfinished /\
      (UNCHANGED poolVars \/ (j # Null /\ held' = held \ {j}))
  <2>1. CASE Pool!Refuses(j)
    BY <2>1, PoolUnchanged DEF JobPoolInv
  <2>2. CASE ~Pool!Refuses(j)
    <3>1. j # Null /\ j \in held
      BY <1>3, <2>2 DEF Pool!Refuses, Null
    <3>2. Alloc!Free(j)
      BY <2>2, <3>1, SamePool DEF Pool!Free, Alloc!Free, Alloc!MayFree, Pool!LinkNext,
         Alloc!LinkNext
    <3>3. j \in Alloc!Pointers
      BY <1>1, SamePool DEF Alloc!Pointers, Alloc!Memory, Null
    <3>4. Alloc!PoolInv'
      BY <3>2, <3>3, AllocatorAssumption, Alloc!FreeStep DEF JobPoolInv
    <3> QED BY <2>2, <3>1, <3>4 DEF Pool!Free
  <2> QED BY <2>1, <2>2
<1>5. /\ elements' = [elements EXCEPT ![n[Owner]] = Null]
      /\ pc' = [pc EXCEPT ![Owner] = "free_all"]
      /\ job' = [job EXCEPT ![Owner] = Null] /\ n' = [n EXCEPT ![Owner] = 0]
  OBVIOUS
<1>6. TypeOK'
  BY <1>1, <1>4, <1>5, PoolTypes, JobPoolAssumption DEF JobPoolInv, TypeOK
<1>7. PopInRange' /\ unfinished' \subseteq held'
  BY <1>2, <1>4, <1>5 DEF JobPoolInv, TypeOK, PopInRange, poolVars, Recyclable
<1>8. \A x : x \in Recyclable /\ x # j => x \in Recyclable'
  BY <1>4 DEF Recyclable, poolVars
<1>9. \A p \in Threads : InHand(p)' => InHand(p) /\ job'[p] = job[p] /\ (j # Null => job[p] # j)
  BY <1>5 DEF JobPoolInv, TypeOK, InHand, OneHolder
<1>10. \A i \in DOMAIN elements' : elements'[i] # Null =>
         elements'[i] = elements[i] /\ elements[i] # j
  BY <1>1, <1>5 DEF JobPoolInv, TypeOK, OneHolder
<1>11. ASSUME NEW p \in Threads, InHand(p)'
       PROVE  /\ job'[p] \in Recyclable'
              /\ \A i \in DOMAIN elements' : elements'[i] # job'[p]
              /\ \A q \in Threads : InHand(q)' /\ job'[q] = job'[p] => q = p
  <2>1. job[p] \in Recyclable /\ job[p] # Null
    BY <1>9, <1>11, NullIsNoJob DEF JobPoolInv, OneHolder, TypeOK, Recyclable, Pool!TypeOK, Jobs
  <2>2. job'[p] \in Recyclable'
    BY <1>8, <1>9, <1>11, <2>1
  <2>3. \A i \in DOMAIN elements' : elements'[i] # job'[p]
    BY <1>9, <1>10, <1>11, <2>1, <1>5 DEF JobPoolInv, OneHolder, TypeOK
  <2> QED BY <1>9, <1>11, <2>2, <2>3 DEF JobPoolInv, OneHolder
<1>12. OneHolder'
  BY <1>5, <1>8, <1>10, <1>11 DEF JobPoolInv, OneHolder, TypeOK
<1> QED BY <1>3, <1>4, <1>6, <1>7, <1>12 DEF JobPoolInv

(* The owner's other steps move no job. *)
LEMMA OwnerQuietStep ==
  ASSUME JobPoolInv,
         AllocateJob \/ AllocationFails \/ FreeAllDone \/ PopRead \/ PopNext
  PROVE  JobPoolInv'
<1> USE DEF AllocateJob, AllocationFails, FreeAllDone, PopRead, PopNext, Call, Return, Goto,
        Threads, listVars, poolVars
<1>1. Alloc!PoolInv'
  BY PoolUnchanged DEF JobPoolInv
<1>2. TypeOK'
  <2>1. Pool!TypeOK' /\ elements' = elements /\ unfinished' = unfinished
    BY <1>1, PoolTypes
  <2>2. free_next' \in 0 .. Capacity /\ n' \in [Threads -> 0 .. Capacity]
    BY JobPoolAssumption DEF JobPoolInv, TypeOK, ListEmpty, PopInRange, InRange
  <2>3. pc' \in [Threads -> {"idle", "allocate", "free_all", "pop_next", "pop_element",
                            "pop_clear", "push", "push_next", "push_element"}]
        /\ job' \in [Threads -> Jobs \cup {Null}]
    BY DEF JobPoolInv, TypeOK
  <2>4. overlapped' \in BOOLEAN
    BY Zenon DEF JobPoolInv, TypeOK
  <2> QED BY <2>1, <2>2, <2>3, <2>4, Zenon DEF JobPoolInv, TypeOK
<1>3. PopInRange'
  BY JobPoolAssumption DEF JobPoolInv, TypeOK, ListEmpty, PopInRange, InRange
<1>4. Recyclable' = Recyclable /\ elements' = elements /\ unfinished' \subseteq held'
  BY DEF Recyclable, JobPoolInv
<1>5. \A p \in Threads : InHand(p)' => InHand(p) /\ job'[p] = job[p]
  BY DEF JobPoolInv, TypeOK, InHand
<1>6. pc'[Owner] # "pop_clear"
  BY DEF JobPoolInv, TypeOK
<1>7. OneHolder'
  BY <1>4, <1>5, <1>6 DEF JobPoolInv, OneHolder
<1> QED BY <1>1, <1>2, <1>3, <1>4, <1>7 DEF JobPoolInv

(* The owner reads an element: the job stays there until it is cleared.    *)
LEMMA PopElementStep == ASSUME JobPoolInv, PopElement PROVE JobPoolInv'
<1> USE DEF PopElement, Goto, Threads, listVars, poolVars
<1>1. Alloc!PoolInv'
  BY PoolUnchanged DEF JobPoolInv
<1>2. n[Owner] \in DOMAIN elements
  BY DEF JobPoolInv, TypeOK, PopInRange, InRange
<1>3. TypeOK'
  BY <1>1, <1>2, PoolTypes DEF JobPoolInv, TypeOK
<1>4. PopInRange' /\ Recyclable' = Recyclable /\ elements' = elements /\ n' = n
      /\ unfinished' \subseteq held'
  BY DEF JobPoolInv, TypeOK, PopInRange, InRange, Recyclable
<1>5. \A p \in Threads : InHand(p)' => InHand(p) /\ job'[p] = job[p]
  BY DEF JobPoolInv, TypeOK, InHand
<1>6. job'[Owner] = elements[n[Owner]]
  BY DEF JobPoolInv, TypeOK
<1>7. OneHolder'
  BY <1>2, <1>4, <1>5, <1>6 DEF JobPoolInv, OneHolder
<1> QED BY <1>1, <1>3, <1>4, <1>7 DEF JobPoolInv

(* free_job is called for a job that is handed out: nobody else has it.    *)
LEMMA PushReadStep ==
  ASSUME JobPoolInv, NEW p \in Threads, NEW j \in Jobs, PushRead(p, j)
  PROVE  JobPoolInv'
<1> USE DEF PushRead, Call, Goto, listVars, poolVars
<1>1. Alloc!PoolInv'
  BY PoolUnchanged DEF JobPoolInv
<1>2. TypeOK'
  BY <1>1, PoolTypes, JobPoolAssumption DEF JobPoolInv, TypeOK
<1>3. PopInRange' /\ unfinished' \subseteq held'
  BY DEF JobPoolInv, TypeOK, PopInRange, InRange, Threads
<1>4. Recyclable' = Recyclable \cup {j} /\ j \notin Recyclable
  BY DEF Recyclable, JobPoolInv
<1>5. \A q \in Threads : InHand(q)' => (q = p /\ job'[q] = j) \/ (q # p /\ InHand(q) /\ job'[q] = job[q])
  BY DEF JobPoolInv, TypeOK, InHand
<1>6. pc'[Owner] = "pop_clear" => pc[Owner] = "pop_clear" /\ job'[Owner] = job[Owner] /\ n'[Owner] = n[Owner]
  BY DEF JobPoolInv, TypeOK, Threads
<1>7. j # Null /\ elements' = elements
  BY NullIsNoJob
<1>8. OneHolder'
  BY <1>4, <1>5, <1>6, <1>7 DEF JobPoolInv, OneHolder
<1> QED BY <1>1, <1>2, <1>3, <1>8 DEF JobPoolInv

(* Raising next_ moves no job. *)
LEMMA PushNextStep ==
  ASSUME JobPoolInv, NEW p \in Threads, PushNext(p)
  PROVE  JobPoolInv'
<1> USE DEF PushNext, PushDone, Return, Goto, poolVars, Threads
<1>1. Alloc!PoolInv'
  BY PoolUnchanged DEF JobPoolInv
<1>2. TypeOK'
  BY <1>1, PoolTypes, JobPoolAssumption DEF JobPoolInv, TypeOK, InRange
<1>3. PopInRange' /\ unfinished' \subseteq held' /\ Recyclable' = Recyclable /\ elements' = elements
  BY DEF JobPoolInv, TypeOK, PopInRange, Recyclable, InRange
<1>4. \A q \in Threads : InHand(q)' => InHand(q) /\ job'[q] = job[q]
  BY DEF JobPoolInv, TypeOK, InHand
<1>5. pc'[Owner] = "pop_clear" => pc[Owner] = "pop_clear" /\ job'[Owner] = job[Owner] /\ n'[Owner] = n[Owner]
  BY DEF JobPoolInv, TypeOK
<1>6. OneHolder'
  BY <1>3, <1>4, <1>5 DEF JobPoolInv, OneHolder
<1> QED BY <1>1, <1>2, <1>3, <1>6 DEF JobPoolInv

(* Storing a job moves it from the thread's hands to the element. *)
LEMMA PushElementStep ==
  ASSUME JobPoolInv, NEW p \in Threads, PushElement(p)
  PROVE  JobPoolInv'
<1> USE DEF PushElement, PushDone, Return, Goto, poolVars, Threads
<1>1. Alloc!PoolInv'
  BY PoolUnchanged DEF JobPoolInv
<1>2. InHand(p) /\ n[p] \in DOMAIN elements /\ elements' = [elements EXCEPT ![n[p]] = job[p]]
  BY DEF InHand, InRange, JobPoolInv, TypeOK
<1>3. TypeOK'
  <2>1. Pool!TypeOK' /\ job[p] \in Jobs \cup {Null}
    BY <1>1, PoolTypes DEF JobPoolInv, TypeOK
  <2>2. elements' \in [0 .. (Capacity - 1) -> Jobs \cup {Null}]
    BY <1>2, <2>1 DEF JobPoolInv, TypeOK
  <2> QED BY <2>1, <2>2, JobPoolAssumption DEF JobPoolInv, TypeOK
<1>4. PopInRange' /\ unfinished' \subseteq held' /\ Recyclable' = Recyclable
  BY DEF JobPoolInv, TypeOK, PopInRange, Recyclable, InRange
<1>5. \A q \in Threads : InHand(q)' => q # p /\ InHand(q) /\ job'[q] = job[q]
  BY DEF JobPoolInv, TypeOK, InHand
<1>6. pc'[Owner] = "pop_clear" =>
        pc[Owner] = "pop_clear" /\ job'[Owner] = job[Owner] /\ n'[Owner] = n[Owner]
  BY DEF JobPoolInv, TypeOK
<1>7. \A i \in DOMAIN elements' :
        i \in DOMAIN elements /\ elements'[i] = IF i = n[p] THEN job[p] ELSE elements[i]
  BY <1>2 DEF JobPoolInv, TypeOK
<1>8. OneHolder'
  BY <1>2, <1>4, <1>5, <1>6, <1>7 DEF JobPoolInv, OneHolder
<1> QED BY <1>1, <1>3, <1>4, <1>8 DEF JobPoolInv

(* reset leaves nothing allocated and nothing on its way back. *)
LEMMA ResetStep == ASSUME JobPoolInv, Reset PROVE JobPoolInv'
<1> USE DEF Reset, Threads
<1>1. Alloc!PoolInv'
  <2>1. Alloc!Reset
    BY SamePool
  <2>2. Alloc!TypeOK' /\ (Alloc!FreeCount)' = Capacity
    BY <2>1, JobPoolAssumption
       DEF JobPoolInv, Alloc!PoolInv, Alloc!Reset, Alloc!ClearCount, Alloc!TypeOK,
           Alloc!FreeCount, Alloc!Memory, Alloc!Blocks, Alloc!End
  <2>3. PICK c \in [0 .. Capacity -> Alloc!Memory] : \A i \in 0 .. Capacity : c[i] = i
    BY AllocatorAssumption, Alloc!SuccessorList
  <2>4. Alloc!IsFreeList(c)'
    BY <2>1, <2>2, <2>3, JobPoolAssumption
       DEF Alloc!IsFreeList, Alloc!Reset, Alloc!Blocks, Alloc!Memory, Alloc!End
  <2> QED BY <2>2, <2>3, <2>4 DEF Alloc!PoolInv, Alloc!FreeListIntact
<1>2. TypeOK'
  <2>1. Pool!TypeOK'
    BY <1>1, PoolTypes
  <2>2. elements' \in [0 .. (Capacity - 1) -> Jobs \cup {Null}]
    OBVIOUS
  <2>3. free_next' \in 0 .. Capacity
    BY JobPoolAssumption
  <2>4. unfinished' \in SUBSET Jobs /\ overlapped' \in BOOLEAN
    OBVIOUS
  <2> QED BY <2>1, <2>2, <2>3, <2>4, Zenon DEF JobPoolInv, TypeOK
<1>3. OneHolder' /\ PopInRange' /\ unfinished' \subseteq held'
  BY <1>2 DEF OneHolder, PopInRange, InHand, TypeOK
<1> QED BY <1>1, <1>2, <1>3 DEF JobPoolInv

(* Initially nothing is allocated. *)
LEMMA InitStep == Init => JobPoolInv
<1> SUFFICES ASSUME Init PROVE JobPoolInv
  OBVIOUS
<1> USE DEF Init, Threads
<1>1. Alloc!PoolInv
  <2>1. Alloc!Init
    BY SamePool
  <2>2. Alloc!TypeOK /\ Alloc!FreeCount = Capacity
    BY <2>1, JobPoolAssumption
       DEF Alloc!Init, Alloc!TypeOK, Alloc!FreeCount, Alloc!Memory, Alloc!Blocks, Alloc!End
  <2>3. PICK c \in [0 .. Capacity -> Alloc!Memory] : \A i \in 0 .. Capacity : c[i] = i
    BY AllocatorAssumption, Alloc!SuccessorList
  <2>4. Alloc!IsFreeList(c)
    BY <2>1, <2>2, <2>3, JobPoolAssumption
       DEF Alloc!IsFreeList, Alloc!Init, Alloc!Blocks, Alloc!Memory, Alloc!End
  <2> QED BY <2>2, <2>3, <2>4 DEF Alloc!PoolInv, Alloc!FreeListIntact
<1>2. TypeOK
  <2>1. Pool!TypeOK
    BY <1>1, PoolTypes
  <2>2. elements \in [0 .. (Capacity - 1) -> Jobs \cup {Null}]
    OBVIOUS
  <2>3. job \in [Threads -> Jobs \cup {Null}]
    OBVIOUS
  <2>4. /\ free_next \in 0 .. Capacity
        /\ n \in [Threads -> 0 .. Capacity]
    BY JobPoolAssumption
  <2>5. unfinished \in SUBSET Jobs /\ overlapped \in BOOLEAN
    OBVIOUS
  <2> QED BY <2>1, <2>2, <2>3, <2>4, <2>5, Zenon DEF TypeOK
<1>3. OneHolder /\ PopInRange /\ unfinished \subseteq held
  BY DEF OneHolder, PopInRange, InHand, Pool!Init
<1> QED BY <1>1, <1>2, <1>3 DEF JobPoolInv

(* Nothing happens. *)
LEMMA Stutter == ASSUME JobPoolInv, UNCHANGED vars PROVE JobPoolInv'
<1> USE DEF vars, poolVars, listVars
<1>1. Alloc!PoolInv'
  BY PoolUnchanged DEF JobPoolInv
<1>2. TypeOK'
  BY <1>1, PoolTypes DEF JobPoolInv, TypeOK
<1>3. OneHolder' /\ PopInRange' /\ unfinished' \subseteq held'
  BY DEF JobPoolInv, OneHolder, PopInRange, InHand, Recyclable
<1> QED BY <1>1, <1>2, <1>3 DEF JobPoolInv

(* Every step keeps the invariant. *)
LEMMA PoolStep == JobPoolInv /\ [Next]_vars => JobPoolInv'
BY AllocationStep, PopClearStep, OwnerQuietStep, PopElementStep, PushReadStep, PushNextStep,
   PushElementStep, ResetStep, Stutter DEF Next, OwnerStep, FreeJob

(* The inductive invariant holds of every behaviour.                       *)
THEOREM JobPoolInvariant == Spec => []JobPoolInv
BY InitStep, PoolStep, PTL DEF Spec

(* Every variable keeps its type: free_next never leaves the list.         *)
THEOREM TypeCorrect == Spec => []TypeOK
<1>1. JobPoolInv => TypeOK
  BY DEF JobPoolInv
<1> QED BY <1>1, JobPoolInvariant, PTL

(* A job to be recycled is never in two places.                            *)
THEOREM JobsHaveOneHolder == Spec => []OneHolder
<1>1. JobPoolInv => OneHolder
  BY DEF JobPoolInv
<1> QED BY <1>1, JobPoolInvariant, PTL

(* No job is recycled before free_job was called for it and has stored it. *)
THEOREM UnfinishedAreKept == Spec => []UnfinishedStayAllocated
<1>1. JobPoolInv => UnfinishedStayAllocated
  BY DEF JobPoolInv, UnfinishedStayAllocated, OneHolder, InHand, Recyclable
<1> QED BY <1>1, JobPoolInvariant, PTL

(* Each step of the pool is one of the allocator's under its contract, or  *)
(* none of them.                                                           *)
LEMMA ContractStep ==
  ASSUME JobPoolInv, [Next]_vars
  PROVE  [Contract!Next]_(Contract!vars)
<1> USE DEF poolVars, Contract!vars
<1>1. CASE Allocation
  BY <1>1 DEF Allocation, Contract!Next, Pool!Allocate, Contract!Allocate, Pool!Exhausted,
     Contract!Exhausted
<1>2. CASE PopClear
  <2>1. job[Owner] \in held \cup {Null} /\ job[Owner] \in Jobs \cup {Null}
    BY <1>2, PopClearStep DEF JobPoolInv, TypeOK, Threads
  <2>2. CASE Pool!Refuses(job[Owner])
    BY <1>2, <2>2 DEF PopClear
  <2>3. CASE ~Pool!Refuses(job[Owner])
    <3>1. job[Owner] \in Contract!Pointers /\ job[Owner] \in held
      BY <2>1, <2>3 DEF Contract!Pointers, Contract!Memory, Contract!Blocks, Jobs, Pool!Blocks,
         Pool!Refuses, Null
    <3>2. Contract!Free(job[Owner])
      BY <1>2, <2>3, <3>1 DEF PopClear, Pool!Free, Contract!Free, Contract!MayFree,
         Pool!Refuses, Contract!Refuses, Pool!LinkNext, Contract!LinkNext, Pool!Null,
         Contract!Null, Pool!Memory, Contract!Memory, Pool!Blocks, Contract!Blocks, Pool!End,
         Contract!End
    <3> QED BY <3>1, <3>2 DEF Contract!Next
  <2> QED BY <2>2, <2>3
<1>3. CASE Reset
  BY <1>3 DEF Reset, Contract!Next, Pool!Reset, Contract!Reset, Pool!ClearCount,
     Contract!ClearCount, Pool!Memory, Contract!Memory, Pool!Blocks, Contract!Blocks, Pool!End,
     Contract!End
<1>4. CASE UNCHANGED poolVars
  BY <1>4
<1> QED
  BY <1>1, <1>2, <1>3, <1>4 DEF Next, OwnerStep, FreeJob, vars, AllocateJob, AllocationFails,
     FreeAllDone, PopRead, PopNext, PopElement, PushRead, PushNext, PushElement

(* What the proofs of FixedPoolAllocator assume of its client is true of   *)
(* the job pool: the pool refines the allocator under its contract.        *)
THEOREM AllocatorContract == Spec => KeepsAllocatorContract
<1>1. Init => Contract!Init
  BY DEF Init, Pool!Init, Contract!Init, Pool!Memory, Contract!Memory, Pool!Blocks,
     Contract!Blocks, Pool!End, Contract!End
<1>2. JobPoolInv /\ [Next]_vars => [Contract!Next]_(Contract!vars)
  BY ContractStep
<1> QED BY <1>1, <1>2, JobPoolInvariant, PTL DEF Spec, KeepsAllocatorContract, Contract!Spec

--------------------------------------------------------------------------------
(* Calls that do not overlap keep the free list a stack.                   *)

(* The elements that hold a job: all below next_, except that between the  *)
(* two stores of a push or of a pop the one at the top is out of step.     *)
Height ==
  free_next
    + (IF \E p \in Threads : pc[p] \in {"pop_element", "pop_clear", "push_next"} THEN 1 ELSE 0)
    - (IF \E p \in Threads : pc[p] = "push_element" THEN 1 ELSE 0)

(* The index a call works with is at the top. *)
AtTop(p) ==
  /\ pc[p] = "pop_next" => n[p] = free_next - 1
  /\ pc[p] \in {"pop_element", "pop_clear", "push", "push_next"} => n[p] = free_next
  /\ pc[p] = "push_element" => n[p] = free_next - 1
  /\ pc[p] \in {"push", "push_next", "push_element"} => InRange(n[p])
  /\ pc[p] = "pop_clear" => job[p] = elements[n[p]]
  /\ pc[p] = "allocate" /\ Pool!Exhausted => free_next = 0

(* A job to be recycled is on the list or in the hands of a thread. *)
Kept(j) ==
  \/ \E i \in DOMAIN elements : elements[i] = j
  \/ \E p \in Threads : InHand(p) /\ job[p] = j

Solo ==
  /\ \A p, q \in Threads : pc[p] # "idle" /\ pc[q] # "idle" => p = q
  /\ \A p \in Threads : AtTop(p)
  /\ \A i \in DOMAIN elements : elements[i] # Null <=> i < Height
  /\ \A j \in Recyclable : Kept(j)

SoloInv == ~overlapped => Solo

(* By what the allocator promises under its contract, it is exhausted only *)
(* when every block is out, and not empty while one is.                    *)
LEMMA CountInvariant == Spec => []Alloc!CountsHeldBlocks
<1>1. Contract!Init <=> Alloc!Init
  BY DEF Contract!Init, Alloc!Init, Contract!Memory, Alloc!Memory, Contract!Blocks,
     Alloc!Blocks, Contract!End, Alloc!End
<1>2. [Contract!Next]_(Contract!vars) <=> [Alloc!Next]_(Alloc!vars)
  BY DEF Contract!Next, Alloc!Next, Contract!vars, Alloc!vars, Contract!Allocate,
     Alloc!Allocate, Contract!Exhausted, Alloc!Exhausted, Contract!Write, Alloc!Write,
     Contract!Free, Alloc!Free, Contract!MayFree, Alloc!MayFree, Contract!Refuses,
     Alloc!Refuses, Contract!LinkNext, Alloc!LinkNext, Contract!Null, Alloc!Null,
     Contract!Pointers, Alloc!Pointers, Contract!Foreign, Alloc!Foreign, Contract!Reset,
     Alloc!Reset, Contract!ClearCount, Alloc!ClearCount, Contract!Memory, Alloc!Memory,
     Contract!Blocks, Alloc!Blocks, Contract!End, Alloc!End
<1>3. Alloc!Spec => []Alloc!CountsHeldBlocks
  BY AllocatorAssumption, Alloc!CounterIsExact
<1> QED
  BY <1>1, <1>2, <1>3, AllocatorContract, PTL
     DEF KeepsAllocatorContract, Contract!Spec, Alloc!Spec

LEMMA Counted ==
  ASSUME JobPoolInv, Alloc!CountsHeldBlocks
  PROVE  /\ Pool!Exhausted => held = Jobs
         /\ \A j \in held : ~Pool!Refuses(j)
<1>a. Capacity \in Nat \ {0} /\ Jobs = 0 .. (Capacity - 1) /\ held \subseteq Jobs
  BY JobPoolAssumption DEF JobPoolInv, TypeOK, Pool!TypeOK, Jobs, Pool!Blocks
<1>1. IsFiniteSet(Jobs) /\ Cardinality(Jobs) = Capacity
  BY <1>a, FS_Interval
<1>2. IsFiniteSet(held) /\ (Cardinality(held) = Cardinality(Jobs) => held = Jobs)
  BY <1>a, <1>1, FS_Subset
<1>3. blocks_initialized = Cardinality(held)
  BY DEF Alloc!CountsHeldBlocks, Alloc!Cardinality, Cardinality
<1>4. Pool!Exhausted => held = Jobs
  BY <1>1, <1>2, <1>3 DEF Pool!Exhausted
<1>5. ASSUME NEW j \in held PROVE ~Pool!Refuses(j)
  <2>1. Cardinality(held) \in Nat /\ Cardinality(held) # 0
    BY <1>2, FS_CardinalityType, FS_EmptySet
  <2>2. j \in Pool!Memory /\ j # Pool!Null
    BY <1>a DEF Pool!Memory, Jobs, Pool!Null
  <2> QED BY <1>3, <2>1, <2>2 DEF Pool!Refuses
<1> QED BY <1>4, <1>5

(* Nobody but p has a call under way. *)
Alone(p) == \A q \in Threads : q # p => pc[q] = "idle"

LEMMA HeightAlone ==
  ASSUME NEW p \in Threads
  PROVE  /\ Alone(p) => Height = free_next
                + (IF pc[p] \in {"pop_element", "pop_clear", "push_next"} THEN 1 ELSE 0)
                - (IF pc[p] = "push_element" THEN 1 ELSE 0)
         /\ (Alone(p) => Height = free_next
                + (IF pc[p] \in {"pop_element", "pop_clear", "push_next"} THEN 1 ELSE 0)
                - (IF pc[p] = "push_element" THEN 1 ELSE 0))'
<1>1. Alone(p) =>
        /\ (\E q \in Threads : pc[q] \in {"pop_element", "pop_clear", "push_next"})
             <=> pc[p] \in {"pop_element", "pop_clear", "push_next"}
        /\ (\E q \in Threads : pc[q] = "push_element") <=> pc[p] = "push_element"
  BY DEF Alone
<1>2. (Alone(p) =>
        /\ (\E q \in Threads : pc[q] \in {"pop_element", "pop_clear", "push_next"})
             <=> pc[p] \in {"pop_element", "pop_clear", "push_next"}
        /\ (\E q \in Threads : pc[q] = "push_element") <=> pc[p] = "push_element")'
  BY DEF Alone
<1> QED BY <1>1, <1>2 DEF Height

(* What is to be shown of a step of the only call under way. *)
LEMMA SoloAlone ==
  ASSUME NEW p \in Threads, Alone(p)', AtTop(p)',
         \A i \in DOMAIN elements' : elements'[i] # Null <=> i < Height',
         \A j \in Recyclable' : Kept(j)'
  PROVE  Solo'
<1>1. \A q \in Threads : AtTop(q)'
  BY DEF AtTop, Alone
<1> QED BY <1>1 DEF Solo, Alone

(* A job that free_job is called for has room: the list holds other jobs,  *)
(* each of them once.                                                      *)
LEMMA Room ==
  ASSUME JobPoolInv, Solo, \A p \in Threads : pc[p] = "idle", NEW j \in unfinished
  PROVE  free_next < Capacity
<1> SUFFICES ASSUME free_next = Capacity PROVE FALSE
  BY JobPoolAssumption DEF JobPoolInv, TypeOK
<1> DEFINE S == 0 .. (Capacity - 1)
           T == S \ {j}
<1>a. Capacity \in Nat \ {0} /\ Jobs = S /\ DOMAIN elements = S /\ j \in S
  BY JobPoolAssumption DEF JobPoolInv, TypeOK, Jobs, Pool!Blocks
<1>1. Height = Capacity
  BY <1>a DEF Height
<1>2. \A i \in S : elements[i] # Null
  BY <1>1, <1>a DEF Solo
<1>3. elements \in [S -> T]
  BY <1>a, <1>2 DEF JobPoolInv, OneHolder, Recyclable, TypeOK
<1>4. \A i, k \in S : elements[i] = elements[k] => i = k
  BY <1>a, <1>2 DEF JobPoolInv, OneHolder
<1>5. IsFiniteSet(S) /\ Cardinality(S) = Capacity /\ T = S \ {j} /\ j \in S
  BY <1>a, FS_Interval
<1> HIDE DEF S, T
<1>6. IsFiniteSet(T) /\ Cardinality(T) = Capacity - 1
  BY <1>5, FS_RemoveElement
<1>7. \E i, k \in S : i # k /\ elements[i] = elements[k]
  BY <1>a, <1>3, <1>5, <1>6, FS_PigeonHole
<1> QED BY <1>4, <1>7

(* The steps of allocate_job that take nothing off the list. *)
LEMMA SoloQuiet ==
  ASSUME JobPoolInv, Solo, NEW label,
         \A q \in Threads : q # Owner => pc[q] = "idle",
         pc' = [pc EXCEPT ![Owner] = label], label \in {"idle", "allocate", "free_all", "pop_next"},
         pc[Owner] \in {"idle", "allocate", "free_all"},
         UNCHANGED <<elements, free_next>>, Recyclable' = Recyclable,
         label = "allocate" => free_next = 0 \/ ~Pool!Exhausted',
         label = "pop_next" => n'[Owner] = free_next - 1
  PROVE  Solo'
<1> DEFINE p == Owner
<1>a. p \in Threads /\ Alone(p)
  BY DEF Threads, Alone
<1>1. Alone(p)' /\ pc'[p] = label
  BY <1>a DEF Alone, JobPoolInv, TypeOK
<1>2. Height = free_next /\ Height' = free_next
  <2>1. free_next \in Int /\ free_next' = free_next
    BY JobPoolAssumption DEF JobPoolInv, TypeOK
  <2>2. Height = free_next
    BY <1>a, <2>1, HeightAlone
  <2>3. Height' = free_next'
    BY <1>a, <1>1, <2>1, HeightAlone
  <2> QED BY <2>1, <2>2, <2>3
<1>3. AtTop(p)'
  BY <1>1 DEF AtTop
<1>4. ASSUME NEW j \in Recyclable' PROVE Kept(j)'
  <2>1. \A q \in Threads : ~InHand(q)
    BY <1>a DEF Alone, InHand
  <2>2. \E i \in DOMAIN elements : elements[i] = j
    BY <1>4, <2>1 DEF Solo, Kept
  <2> QED BY <2>2 DEF Kept
<1>5. \A i \in DOMAIN elements' : elements'[i] # Null <=> i < Height'
  BY <1>2 DEF Solo
<1> QED BY <1>a, <1>1, <1>3, <1>4, <1>5, SoloAlone

(* The owner takes the job at the top. *)
LEMMA SoloPop ==
  ASSUME JobPoolInv, Alloc!CountsHeldBlocks, Solo, PopNext \/ PopElement \/ PopClear
  PROVE  Solo'
<1> DEFINE p == Owner
<1>a. /\ p \in Threads /\ free_next \in 0 .. Capacity /\ Capacity \in Nat
      /\ DOMAIN elements = 0 .. (Capacity - 1)
  BY JobPoolAssumption DEF Threads, JobPoolInv, TypeOK
<1>b. Alone(p)
  BY <1>a DEF Solo, Alone, PopNext, PopElement, PopClear
<1>c. \A q \in Threads : ~InHand(q) /\ ~InHand(q)'
  BY <1>b DEF Alone, InHand, PopNext, PopElement, PopClear, Goto, JobPoolInv, TypeOK
<1>d. AtTop(p) /\ n[p] \in 0 .. (Capacity - 1)
  BY <1>a DEF Solo, JobPoolInv, PopInRange, InRange, PopNext, PopElement, PopClear
<1>e. Alone(p)'
  BY <1>b DEF Alone, PopNext, PopElement, PopClear, Goto, JobPoolInv, TypeOK
<1>f. \A j \in Recyclable : \E i \in DOMAIN elements : elements[i] = j
  BY <1>c DEF Solo, Kept
<1>1. CASE PopNext
  <2>1. /\ pc[p] = "pop_next" /\ pc'[p] = "pop_element" /\ free_next' = n[p]
        /\ UNCHANGED <<elements, n, Recyclable>>
    BY <1>1, <1>a DEF PopNext, Goto, JobPoolInv, TypeOK, poolVars, Recyclable
  <2>2. n[p] = free_next - 1
    BY <1>d, <2>1 DEF AtTop
  <2>3. Height = free_next /\ Height' = free_next
    BY <1>a, <1>b, <1>e, <2>1, <2>2, HeightAlone
  <2>4. AtTop(p)'
    BY <2>1 DEF AtTop
  <2>5. \A i \in DOMAIN elements' : elements'[i] # Null <=> i < Height'
    BY <2>1, <2>3 DEF Solo
  <2>6. \A j \in Recyclable' : Kept(j)'
    BY <1>f, <2>1 DEF Kept
  <2> QED BY <1>a, <1>e, <2>4, <2>5, <2>6, SoloAlone
<1>2. CASE PopElement
  <2>1. /\ pc[p] = "pop_element" /\ pc'[p] = "pop_clear" /\ job'[p] = elements[n[p]]
        /\ UNCHANGED <<elements, free_next, n, Recyclable>>
    BY <1>2, <1>a DEF PopElement, Goto, JobPoolInv, TypeOK, poolVars, listVars, Recyclable
  <2>2. n[p] = free_next
    BY <1>d, <2>1 DEF AtTop
  <2>3. Height = free_next + 1 /\ Height' = free_next + 1
    BY <1>a, <1>b, <1>e, <2>1, HeightAlone
  <2>4. AtTop(p)'
    BY <2>1, <2>2 DEF AtTop
  <2>5. \A i \in DOMAIN elements' : elements'[i] # Null <=> i < Height'
    BY <2>1, <2>3 DEF Solo
  <2>6. \A j \in Recyclable' : Kept(j)'
    BY <1>f, <2>1 DEF Kept
  <2> QED BY <1>a, <1>e, <2>4, <2>5, <2>6, SoloAlone
<1>3. CASE PopClear
  <2>1. /\ pc[p] = "pop_clear" /\ pc'[p] = "free_all" /\ UNCHANGED <<free_next, unfinished>>
        /\ elements' = [elements EXCEPT ![n[p]] = Null]
    BY <1>3, <1>a DEF PopClear, ClearElement, Goto, JobPoolInv, TypeOK
  <2>2. n[p] = free_next /\ job[p] = elements[n[p]]
    BY <1>d, <2>1 DEF AtTop
  <2>3. Height = free_next + 1 /\ Height' = free_next
    <3>1. Height = free_next + 1
      BY <1>a, <1>b, <2>1, HeightAlone
    <3>2. Height' = free_next'
      BY <1>a, <1>e, <2>1, HeightAlone
    <3> QED BY <2>1, <3>1, <3>2
  <2>4. job[p] # Null /\ job[p] \in held /\ job[p] \in Jobs
    BY <1>a, <1>d, <2>2, <2>3 DEF Solo, JobPoolInv, OneHolder, Recyclable, TypeOK
  <2>5. Recyclable' \subseteq Recyclable /\ Recyclable' \subseteq held'
    BY <1>3, <2>1 DEF PopClear, Pool!Free, poolVars, Recyclable
  <2>6. job[p] \notin held'
    BY <1>3, <2>4, Counted DEF PopClear, Pool!Free
  <2>7. AtTop(p)'
    BY <2>1 DEF AtTop
  <2>8. \A i \in DOMAIN elements' : elements'[i] # Null <=> i < Height'
    BY <1>a, <1>d, <2>1, <2>2, <2>3 DEF Solo, JobPoolInv, TypeOK
  <2>9. ASSUME NEW j \in Recyclable' PROVE Kept(j)'
    <3>1. j # job[p] /\ j \in Recyclable
      BY <2>5, <2>6, <2>9
    <3>2. PICK i \in DOMAIN elements : elements[i] = j
      BY <1>f, <3>1
    <3>3. elements'[i] = j /\ i \in DOMAIN elements'
      BY <2>1, <2>2, <3>1, <3>2 DEF JobPoolInv, TypeOK
    <3> QED BY <3>3 DEF Kept
  <2> QED BY <1>a, <1>e, <2>7, <2>8, <2>9, SoloAlone
<1> QED BY <1>1, <1>2, <1>3

(* free_job is called, and the thread reads next_. *)
LEMMA SoloPushRead ==
  ASSUME JobPoolInv, Solo, NEW p \in Threads, NEW j \in Jobs, PushRead(p, j),
         \A q \in Threads : pc[q] = "idle"
  PROVE  Solo'
<1>a. free_next \in 0 .. Capacity /\ Capacity \in Nat
  BY JobPoolAssumption DEF JobPoolInv, TypeOK
<1>1. /\ pc' = [pc EXCEPT ![p] = "push"] /\ n' = [n EXCEPT ![p] = free_next]
      /\ job' = [job EXCEPT ![p] = j] /\ unfinished' = unfinished \ {j} /\ j \in unfinished
      /\ UNCHANGED <<elements, free_next, held>>
  BY DEF PushRead, Call, Goto, poolVars, listVars
<1>2. Alone(p) /\ Alone(p)' /\ pc'[p] = "push" /\ n'[p] = free_next /\ job'[p] = j
  BY <1>1 DEF Alone, JobPoolInv, TypeOK
<1>3. Height = free_next
  BY <1>a, <1>2, HeightAlone
<1>4. Height' = free_next'
  BY <1>a, <1>1, <1>2, HeightAlone
<1>5. InRange(free_next)
  BY <1>a, <1>1, Room DEF InRange
<1>6. AtTop(p)'
  BY <1>1, <1>2, <1>5 DEF AtTop, InRange
<1>7. \A i \in DOMAIN elements' : elements'[i] # Null <=> i < Height'
  BY <1>1, <1>3, <1>4 DEF Solo
<1>8. ASSUME NEW k \in Recyclable' PROVE Kept(k)'
  <2>1. CASE k = j
    BY <1>2, <2>1 DEF Kept, InHand
  <2>2. CASE k # j
    <3>1. k \in Recyclable /\ \A q \in Threads : ~InHand(q)
      BY <1>1, <1>8, <2>2 DEF Recyclable, InHand
    <3>2. \E i \in DOMAIN elements : elements[i] = k
      BY <3>1 DEF Solo, Kept
    <3> QED BY <1>1, <3>2 DEF Kept
  <2> QED BY <2>1, <2>2
<1> QED BY <1>2, <1>6, <1>7, <1>8, SoloAlone

(* A push stores its job at the top, and raises next_, in either order. *)
LEMMA SoloPush ==
  ASSUME JobPoolInv, Solo, NEW p \in Threads, PushNext(p) \/ PushElement(p)
  PROVE  Solo'
<1>a. /\ free_next \in 0 .. Capacity /\ Capacity \in Nat
      /\ DOMAIN elements = 0 .. (Capacity - 1)
      /\ n[p] \in 0 .. (Capacity - 1)
  BY JobPoolAssumption DEF JobPoolInv, TypeOK, PushNext, PushElement, InRange
<1>b. Alone(p) /\ AtTop(p)
  BY DEF Solo, Alone, PushNext, PushElement, PushDone
<1>c. Alone(p)'
  BY <1>b DEF Alone, PushNext, PushElement, PushDone, Goto, Return, JobPoolInv, TypeOK
<1>d. \A q \in Threads : (InHand(q) => q = p) /\ (InHand(q)' => q = p)
  BY <1>b, <1>c DEF Alone, InHand
<1>e. Recyclable' = Recyclable
  BY DEF PushNext, PushElement, poolVars, Recyclable
<1>1. CASE PushNext(p)
  <2>1. elements' = elements /\ free_next' = n[p] + 1
    BY <1>1 DEF PushNext
  <2>2. CASE pc[p] = "push"
    <3>1. pc'[p] = "push_element" /\ n' = n /\ job' = job
      BY <1>1, <2>2 DEF PushNext, PushDone, Goto, JobPoolInv, TypeOK
    <3>2. n[p] = free_next
      BY <1>b, <2>2 DEF AtTop
    <3>3. Height = free_next
      BY <1>a, <1>b, <2>2, HeightAlone
    <3>4. Height' = free_next
      <4>1. Height' = free_next' - 1
        BY <1>a, <1>c, <2>1, <3>1, HeightAlone
      <4> QED BY <1>a, <2>1, <3>2, <4>1
    <3>5. AtTop(p)'
      BY <1>a, <2>1, <3>1 DEF AtTop, InRange
    <3>6. \A i \in DOMAIN elements' : elements'[i] # Null <=> i < Height'
      BY <2>1, <3>3, <3>4 DEF Solo
    <3>7. \A q \in Threads : InHand(q) => InHand(q)' /\ job'[q] = job[q]
      BY <1>d, <3>1 DEF InHand
    <3>8. \A j \in Recyclable' : Kept(j)'
      BY <1>e, <2>1, <3>7 DEF Solo, Kept
    <3> QED BY <1>c, <3>5, <3>6, <3>8, SoloAlone
  <2>3. CASE pc[p] = "push_next"
    <3>1. pc'[p] = "idle"
      BY <1>1, <2>3 DEF PushNext, PushDone, Return, Goto, JobPoolInv, TypeOK
    <3>2. n[p] = free_next
      BY <1>b, <2>3 DEF AtTop
    <3>3. Height = free_next + 1
      BY <1>a, <1>b, <2>3, HeightAlone
    <3>4. Height' = free_next'
      BY <1>a, <1>c, <2>1, <3>1, HeightAlone
    <3>5. AtTop(p)'
      BY <3>1 DEF AtTop
    <3>6. \A i \in DOMAIN elements' : elements'[i] # Null <=> i < Height'
      BY <2>1, <3>2, <3>3, <3>4 DEF Solo
    <3>7. \A q \in Threads : ~InHand(q)
      BY <1>d, <2>3 DEF InHand
    <3>8. \A j \in Recyclable' : Kept(j)'
      BY <1>e, <2>1, <3>7 DEF Solo, Kept
    <3> QED BY <1>c, <3>5, <3>6, <3>8, SoloAlone
  <2> QED BY <1>1, <2>2, <2>3 DEF PushNext, PushDone
<1>2. CASE PushElement(p)
  <2>1. /\ elements' = [elements EXCEPT ![n[p]] = job[p]] /\ free_next' = free_next
        /\ InHand(p) /\ job[p] # Null
    <3>1. InHand(p)
      BY <1>2 DEF PushElement, PushDone, InHand
    <3>2. job[p] \in Jobs
      BY <3>1 DEF JobPoolInv, OneHolder, Recyclable, TypeOK, Pool!TypeOK, Jobs
    <3> QED BY <1>2, <3>1, <3>2, NullIsNoJob DEF PushElement
  <2>2. DOMAIN elements' = DOMAIN elements /\ n[p] \in DOMAIN elements
        /\ \A i \in DOMAIN elements : elements'[i] = IF i = n[p] THEN job[p] ELSE elements[i]
    BY <1>a, <2>1 DEF JobPoolInv, TypeOK
  <2>3. ~(n[p] < Height) /\ Height' = n[p] + 1 /\ AtTop(p)' /\ Height = n[p]
    <3>1. CASE pc[p] = "push"
      <4>1. pc'[p] = "push_next" /\ n' = n
        BY <1>2, <3>1 DEF PushElement, PushDone, Goto, JobPoolInv, TypeOK
      <4>2. n[p] = free_next
        BY <1>b, <3>1 DEF AtTop
      <4>3. Height = free_next
        BY <1>a, <1>b, <3>1, HeightAlone
      <4>4. Height' = free_next + 1
        BY <1>a, <1>c, <2>1, <4>1, HeightAlone
      <4>5. AtTop(p)'
        BY <1>a, <2>1, <4>1, <4>2 DEF AtTop, InRange
      <4> QED BY <1>a, <4>2, <4>3, <4>4, <4>5
    <3>2. CASE pc[p] = "push_element"
      <4>1. pc'[p] = "idle"
        BY <1>2, <3>2 DEF PushElement, PushDone, Return, Goto, JobPoolInv, TypeOK
      <4>2. n[p] = free_next - 1
        BY <1>b, <3>2 DEF AtTop
      <4>3. Height = free_next - 1
        BY <1>a, <1>b, <3>2, HeightAlone
      <4>4. Height' = free_next
        BY <1>a, <1>c, <2>1, <4>1, HeightAlone
      <4>5. AtTop(p)'
        BY <4>1 DEF AtTop
      <4> QED BY <1>a, <4>2, <4>3, <4>4, <4>5
    <3> QED BY <1>2, <3>1, <3>2 DEF PushElement, PushDone
  <2>4. \A i \in DOMAIN elements' : elements'[i] # Null <=> i < Height'
    <3> TAKE i \in DOMAIN elements'
    <3>1. elements[i] # Null <=> i < n[p]
      BY <2>2, <2>3 DEF Solo
    <3> QED BY <1>a, <2>1, <2>2, <2>3, <3>1
  <2>5. ASSUME NEW j \in Recyclable' PROVE Kept(j)'
    <3>1. CASE j = job[p]
      BY <2>2, <3>1 DEF Kept
    <3>2. CASE j # job[p]
      <4>1. PICK i \in DOMAIN elements : elements[i] = j
        BY <1>d, <1>e, <2>5, <3>2 DEF Solo, Kept
      <4>2. i # n[p]
        BY <1>a, <2>3, <2>5, <4>1, <1>e, NullIsNoJob
           DEF Solo, Recyclable, JobPoolInv, TypeOK, Pool!TypeOK, Jobs
      <4> QED BY <2>2, <4>1, <4>2 DEF Kept
    <3> QED BY <3>1, <3>2
  <2> QED BY <1>c, <2>3, <2>4, <2>5, SoloAlone
<1> QED BY <1>1, <1>2

LEMMA SoloAllocate ==
  ASSUME JobPoolInv, Solo,
         \/ AllocateJob /\ \A q \in Threads : pc[q] = "idle"
         \/ Allocation \/ AllocationFails \/ FreeAllDone \/ PopRead
  PROVE  Solo'
<1>a. Owner \in Threads /\ free_next \in Nat
  BY DEF Threads, JobPoolInv, TypeOK
<1>1. \A q \in Threads : q # Owner => pc[q] = "idle"
  BY <1>a DEF Solo, Allocation, AllocationFails, FreeAllDone, PopRead
<1>2. CASE AllocateJob
  <2>1. /\ pc[Owner] = "idle"
        /\ pc' = [pc EXCEPT ![Owner] = IF Pool!Exhausted THEN "free_all" ELSE "allocate"]
        /\ UNCHANGED <<elements, free_next, blocks_initialized>> /\ Recyclable' = Recyclable
    BY <1>2 DEF AllocateJob, Call, Goto, poolVars, listVars, Recyclable
  <2>2. CASE Pool!Exhausted
    BY <1>1, <2>1, <2>2, SoloQuiet
  <2>3. CASE ~Pool!Exhausted
    <3>1. ~Pool!Exhausted'
      BY <2>1, <2>3 DEF Pool!Exhausted
    <3> QED BY <1>1, <2>1, <2>3, <3>1, SoloQuiet
  <2> QED BY <2>2, <2>3
<1>3. CASE Allocation \/ AllocationFails
  <2>1. /\ pc[Owner] = "allocate" /\ pc' = [pc EXCEPT ![Owner] = "idle"]
        /\ UNCHANGED <<elements, free_next>>
    BY <1>3 DEF Allocation, AllocationFails, Return, Goto, listVars
  <2>2. Recyclable' = Recyclable
    <3>1. CASE Allocation
      <4>1. next \notin held
        BY <3>1, AllocatorAssumption, SamePool, Alloc!AllocateStep
           DEF Allocation, JobPoolInv
      <4> QED BY <3>1, <4>1 DEF Allocation, Pool!Allocate, Recyclable, JobPoolInv
    <3>2. CASE AllocationFails
      BY <3>2 DEF AllocationFails, poolVars, Recyclable
    <3> QED BY <1>3, <3>1, <3>2
  <2> QED BY <1>1, <2>1, <2>2, SoloQuiet
<1>4. CASE FreeAllDone
  <2>1. /\ pc[Owner] = "free_all" /\ pc' = [pc EXCEPT ![Owner] = "allocate"]
        /\ UNCHANGED <<elements, free_next>> /\ Recyclable' = Recyclable /\ free_next = 0
    BY <1>a, <1>4 DEF FreeAllDone, ListEmpty, Goto, poolVars, listVars, Recyclable
  <2> QED BY <1>1, <2>1, SoloQuiet
<1>5. CASE PopRead
  <2>1. /\ pc[Owner] = "free_all" /\ pc' = [pc EXCEPT ![Owner] = "pop_next"]
        /\ UNCHANGED <<elements, free_next>> /\ Recyclable' = Recyclable
        /\ n'[Owner] = free_next - 1
    BY <1>a, <1>5 DEF PopRead, Goto, poolVars, listVars, Recyclable, JobPoolInv, TypeOK
  <2> QED BY <1>1, <2>1, SoloQuiet
<1> QED BY <1>2, <1>3, <1>4, <1>5

(* An empty list and idle threads. *)
LEMMA SoloFresh ==
  /\ (/\ elements = [i \in 0 .. (Capacity - 1) |-> Null] /\ free_next = 0 /\ held = {}
      /\ \A p \in Threads : pc[p] = "idle") => Solo
  /\ (/\ elements = [i \in 0 .. (Capacity - 1) |-> Null] /\ free_next = 0 /\ held = {}
      /\ \A p \in Threads : pc[p] = "idle")' => Solo'
<1>1. ASSUME free_next = 0, \A p \in Threads : pc[p] = "idle" PROVE Height = 0
  BY <1>1 DEF Height
<1>2. ASSUME free_next' = 0, \A p \in Threads : pc'[p] = "idle" PROVE Height' = 0
  BY <1>2 DEF Height
<1>3. \A p \in Threads : (pc[p] = "idle" => AtTop(p)) /\ (pc'[p] = "idle" => AtTop(p)')
  BY DEF AtTop
<1>4. \A i \in 0 .. (Capacity - 1) : ~(i < 0)
  BY JobPoolAssumption
<1>5. ASSUME elements = [i \in 0 .. (Capacity - 1) |-> Null], free_next = 0, held = {},
             \A p \in Threads : pc[p] = "idle"
      PROVE  Solo
  <2>1. \A i \in DOMAIN elements : elements[i] # Null <=> i < Height
    BY <1>1, <1>4, <1>5
  <2> QED BY <1>3, <1>5, <2>1 DEF Solo, Recyclable
<1>6. ASSUME elements' = [i \in 0 .. (Capacity - 1) |-> Null], free_next' = 0, held' = {},
             \A p \in Threads : pc'[p] = "idle"
      PROVE  Solo'
  <2>1. \A i \in DOMAIN elements' : elements'[i] # Null <=> i < Height'
    BY <1>2, <1>4, <1>6
  <2> QED BY <1>3, <1>6, <2>1 DEF Solo, Recyclable
<1>7. Null' = Null
  BY DEF Null, Pool!Null
<1> QED BY <1>5, <1>6, <1>7

LEMMA SoloStep ==
  ASSUME JobPoolInv, Alloc!CountsHeldBlocks, SoloInv, [Next]_vars
  PROVE  SoloInv'
<1> SUFFICES ASSUME ~overlapped' PROVE Solo'
  BY DEF SoloInv
<1>1. CASE Reset
  BY <1>1, SoloFresh DEF Reset, Pool!Reset
<1>2. ASSUME NEW p \in Threads, NEW label, Call(p, label)
      PROVE  ~overlapped /\ \A q \in Threads : pc[q] = "idle"
  BY <1>2, Zenon DEF Call
<1>3. ASSUME ~Reset PROVE ~overlapped
  <2>1. CASE AllocateJob \/ \E p \in Threads, j \in Jobs : PushRead(p, j)
    BY <1>2, <2>1 DEF AllocateJob, PushRead, Threads
  <2>2. CASE UNCHANGED overlapped
    BY <2>2, Zenon
  <2> QED
    BY <1>3, <2>1, <2>2 DEF Next, OwnerStep, FreeJob, Allocation, AllocationFails, FreeAllDone,
       PopRead, PopNext, PopElement, PopClear, PushNext, PushElement, vars
<1>4. CASE AllocateJob
  <2>1. Solo /\ \A q \in Threads : pc[q] = "idle"
    BY <1>2, <1>4 DEF AllocateJob, Threads, SoloInv
  <2> QED BY <1>4, <2>1, SoloAllocate
<1>5. ASSUME NEW p \in Threads, NEW j \in Jobs, PushRead(p, j) PROVE Solo'
  <2>1. Solo /\ \A q \in Threads : pc[q] = "idle"
    BY <1>2, <1>5 DEF PushRead, SoloInv
  <2> QED BY <1>5, <2>1, SoloPushRead
<1>6. CASE UNCHANGED vars
  <2>1. Solo
    BY <1>6, Zenon DEF SoloInv, vars
  <2>2. UNCHANGED <<elements, free_next, pc, n, job, held, unfinished, blocks_initialized>>
    BY <1>6 DEF vars, poolVars, listVars
  <2>3. Height' = Height /\ Recyclable' = Recyclable
    BY <2>2 DEF Height, Recyclable
  <2>4. \A p \in Threads : AtTop(p) => AtTop(p)'
    BY <2>2 DEF AtTop, Pool!Exhausted, InRange
  <2>5. \A j \in Recyclable : Kept(j) => Kept(j)'
    BY <2>2 DEF Kept, InHand
  <2> QED BY <2>1, <2>2, <2>3, <2>4, <2>5 DEF Solo
<1>7. CASE ~Reset
  BY <1>3, <1>4, <1>5, <1>6, <1>7, SoloAllocate, SoloPop, SoloPush
     DEF Next, OwnerStep, FreeJob, SoloInv
<1> QED BY <1>1, <1>7

LEMMA SoloInvariant == Spec => []SoloInv
<1>1. Init => SoloInv
  <2> SUFFICES ASSUME Init PROVE Solo
    BY DEF SoloInv
  <2> QED BY SoloFresh DEF Init, Pool!Init
<1>2. JobPoolInv /\ Alloc!CountsHeldBlocks /\ SoloInv /\ [Next]_vars => SoloInv'
  BY SoloStep
<1> QED BY <1>1, <1>2, JobPoolInvariant, CountInvariant, PTL DEF Spec

(* As long as no two calls overlap, each recyclable job is on the list     *)
(* between calls.                                                          *)
THEOREM NoneIsLost == Spec => []NoJobLost
<1>1. ASSUME JobPoolInv, SoloInv, ~overlapped, \A p \in Threads : pc[p] = "idle"
      PROVE  Recyclable = {elements[i] : i \in 0 .. (free_next - 1)}
  <2>a. free_next \in 0 .. Capacity /\ Capacity \in Nat /\ DOMAIN elements = 0 .. (Capacity - 1)
    BY JobPoolAssumption, <1>1 DEF JobPoolInv, TypeOK
  <2>1. Solo /\ Height = free_next
    BY <1>1, <2>a DEF SoloInv, Height
  <2>2. \A i \in DOMAIN elements : elements[i] # Null <=> i < free_next
    BY <2>1 DEF Solo
  <2>3. ASSUME NEW i \in 0 .. (free_next - 1) PROVE elements[i] \in Recyclable
    BY <1>1, <2>a, <2>2 DEF JobPoolInv, OneHolder
  <2>4. ASSUME NEW j \in Recyclable PROVE \E i \in 0 .. (free_next - 1) : elements[i] = j
    <3>1. PICK i \in DOMAIN elements : elements[i] = j
      BY <1>1, <2>1 DEF Solo, Kept, InHand
    <3>2. j # Null
      BY <1>1, NullIsNoJob DEF Recyclable, JobPoolInv, TypeOK, Pool!TypeOK, Jobs
    <3> QED BY <2>a, <2>2, <3>1, <3>2
  <2> QED BY <2>3, <2>4
<1>2. JobPoolInv /\ SoloInv => NoJobLost
  BY <1>1 DEF NoJobLost
<1> QED BY <1>2, JobPoolInvariant, SoloInvariant, PTL

(* Nor does free_job find the list full. *)
THEOREM FreeListHasRoom == Spec => []ListHasRoom
<1>1. SoloInv => ListHasRoom
  BY DEF SoloInv, Solo, AtTop, ListHasRoom
<1> QED BY <1>1, SoloInvariant, PTL

(* And allocate_job fails only when every job of the pool is unfinished. *)
THEOREM FailsOnlyExhausted == Spec => FailsOnlyWhenAllUnfinished
<1>1. ASSUME JobPoolInv, Alloc!CountsHeldBlocks, SoloInv, AllocationFails, ~overlapped
      PROVE  unfinished = Jobs
  <2>a. /\ Owner \in Threads /\ pc[Owner] = "allocate" /\ Pool!Exhausted
        /\ DOMAIN elements = 0 .. (Capacity - 1) /\ Capacity \in Nat
    BY <1>1, JobPoolAssumption DEF AllocationFails, Threads, JobPoolInv, TypeOK
  <2>1. Solo /\ free_next = 0
    BY <1>1, <2>a DEF SoloInv, Solo, AtTop
  <2>2. Alone(Owner)
    BY <2>a, <2>1 DEF Solo, Alone
  <2>3. Height = 0
    BY <2>a, <2>1, <2>2, HeightAlone
  <2>4. \A i \in DOMAIN elements : elements[i] = Null
    BY <2>a, <2>1, <2>3 DEF Solo
  <2>5. ASSUME NEW j \in Recyclable PROVE FALSE
    <3>1. j # Null
      BY <1>1, NullIsNoJob DEF Recyclable, JobPoolInv, TypeOK, Pool!TypeOK, Jobs
    <3>2. \A q \in Threads : ~InHand(q)
      BY <2>a, <2>2 DEF Alone, InHand
    <3> QED BY <2>1, <2>4, <3>1, <3>2 DEF Solo, Kept
  <2>6. held = Jobs
    BY <1>1, <2>a, Counted
  <2> QED BY <1>1, <2>5, <2>6 DEF Recyclable, JobPoolInv
<1>2. JobPoolInv /\ Alloc!CountsHeldBlocks /\ SoloInv =>
        [AllocationFails /\ ~overlapped => unfinished = Jobs]_vars
  BY <1>1
<1> QED
  BY <1>2, JobPoolInvariant, CountInvariant, SoloInvariant, PTL DEF FailsOnlyWhenAllUnfinished

================================================================================
