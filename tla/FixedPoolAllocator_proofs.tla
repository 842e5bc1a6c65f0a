----------------------- MODULE FixedPoolAllocator_proofs -----------------------
(***************************************************************************)
(* TLAPS proofs about FixedPoolAllocator, for every number of blocks.      *)
(***************************************************************************)
EXTENDS FixedPoolAllocator, FiniteSetTheorems, TLAPS

(* Allocating the first block of the free list leaves the rest of it. *)
LEMMA AllocateStep ==
  ASSUME PoolInv, Allocate
  PROVE  PoolInv' /\ next \in Blocks \ held
<1> USE PoolAssumption DEF Memory, Blocks, End
<1>1. PICK c \in [0 .. FreeCount -> Memory] : IsFreeList(c)
  BY DEF PoolInv, FreeListIntact
<1>2. /\ FreeCount \in Nat /\ FreeCount > 0 /\ FreeCount' = FreeCount - 1
      /\ blocks_initialized' \in 0 .. MaxBlocks
  BY DEF PoolInv, TypeOK, Allocate, Exhausted, FreeCount
<1>3. /\ 0 \in 0 .. (FreeCount - 1)
      /\ next = c[0] /\ next \in Blocks \ held /\ link[next] = c[1]
  BY <1>1, <1>2 DEF IsFreeList
<1>4. TypeOK'
  BY <1>1, <1>2, <1>3 DEF PoolInv, TypeOK, Allocate
<1>5. [i \in 0 .. FreeCount' |-> c[i + 1]] \in [0 .. FreeCount' -> Memory]
  BY <1>1, <1>2
<1>6. PICK d \in [0 .. FreeCount' -> Memory] : \A i \in 0 .. FreeCount' : d[i] = c[i + 1]
  BY <1>5
<1>7. IsFreeList(d)'
  <2>1. d[0] = next'
    BY <1>2, <1>3, <1>6 DEF Allocate
  <2>2. ASSUME NEW i \in 0 .. (FreeCount' - 1)
        PROVE  d[i] \in Blocks \ held' /\ link'[d[i]] = d[i + 1]
    <3>1. /\ i + 1 \in 0 .. (FreeCount - 1) /\ i + 1 # 0
          /\ d[i] = c[i + 1] /\ d[i + 1] = c[(i + 1) + 1]
      BY <1>2, <1>6
    <3>2. c[i + 1] # c[0]
      BY <1>1, <1>3, <3>1 DEF IsFreeList
    <3>3. QED
      BY <1>1, <1>3, <3>1, <3>2 DEF IsFreeList, Allocate
  <2>3. ASSUME NEW i \in 0 .. (FreeCount' - 1), NEW k \in 0 .. (FreeCount' - 1),
               d[i] = d[k]
        PROVE  i = k
    <3>1. /\ i + 1 \in 0 .. (FreeCount - 1) /\ k + 1 \in 0 .. (FreeCount - 1)
          /\ c[i + 1] = c[k + 1]
      BY <1>2, <1>6, <2>3
    <3>2. i + 1 = k + 1
      BY <1>1, <3>1 DEF IsFreeList
    <3>3. QED
      BY <1>2, <3>2
  <2>4. QED
    BY <2>1, <2>2, <2>3 DEF IsFreeList
<1>8. FreeListIntact'
  BY <1>7 DEF FreeListIntact
<1>9. QED
  BY <1>3, <1>4, <1>8 DEF PoolInv

(* A freed block becomes the first of the free list. *)
LEMMA FreeStep ==
  ASSUME Disciplined, PoolInv, NEW data \in Pointers, Free(data)
  PROVE  PoolInv' /\ data \in held
<1> USE PoolAssumption DEF Memory, Blocks, End
<1>1. PICK c \in [0 .. FreeCount -> Memory] : IsFreeList(c)
  BY DEF PoolInv, FreeListIntact
<1>2. data \in held /\ data \in Blocks /\ held \subseteq Blocks
  BY DEF PoolInv, TypeOK, Free, Refuses, MayFree, Null, Foreign
<1>3. /\ FreeCount \in Nat /\ FreeCount' = FreeCount + 1
      /\ blocks_initialized' \in 0 .. MaxBlocks
  BY DEF PoolInv, TypeOK, Free, Refuses, FreeCount
<1>4. /\ link' = [link EXCEPT ![data] = next] /\ next' = data /\ held' = held \ {data}
      /\ link \in [Memory -> Memory] /\ next \in Memory
  BY DEF Free, LinkNext, PoolInv, TypeOK
<1>5. TypeOK'
  BY <1>2, <1>3, <1>4 DEF TypeOK
<1>6. FreeCount' \in Nat /\ 0 \in 0 .. FreeCount'
  BY <1>3
<1>7. PICK d \in [0 .. FreeCount' -> Memory] :
        d[0] = data /\ \A i \in 0 .. FreeCount' : i # 0 => d[i] = c[i - 1]
  <2> DEFINE e == [i \in 0 .. FreeCount' |-> IF i = 0 THEN data ELSE c[i - 1]]
  <2>1. e \in [0 .. FreeCount' -> Memory]
    BY <1>1, <1>2, <1>3
  <2>2. \A i \in 0 .. FreeCount' : e[i] = IF i = 0 THEN data ELSE c[i - 1]
    OBVIOUS
  <2> HIDE DEF e
  <2>3. QED
    BY <1>6, <2>1, <2>2
<1>8. \A i \in 0 .. (FreeCount - 1) :
        c[i] \in Blocks \ held /\ c[i] # data /\ link'[c[i]] = c[i + 1]
  BY <1>1, <1>2, <1>4 DEF IsFreeList
<1>9. IsFreeList(d)'
  <2>1. d[0] = next'
    BY <1>4, <1>7
  <2>2. ASSUME NEW i \in 0 .. (FreeCount' - 1)
        PROVE  d[i] \in Blocks \ held' /\ link'[d[i]] = d[i + 1]
    <3>1. CASE i = 0
      <4>1. d[i] = data /\ d[i + 1] = c[0] /\ c[0] = next
        BY <1>1, <1>3, <1>7, <3>1 DEF IsFreeList
      <4>2. QED
        BY <1>2, <1>4, <4>1
    <3>2. CASE i # 0
      <4>1. /\ i - 1 \in 0 .. (FreeCount - 1)
            /\ d[i] = c[i - 1] /\ d[i + 1] = c[(i - 1) + 1]
        BY <1>3, <1>7, <3>2
      <4>2. QED
        BY <1>4, <1>8, <4>1
    <3>3. QED
      BY <3>1, <3>2
  <2>3. ASSUME NEW i \in 0 .. (FreeCount' - 1), NEW k \in 0 .. (FreeCount' - 1),
               d[i] = d[k]
        PROVE  i = k
    <3>1. CASE i # 0 /\ k # 0
      <4>1. /\ i - 1 \in 0 .. (FreeCount - 1) /\ k - 1 \in 0 .. (FreeCount - 1)
            /\ c[i - 1] = c[k - 1]
        BY <1>3, <1>7, <2>3, <3>1
      <4>2. i - 1 = k - 1
        BY <1>1, <4>1 DEF IsFreeList
      <4>3. QED
        BY <1>3, <4>2
    <3>2. CASE i # 0 /\ k = 0
      BY <1>3, <1>7, <1>8, <2>3, <3>2
    <3>3. CASE i = 0 /\ k # 0
      BY <1>3, <1>7, <1>8, <2>3, <3>3
    <3>4. QED
      BY <3>1, <3>2, <3>3
  <2>4. QED
    BY <2>1, <2>2, <2>3 DEF IsFreeList
<1>10. FreeListIntact'
  BY <1>9 DEF FreeListIntact
<1>11. QED
  BY <1>2, <1>5, <1>10 DEF PoolInv

(* The client may write to the blocks it holds: none is on the free list. *)
LEMMA WriteStep ==
  ASSUME PoolInv, NEW b \in held, NEW v \in Memory, Write(b, v)
  PROVE  PoolInv'
<1>1. PICK c \in [0 .. FreeCount -> Memory] : IsFreeList(c)
  BY DEF PoolInv, FreeListIntact
<1>2. TypeOK' /\ FreeCount' = FreeCount
  BY DEF PoolInv, TypeOK, Write, FreeCount
<1>3. \A i \in 0 .. (FreeCount - 1) : link'[c[i]] = link[c[i]]
  BY <1>1 DEF IsFreeList, PoolInv, TypeOK, Write, Memory
<1>4. IsFreeList(c)'
  BY <1>1, <1>2, <1>3 DEF IsFreeList, Write
<1>5. QED
  BY <1>1, <1>2, <1>4 DEF PoolInv, FreeListIntact

(* Blocks that link to their successors form one list. *)
LEMMA SuccessorList ==
  \E c \in [0 .. MaxBlocks -> Memory] : \A i \in 0 .. MaxBlocks : c[i] = i
<1>1. [i \in 0 .. MaxBlocks |-> i] \in [0 .. MaxBlocks -> Memory]
  BY PoolAssumption DEF Memory, Blocks, End
<1>2. QED
  BY <1>1

(* The inductive invariant of a pool whose client frees what it holds.     *)
THEOREM PoolInvariant ==
  ASSUME Disciplined
  PROVE  Spec => []PoolInv
<1> USE PoolAssumption DEF Memory, Blocks, End
<1>0. PICK c \in [0 .. MaxBlocks -> Memory] : \A i \in 0 .. MaxBlocks : c[i] = i
  BY SuccessorList
<1>1. Init => PoolInv
  <2> SUFFICES ASSUME Init PROVE PoolInv
    OBVIOUS
  <2>1. TypeOK /\ FreeCount = MaxBlocks
    BY DEF Init, TypeOK, FreeCount
  <2>2. \A b \in Blocks : link[b] = b + 1
    BY DEF Init
  <2>3. IsFreeList(c)
    BY <1>0, <2>1, <2>2 DEF Init, IsFreeList
  <2>4. QED
    BY <2>1, <2>3 DEF PoolInv, FreeListIntact
<1>2. PoolInv /\ [Next]_vars => PoolInv'
  <2> SUFFICES ASSUME PoolInv, [Next]_vars PROVE PoolInv'
    OBVIOUS
  <2>1. CASE Reset
    <3>1. TypeOK' /\ FreeCount' = MaxBlocks
      BY <2>1 DEF Reset, ClearCount, PoolInv, TypeOK, FreeCount
    <3>2. \A b \in Blocks : link'[b] = b + 1
      BY <2>1 DEF Reset
    <3>3. IsFreeList(c)'
      BY <1>0, <2>1, <3>1, <3>2 DEF Reset, IsFreeList
    <3>4. QED
      BY <3>1, <3>3 DEF PoolInv, FreeListIntact
  <2>2. CASE UNCHANGED vars
    BY <2>2 DEF vars, PoolInv, TypeOK, FreeListIntact, IsFreeList, FreeCount
  <2>3. QED
    BY <2>1, <2>2, AllocateStep, FreeStep, WriteStep DEF Next
<1>3. QED
  BY <1>1, <1>2, PTL DEF Spec

(* Every variable of such a pool keeps its type: next_ stays inside it.    *)
THEOREM PoolTypeCorrect ==
  ASSUME Disciplined
  PROVE  Spec => []TypeOK
<1>1. PoolInv => TypeOK
  BY DEF PoolInv
<1>2. QED
  BY <1>1, PoolInvariant, PTL

(* The free list of such a pool stays whole.                               *)
THEOREM FreeListStaysIntact ==
  ASSUME Disciplined
  PROVE  Spec => []FreeListIntact
<1>1. PoolInv => FreeListIntact
  BY DEF PoolInv
<1>2. QED
  BY <1>1, PoolInvariant, PTL

(* Every step that changes the blocks the client holds changes the counter *)
(* by as many.                                                             *)
LEMMA CountStep ==
  ASSUME Disciplined, PoolInv, IsFiniteSet(held), CountsHeldBlocks, [Next]_vars
  PROVE  IsFiniteSet(held') /\ CountsHeldBlocks'
<1> USE DEF CountsHeldBlocks
<1>1. CASE Allocate
  <2>1. held' = held \cup {next} /\ next \notin held
    BY <1>1, AllocateStep DEF Allocate
  <2>2. blocks_initialized' = blocks_initialized + 1
    BY <1>1 DEF Allocate
  <2>3. QED
    BY <2>1, <2>2, FS_AddElement
<1>2. ASSUME NEW data \in Pointers, Free(data)
      PROVE  IsFiniteSet(held') /\ CountsHeldBlocks'
  <2>1. held' = held \ {data} /\ data \in held
    BY <1>2, FreeStep DEF Free
  <2>2. blocks_initialized' = blocks_initialized - 1
    BY <1>2 DEF Free
  <2>3. QED
    BY <2>1, <2>2, FS_RemoveElement
<1>3. CASE Reset
  BY <1>3, FS_EmptySet DEF Reset, ClearCount
<1>4. CASE UNCHANGED <<blocks_initialized, held>>
  BY <1>4
<1>5. QED
  BY <1>1, <1>2, <1>3, <1>4 DEF Next, Write, vars

(* blocks_initialized_ is the number of blocks the client holds.           *)
THEOREM CounterIsExact ==
  ASSUME Disciplined
  PROVE  Spec => []CountsHeldBlocks
<1>1. Init => IsFiniteSet(held) /\ CountsHeldBlocks
  BY FS_EmptySet DEF Init, CountsHeldBlocks
<1>2. PoolInv /\ (IsFiniteSet(held) /\ CountsHeldBlocks) /\ [Next]_vars
        => (IsFiniteSet(held) /\ CountsHeldBlocks)'
  BY CountStep
<1>3. QED
  BY <1>1, <1>2, PoolInvariant, PTL DEF Spec

(* No block is ever handed out twice at a time, and none outside the pool. *)
THEOREM AllocationsAreFree ==
  ASSUME Disciplined
  PROVE  Spec => AllocatesFreeBlock
<1>1. PoolInv /\ [Next]_vars => [Allocate => next \in Blocks \ held]_vars
  BY AllocateStep
<1>2. QED
  BY <1>1, PoolInvariant, PTL DEF Spec, AllocatesFreeBlock

================================================================================
