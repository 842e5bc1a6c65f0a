-------------------------- MODULE FixedPoolAllocator --------------------------
(***************************************************************************)
(* detail::FixedPoolAllocator: a pool of equal blocks whose free list is   *)
(* threaded through the first word of the free blocks.  A pointer is the   *)
(* number of the block it points to; End is one past the last block.       *)
(***************************************************************************)
EXTENDS Integers, FiniteSets

CONSTANTS MaxBlocks,    \* max_blocks_
          Disciplined   \* the client frees blocks it holds, once each, or pointers
                        \* that lie outside the pool

ASSUME PoolAssumption ==
  /\ MaxBlocks \in Nat \ {0}
  /\ Disciplined \in BOOLEAN

Blocks == 0 .. (MaxBlocks - 1)
End == MaxBlocks
Memory == Blocks \cup {End}
Null == -1
Foreign == MaxBlocks + 1
Pointers == Memory \cup {Null, Foreign}

VARIABLES link,                 \* link[b]: the first word of block b; at End it is
                                \* memory of somebody else
          next,                 \* next_
          blocks_initialized,   \* blocks_initialized_
          held                  \* the blocks the client holds (ghost)

vars == <<link, next, blocks_initialized, held>>

(* Mutant: the blocks allocated so far stay counted. *)
KeepCount == UNCHANGED blocks_initialized

ClearCount == blocks_initialized' = 0

(* reset links every block to the one after it. *)
Reset ==
  /\ next' = 0
  /\ ClearCount
  /\ link' = [b \in Memory |-> IF b \in Blocks THEN b + 1 ELSE link[b]]
  /\ held' = {}

(* The constructor leaves the pool as reset does. *)
Init ==
  /\ next = 0
  /\ blocks_initialized = 0
  /\ link \in [Memory -> Memory] /\ \A b \in Blocks : link[b] = b + 1
  /\ held = {}

-------------------------------------------------------------------------------
(* Mutant: the exhausted pool is noticed one block late. *)
ExhaustedLate == blocks_initialized > MaxBlocks

Exhausted == blocks_initialized = MaxBlocks

(* An exhausted pool returns nullptr and changes nothing. *)
Allocate ==
  /\ ~Exhausted
  /\ blocks_initialized' = blocks_initialized + 1
  /\ next' = link[next]
  /\ held' = held \cup {next}
  /\ UNCHANGED link

(* The client uses its block, the first word of it included. *)
Write(b, v) ==
  /\ b \in held
  /\ link' = [link EXCEPT ![b] = v]
  /\ UNCHANGED <<next, blocks_initialized, held>>

(* The range check lets End pass: it compares with > and not with >=. *)
Refuses(data) == data = Null \/ blocks_initialized <= 0 \/ data \notin Memory

MayFree(data) == Disciplined => data \in held \cup {Null, Foreign}

(* Mutant: the freed block is not linked to the rest of the list. *)
LinkNothing(data) == UNCHANGED link

LinkNext(data) == link' = [link EXCEPT ![data] = next]

(* A refused pointer changes nothing. *)
Free(data) ==
  /\ MayFree(data) /\ ~Refuses(data)
  /\ LinkNext(data)
  /\ next' = data
  /\ blocks_initialized' = blocks_initialized - 1
  /\ held' = held \ {data}

Next ==
  \/ Allocate
  \/ \E b \in held, v \in Memory : Write(b, v)
  \/ \E data \in Pointers : Free(data)
  \/ Reset

Spec == Init /\ [][Next]_vars

-------------------------------------------------------------------------------
(* Every variable keeps its type. *)
TypeOK ==
  /\ link \in [Memory -> Memory]
  /\ next \in Memory
  /\ blocks_initialized \in 0 .. MaxBlocks
  /\ held \in SUBSET Blocks

(* c is the free list: from next_, one link after the other, as many       *)
(* different blocks as are not allocated, none of them the client's.       *)
FreeCount == MaxBlocks - blocks_initialized

IsFreeList(c) ==
  /\ c[0] = next
  /\ \A i \in 0 .. (FreeCount - 1) :
       c[i] \in Blocks \ held /\ link[c[i]] = c[i + 1]
  /\ \A i, k \in 0 .. (FreeCount - 1) : c[i] = c[k] => i = k

(* The free list stays whole however blocks are allocated, written to,     *)
(* freed and reset: no block is lost and none is on it twice.              *)
FreeListIntact == \E c \in [0 .. FreeCount -> Memory] : IsFreeList(c)

(* allocate never hands out a block the client still holds, nor one past   *)
(* the end of the pool.                                                    *)
AllocatesFreeBlock == [][Allocate => next \in Blocks \ held]_vars

(* blocks_initialized_, by which JobPool decides to recycle, counts the    *)
(* blocks the client holds.                                                *)
CountsHeldBlocks == blocks_initialized = Cardinality(held)

(* The inductive invariant. *)
PoolInv == TypeOK /\ FreeListIntact

===============================================================================
