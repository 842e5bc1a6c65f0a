--------------------------------- MODULE JobPool ---------------------------------
(***************************************************************************)
(* One index of the JobPool: the allocator of one thread and the free list *)
(* other threads put its finished jobs on.  allocate_job empties the list  *)
(* into the allocator when the allocator is exhausted.  The free list is   *)
(* plain memory: every load and store of it is an action, and the two      *)
(* stores of push may happen in either order.  A job is the number of its  *)
(* block.  What a job's function writes into its block is left to          *)
(* FixedPoolAllocator.                                                     *)
(***************************************************************************)
EXTENDS Integers

CONSTANTS Capacity,   \* the pool's capacity_
          Owner,      \* the thread whose index this is
          Others      \* the other threads that run its jobs

ASSUME JobPoolAssumption ==
  /\ Capacity \in Nat \ {0}
  /\ Owner \notin Others

VARIABLES link, next, blocks_initialized, held,   \* of the allocator
          elements,     \* elements_
          free_next,    \* the free list's next_
          pc,           \* pc[p]: where thread p is in allocate_job or free_job
          n,            \* n[p]: the index p has read, 0 between calls
          job,          \* job[p]: the job p is putting on or taking off the list
          unfinished,   \* jobs handed out and not yet given to free_job (ghost)
          overlapped    \* two calls have been under way at once since the last
                        \* reset (ghost)

poolVars == <<link, next, blocks_initialized, held>>
listVars == <<elements, free_next>>
vars == <<poolVars, listVars, pc, n, job, unfinished, overlapped>>

Threads == {Owner} \cup Others

(* free is called with whatever the list holds. *)
Pool == INSTANCE FixedPoolAllocator WITH MaxBlocks <- Capacity, Disciplined <- FALSE

Null == Pool!Null
Jobs == Pool!Blocks

(* An index past the end of elements_: what follows is undefined, and the  *)
(* thread that has read it takes no further step here.                     *)
InRange(i) == i \in 0 .. (Capacity - 1)

Init ==
  /\ Pool!Init
  /\ elements = [i \in 0 .. (Capacity - 1) |-> Null]
  /\ free_next = 0
  /\ pc = [p \in Threads |-> "idle"]
  /\ n = [p \in Threads |-> 0]
  /\ job = [p \in Threads |-> Null]
  /\ unfinished = {}
  /\ overlapped = FALSE

Goto(p, label) == pc' = [pc EXCEPT ![p] = label]

(* The call ends: its locals are gone. *)
Return(p) ==
  /\ Goto(p, "idle")
  /\ n' = [n EXCEPT ![p] = 0]
  /\ job' = [job EXCEPT ![p] = Null]

Call(p, label) ==
  /\ pc[p] = "idle"
  /\ Goto(p, label)
  /\ overlapped' = (overlapped \/ \E q \in Threads : pc[q] # "idle")

--------------------------------------------------------------------------------
(* allocate_job *)

AllocateJob ==
  /\ Call(Owner, IF Pool!Exhausted THEN "free_all" ELSE "allocate")
  /\ UNCHANGED <<poolVars, listVars, n, job, unfinished>>

Allocation ==
  /\ pc[Owner] = "allocate"
  /\ Pool!Allocate
  /\ unfinished' = unfinished \cup {next}
  /\ Return(Owner)
  /\ UNCHANGED <<listVars, overlapped>>

(* allocate_job returns nullptr. *)
AllocationFails ==
  /\ pc[Owner] = "allocate" /\ Pool!Exhausted
  /\ Return(Owner)
  /\ UNCHANGED <<poolVars, listVars, unfinished, overlapped>>

(* Mutant: the last element stays on the list. *)
ListEmptyEarly == free_next <= 1

ListEmpty == free_next <= 0

FreeAllDone ==
  /\ pc[Owner] = "free_all" /\ ListEmpty
  /\ Goto(Owner, "allocate")
  /\ UNCHANGED <<poolVars, listVars, n, job, unfinished, overlapped>>

PopRead ==
  /\ pc[Owner] = "free_all" /\ ~ListEmpty
  /\ n' = [n EXCEPT ![Owner] = free_next - 1]
  /\ Goto(Owner, "pop_next")
  /\ UNCHANGED <<poolVars, listVars, job, unfinished, overlapped>>

PopNext ==
  /\ pc[Owner] = "pop_next"
  /\ free_next' = n[Owner]
  /\ Goto(Owner, "pop_element")
  /\ UNCHANGED <<poolVars, elements, n, job, unfinished, overlapped>>

PopElement ==
  /\ pc[Owner] = "pop_element"
  /\ job' = [job EXCEPT ![Owner] = elements[n[Owner]]]
  /\ Goto(Owner, "pop_clear")
  /\ UNCHANGED <<poolVars, listVars, n, unfinished, overlapped>>

(* Mutant: a taken element is left where it was. *)
KeepElement(i) == UNCHANGED elements

ClearElement(i) == elements' = [elements EXCEPT ![i] = Null]

(* The allocator frees the job, or refuses nullptr. *)
PopClear ==
  /\ pc[Owner] = "pop_clear"
  /\ ClearElement(n[Owner])
  /\ IF Pool!Refuses(job[Owner]) THEN UNCHANGED poolVars ELSE Pool!Free(job[Owner])
  /\ n' = [n EXCEPT ![Owner] = 0]
  /\ job' = [job EXCEPT ![Owner] = Null]
  /\ Goto(Owner, "free_all")
  /\ UNCHANGED <<free_next, unfinished, overlapped>>

--------------------------------------------------------------------------------
(* free_job, called by the thread that has run the job *)

PushRead(p, j) ==
  /\ j \in unfinished
  /\ Call(p, "push")
  /\ unfinished' = unfinished \ {j}
  /\ n' = [n EXCEPT ![p] = free_next]
  /\ job' = [job EXCEPT ![p] = j]
  /\ UNCHANGED <<poolVars, listVars>>

(* The store of pc's other half is still to come, or the call is over. *)
PushDone(p, half, other) ==
  \/ pc[p] = "push" /\ Goto(p, other) /\ UNCHANGED <<n, job>>
  \/ pc[p] = half /\ Return(p)

(* Mutant: next_ is raised twice. *)
PushNextTwice(p) ==
  /\ InRange(n[p])
  /\ PushDone(p, "push_next", "push_element")
  /\ free_next' = n[p] + 2
  /\ UNCHANGED <<poolVars, elements, unfinished, overlapped>>

PushNext(p) ==
  /\ InRange(n[p])
  /\ PushDone(p, "push_next", "push_element")
  /\ free_next' = n[p] + 1
  /\ UNCHANGED <<poolVars, elements, unfinished, overlapped>>

(* Mutant: elements_[++next_]. *)
PushElementAbove(p) ==
  /\ InRange(n[p])
  /\ PushDone(p, "push_element", "push_next")
  /\ elements' = [elements EXCEPT ![n[p] + 1] = job[p]]
  /\ UNCHANGED <<poolVars, free_next, unfinished, overlapped>>

PushElement(p) ==
  /\ InRange(n[p])
  /\ PushDone(p, "push_element", "push_next")
  /\ elements' = [elements EXCEPT ![n[p]] = job[p]]
  /\ UNCHANGED <<poolVars, free_next, unfinished, overlapped>>

--------------------------------------------------------------------------------
(* JobPool::reset at shutdown, when no other thread uses the pool; it      *)
(* reaches index 0 only.  Jobs still to run are discarded.                 *)
Reset ==
  /\ \A p \in Threads : pc[p] = "idle"
  /\ Pool!Reset
  /\ elements' = [i \in 0 .. (Capacity - 1) |-> Null]
  /\ free_next' = 0
  /\ unfinished' = {}
  /\ overlapped' = FALSE
  /\ UNCHANGED <<pc, n, job>>

--------------------------------------------------------------------------------
OwnerStep ==
  \/ AllocateJob \/ Allocation \/ AllocationFails
  \/ FreeAllDone \/ PopRead \/ PopNext \/ PopElement \/ PopClear

FreeJob(p) == (\E j \in Jobs : PushRead(p, j)) \/ PushNext(p) \/ PushElement(p)

Next == OwnerStep \/ Reset \/ \E p \in Threads : FreeJob(p)

Spec == Init /\ [][Next]_vars

--------------------------------------------------------------------------------
(* Every variable keeps its type. *)
TypeOK ==
  /\ Pool!TypeOK
  /\ elements \in [0 .. (Capacity - 1) -> Jobs \cup {Null}]
  /\ free_next \in 0 .. Capacity
  /\ pc \in [Threads -> {"idle", "allocate", "free_all", "pop_next", "pop_element",
                         "pop_clear", "push", "push_next", "push_element"}]
  /\ n \in [Threads -> 0 .. Capacity]
  /\ job \in [Threads -> Jobs \cup {Null}]
  /\ unfinished \in SUBSET Jobs
  /\ overlapped \in BOOLEAN

Contract == INSTANCE FixedPoolAllocator WITH MaxBlocks <- Capacity, Disciplined <- TRUE

(* The pool keeps the allocator's contract, which its proofs assume: it    *)
(* frees nothing but blocks that are allocated, however loads and stores   *)
(* of the free list interleave.                                            *)
KeepsAllocatorContract == Contract!Spec

(* A job is not recycled before free_job was called for it, nor while that *)
(* call has yet to store it.                                               *)
UnfinishedStayAllocated ==
  /\ unfinished \subseteq held
  /\ \A p \in Threads : pc[p] \in {"push", "push_element"} => job[p] \in held

(* The jobs between being run and being allocated again. *)
Recyclable == held \ unfinished

(* p has a job that it has yet to store in the list. *)
InHand(p) == pc[p] \in {"push", "push_element"}

(* However the unsynchronised loads and stores interleave, a job to be     *)
(* recycled is never in two places: in one element of the list, or in the  *)
(* hands of one thread; the owner clears the element it takes a job from   *)
(* in the step that frees it.                                              *)
OneHolder ==
  /\ \A i \in DOMAIN elements : elements[i] # Null =>
       /\ elements[i] \in Recyclable
       /\ \A k \in DOMAIN elements : elements[k] = elements[i] => k = i
  /\ \A p \in Threads : InHand(p) =>
       /\ job[p] \in Recyclable
       /\ \A i \in DOMAIN elements : elements[i] # job[p]
       /\ \A q \in Threads : InHand(q) /\ job[q] = job[p] => q = p
  /\ pc[Owner] = "pop_clear" /\ job[Owner] # Null =>
       /\ job[Owner] \in Recyclable
       /\ \A i \in DOMAIN elements : elements[i] = job[Owner] => i = n[Owner]
       /\ \A p \in Threads : InHand(p) => job[p] # job[Owner]

(* As long as no two calls have overlapped, allocate_job returns nullptr   *)
(* only when every job of the pool is still to run or running.             *)
FailsOnlyWhenAllUnfinished ==
  [][AllocationFails /\ ~overlapped => unfinished = Jobs]_vars

(* Until then no job is lost: between calls each recyclable job is on the  *)
(* free list.                                                              *)
NoJobLost ==
  ~overlapped /\ (\A p \in Threads : pc[p] = "idle") =>
    Recyclable = {elements[i] : i \in 0 .. (free_next - 1)}

(* Nor does free_job find the list full. *)
ListHasRoom ==
  ~overlapped => \A p \in Threads :
    pc[p] \in {"push", "push_next", "push_element"} => InRange(n[p])

--------------------------------------------------------------------------------
(* "allocate and recycle Job objects efficiently and in a thread-safe      *)
(* manner": overlapping calls do not lose jobs either.                     *)
NoJobEverLost ==
  (\A p \in Threads : pc[p] = "idle") =>
    Recyclable = {elements[i] : i \in 0 .. (free_next - 1)}

================================================================================
