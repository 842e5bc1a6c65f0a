------------------------ MODULE FixedWorkStealingQueue ------------------------
(***************************************************************************)
(* detail::FixedWorkStealingQueue: the fixed-size Chase-Lev deque every    *)
(* Worker owns.  One action per access to shared memory, interleaved under *)
(* sequential consistency.  The owner is the only writer of bottom_, so    *)
(* its local b is always the current bottom (push) or the decremented one  *)
(* (pop) and needs no variable; its read of a slot, which only it writes,  *)
(* is joined to the access before it.  counter_ is written and never read  *)
(* and has no variable.                                                    *)
(***************************************************************************)
EXTENDS Integers

CONSTANTS Jobs,          \* the jobs that may be pushed
          Null,          \* nullptr, the content of a fresh slot
          Owner,         \* the thread that may call push and pop
          Thieves,       \* the threads that may call steal
          Capacity,      \* capacity_
          IndexModulus,  \* 2^64: top_ and bottom_ are uint64_t
          MaxIndex,      \* bound: how far the indices may move from zero
          Disciplined    \* whether the owner keeps the contract below

ASSUME QueueAssumption ==
  /\ Null \notin Jobs
  /\ Owner \notin Thieves
  /\ Capacity \in Nat \ {0}
  /\ MaxIndex \in Nat
  /\ IndexModulus \in Nat /\ IndexModulus > 2 * MaxIndex
  /\ Disciplined \in BOOLEAN

Threads == {Owner} \cup Thieves
Contents == Jobs \cup {Null}
Index == 0 .. (IndexModulus - 1)
Labels == {"idle", "push_bottom", "pop_top", "pop_cas", "pop_bottom",
           "steal_bottom", "steal_slot", "steal_cas"}

VARIABLES top,     \* top_
          bottom,  \* bottom_
          slots,   \* jobs_
          pc,      \* pc[p]: the next access p makes, "idle" between calls
          t,       \* t[p]: the local t of steal or pop, 0 between calls
          target,  \* target[p]: the out-parameter, Null until assigned
          result   \* result[p]: TRUE once p's call has secured a job

vars == <<top, bottom, slots, pc, t, target, result>>

-------------------------------------------------------------------------------
(* The contract.  The test fixtures and the thread that runs main() push   *)
(* before they first pop, and the class comment takes it as given that     *)
(* there are never more entries than slots.                                *)

MayPush == Disciplined => bottom - top < Capacity
MayPop  == Disciplined => bottom > 0

(* Bounds: the owner starts no call once bottom_ is MaxIndex away from 0;  *)
(* without the contract, thieves start none once top_ has come that far.   *)
InBounds    == bottom < MaxIndex \/ bottom + MaxIndex > IndexModulus
TopInBounds == Disciplined \/ top < MaxIndex

(* uint64_t arithmetic *)
Up(x)   == IF x = IndexModulus - 1 THEN 0 ELSE x + 1
Down(x) == IF x = 0 THEN IndexModulus - 1 ELSE x - 1

Slot(i) == i % Capacity

Goto(p, label) == pc' = [pc EXCEPT ![p] = label]

(* Entry of an operation: the result of the previous call is given up. *)
Call(p, label) ==
  /\ pc[p] = "idle"
  /\ Goto(p, label)
  /\ target' = [target EXCEPT ![p] = Null]
  /\ result' = [result EXCEPT ![p] = FALSE]

Return(p) ==
  /\ Goto(p, "idle")
  /\ t' = [t EXCEPT ![p] = 0]

Init ==
  /\ top = 0
  /\ bottom = 0
  /\ slots = [i \in 0 .. (Capacity - 1) |-> Null]
  /\ pc = [p \in Threads |-> "idle"]
  /\ t = [p \in Threads |-> 0]
  /\ target = [p \in Threads |-> Null]
  /\ result = [p \in Threads |-> FALSE]

-------------------------------------------------------------------------------
(* push *)

PushSlot(j) ==
  /\ InBounds /\ MayPush
  /\ Call(Owner, "push_bottom")
  /\ slots' = [slots EXCEPT ![Slot(bottom)] = j]
  /\ UNCHANGED <<top, bottom, t>>

PushBottom ==
  /\ pc[Owner] = "push_bottom"
  /\ bottom' = Up(bottom)
  /\ Return(Owner)
  /\ UNCHANGED <<top, slots, target, result>>

-------------------------------------------------------------------------------
(* pop *)

PopDecrement ==
  /\ InBounds /\ MayPop
  /\ Call(Owner, "pop_top")
  /\ bottom' = Down(bottom)
  /\ UNCHANGED <<top, slots, t>>

(* Mutant: takes the last entry, too, without a race. *)
PopTakenUnraced ==
  /\ pc[Owner] = "pop_top" /\ top <= bottom
  /\ target' = [target EXCEPT ![Owner] = slots[Slot(bottom)]]
  /\ result' = [result EXCEPT ![Owner] = TRUE]
  /\ Return(Owner)
  /\ UNCHANGED <<top, bottom, slots>>

(* More than one entry: the bottom one is taken without a race. *)
PopTaken ==
  /\ pc[Owner] = "pop_top" /\ top < bottom
  /\ target' = [target EXCEPT ![Owner] = slots[Slot(bottom)]]
  /\ result' = [result EXCEPT ![Owner] = TRUE]
  /\ Return(Owner)
  /\ UNCHANGED <<top, bottom, slots>>

(* One entry: it must be won from the thieves. *)
PopLast ==
  /\ pc[Owner] = "pop_top" /\ top = bottom
  /\ target' = [target EXCEPT ![Owner] = slots[Slot(bottom)]]
  /\ t' = [t EXCEPT ![Owner] = top]
  /\ Goto(Owner, "pop_cas")
  /\ UNCHANGED <<top, bottom, slots, result>>

PopEmpty ==
  /\ pc[Owner] = "pop_top" /\ top > bottom
  /\ t' = [t EXCEPT ![Owner] = top]
  /\ Goto(Owner, "pop_bottom")
  /\ UNCHANGED <<top, bottom, slots, target, result>>

PopWon ==
  /\ pc[Owner] = "pop_cas" /\ top = t[Owner]
  /\ top' = Up(top)
  /\ result' = [result EXCEPT ![Owner] = TRUE]
  /\ Goto(Owner, "pop_bottom")
  /\ UNCHANGED <<bottom, slots, t, target>>

(* Mutant: compare_exchange_weak, which may fail without a race. *)
PopLostWeak ==
  /\ pc[Owner] = "pop_cas"
  /\ t' = [t EXCEPT ![Owner] = top]
  /\ Goto(Owner, "pop_bottom")
  /\ UNCHANGED <<top, bottom, slots, target, result>>

(* A failed compare_exchange loads the current top_ into t. *)
PopLost ==
  /\ pc[Owner] = "pop_cas" /\ top # t[Owner]
  /\ t' = [t EXCEPT ![Owner] = top]
  /\ Goto(Owner, "pop_bottom")
  /\ UNCHANGED <<top, bottom, slots, target, result>>

(* Mutant: bottom_ is left at the taken entry. *)
PopBottomLow ==
  /\ pc[Owner] = "pop_bottom"
  /\ bottom' = t[Owner]
  /\ Return(Owner)
  /\ UNCHANGED <<top, slots, target, result>>

PopBottom ==
  /\ pc[Owner] = "pop_bottom"
  /\ bottom' = Up(t[Owner])
  /\ Return(Owner)
  /\ UNCHANGED <<top, slots, target, result>>

-------------------------------------------------------------------------------
(* steal *)

StealTop(p) ==
  /\ TopInBounds
  /\ Call(p, "steal_bottom")
  /\ t' = [t EXCEPT ![p] = top]
  /\ UNCHANGED <<top, bottom, slots>>

(* Mutant: the empty check is off by one. *)
StealBottomInclusive(p) ==
  /\ pc[p] = "steal_bottom"
  /\ IF t[p] <= bottom
     THEN Goto(p, "steal_slot") /\ UNCHANGED t
     ELSE Return(p)
  /\ UNCHANGED <<top, bottom, slots, target, result>>

StealBottom(p) ==
  /\ pc[p] = "steal_bottom"
  /\ IF t[p] < bottom
     THEN Goto(p, "steal_slot") /\ UNCHANGED t
     ELSE Return(p)
  /\ UNCHANGED <<top, bottom, slots, target, result>>

StealSlot(p) ==
  /\ pc[p] = "steal_slot"
  /\ target' = [target EXCEPT ![p] = slots[Slot(t[p])]]
  /\ Goto(p, "steal_cas")
  /\ UNCHANGED <<top, bottom, slots, t, result>>

StealCas(p) ==
  /\ pc[p] = "steal_cas"
  /\ IF top = t[p]
     THEN top' = Up(top) /\ result' = [result EXCEPT ![p] = TRUE]
     ELSE UNCHANGED <<top, result>>
  /\ Return(p)
  /\ UNCHANGED <<bottom, slots, target>>

-------------------------------------------------------------------------------
OwnerStep ==
  \/ \E j \in Jobs : PushSlot(j)
  \/ PushBottom
  \/ PopDecrement \/ PopTaken \/ PopLast \/ PopEmpty
  \/ PopWon \/ PopLost \/ PopBottom

ThiefStep(p) == StealTop(p) \/ StealBottom(p) \/ StealSlot(p) \/ StealCas(p)

Next == OwnerStep \/ \E p \in Thieves : ThiefStep(p)

Spec == Init /\ [][Next]_vars

-------------------------------------------------------------------------------
(* The entries as the owner and the thieves see them.  An owner inside pop *)
(* has lowered bottom_ but has not yet decided whether it takes the entry. *)

Back == IF pc[Owner] \in {"pop_top", "pop_cas"} THEN bottom + 1 ELSE bottom

(* A push takes effect when its slot is written: nobody looks at the slot  *)
(* before bottom_ is stored.                                               *)
Count == CASE pc[Owner] = "push_bottom" -> bottom + 1 - top
           [] pc[Owner] = "pop_bottom"  -> 0
           [] OTHER                     -> Back - top

Got == [p \in Threads |-> IF result[p] THEN <<target[p]>> ELSE <<>>]

Atomic == INSTANCE AtomicQueue
            WITH ring <- slots, front <- Slot(top), count <- Count, got <- Got

(* Every variable keeps its type. *)
TypeOK ==
  /\ top \in Index
  /\ bottom \in Index
  /\ slots \in [0 .. (Capacity - 1) -> Contents]
  /\ pc \in [Threads -> Labels]
  /\ t \in [Threads -> Index]
  /\ target \in [Threads -> Contents]
  /\ result \in [Threads -> BOOLEAN]

(* The interleaved accesses of push, pop and steal implement AtomicQueue:  *)
(* no entry reaches two threads, none is dropped, the owner gets the       *)
(* newest and a thief the oldest entry.                                    *)
ImplementsAtomicQueue == Atomic!QueueSpec

(* A thief whose compare_exchange is going to succeed claims an entry that *)
(* is still in the queue, and holds the job that entry contains, however   *)
(* long ago it read top_, bottom_ and the slot.                            *)
StealClaimsCurrentEntry ==
  \A p \in Thieves :
    pc[p] = "steal_cas" /\ t[p] = top =>
      /\ top < Back
      /\ target[p] = slots[Slot(top)]

(* pop returns false only when the queue holds nothing. *)
PopMissesOnlyWhenEmpty ==
  pc[Owner] = "pop_bottom" /\ ~result[Owner] => bottom < top

-------------------------------------------------------------------------------
(* The inductive invariant behind these properties, for a disciplined      *)
(* owner: how bottom_ and top_ stand to each other at each point of push   *)
(* and pop, and what a thief's old reads still guarantee.                  *)

OwnerInv ==
  /\ pc[Owner] \in {"idle", "push_bottom", "pop_top", "pop_cas", "pop_bottom"}
  /\ pc[Owner] = "idle" => top <= bottom /\ bottom <= MaxIndex
  /\ pc[Owner] = "push_bottom" =>
       top <= bottom /\ bottom < MaxIndex /\ bottom - top < Capacity
  /\ pc[Owner] \in {"pop_top", "pop_cas", "pop_bottom"} =>
       top <= bottom + 1 /\ bottom + 1 < MaxIndex
  /\ pc[Owner] \in {"pop_top", "pop_cas"} => ~result[Owner]
  /\ pc[Owner] = "pop_cas" =>
       /\ t[Owner] = bottom /\ bottom <= top
       /\ target[Owner] = slots[Slot(bottom)]
  /\ pc[Owner] = "pop_bottom" =>
       /\ top = bottom + 1
       /\ t[Owner] = IF result[Owner] THEN bottom ELSE top

ThiefInv ==
  \A p \in Thieves :
    /\ pc[p] \in {"idle", "steal_bottom", "steal_slot", "steal_cas"}
    /\ pc[p] # "idle" => t[p] <= top /\ ~result[p]
    /\ pc[p] = "steal_slot" /\ t[p] = top => top < Back

QueueInv == TypeOK /\ OwnerInv /\ ThiefInv /\ StealClaimsCurrentEntry

===============================================================================
