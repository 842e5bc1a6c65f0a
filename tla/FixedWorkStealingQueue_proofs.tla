--------------------- MODULE FixedWorkStealingQueue_proofs ---------------------
(***************************************************************************)
(* TLAPS proofs about FixedWorkStealingQueue, for every capacity, every    *)
(* set of jobs and thieves and every index bound.                          *)
(***************************************************************************)
EXTENDS FixedWorkStealingQueue, TLAPS

(* A slot number is a valid position of jobs_. *)
LEMMA SlotType ==
  ASSUME NEW i \in Nat
  PROVE  Slot(i) \in 0 .. (Capacity - 1)
  BY QueueAssumption DEF Slot

(* Two different indices less than a full turn apart use different slots. *)
LEMMA SlotsDistinct ==
  ASSUME NEW i \in Nat, NEW k \in Nat, i < k, k - i < Capacity
  PROVE  Slot(i) # Slot(k)
<1> DEFINE qi == i \div Capacity
           qk == k \div Capacity
<1>1. /\ qi \in Int /\ qk \in Int
      /\ i = Capacity * qi + Slot(i)
      /\ k = Capacity * qk + Slot(k)
  BY QueueAssumption DEF Slot
<1>2. SUFFICES ASSUME Slot(i) = Slot(k) PROVE FALSE
  OBVIOUS
<1>3. k - i = Capacity * (qk - qi)
  BY <1>1, <1>2, SlotType, QueueAssumption
<1> HIDE DEF qi, qk
<1>4. CASE qk - qi <= 0
  BY <1>1, <1>3, <1>4, QueueAssumption
<1>5. CASE qk - qi >= 1
  BY <1>1, <1>3, <1>5, QueueAssumption
<1>6. QED
  BY <1>1, <1>4, <1>5

--------------------------------------------------------------------------------
(* uint64_t arithmetic stays within uint64_t, whatever the owner does. *)
LEMMA IndexType ==
  ASSUME NEW x \in Index
  PROVE  /\ Up(x) \in Index
         /\ Down(x) \in Index
         /\ Slot(x) \in 0 .. (Capacity - 1)
  BY SlotType, QueueAssumption DEF Up, Down, Index

(* Below the index bound the arithmetic does not wrap. *)
LEMMA NoWrap ==
  ASSUME NEW x \in Index
  PROVE  /\ x < MaxIndex => Up(x) = x + 1
         /\ x > 0 => Down(x) = x - 1
  BY QueueAssumption DEF Up, Down, Index

(* Every step of the queue keeps every variable in its type, for an owner  *)
(* that keeps the contract and for one that does not.                      *)
LEMMA TypeStep ==
  ASSUME TypeOK, [Next]_vars
  PROVE  TypeOK'
<1> USE DEF TypeOK, Goto, Threads, Contents, Labels
<1>z. 0 \in Index
  BY QueueAssumption DEF Index
<1>a. /\ Up(top) \in Index /\ Up(bottom) \in Index /\ Down(bottom) \in Index
      /\ Slot(bottom) \in 0 .. (Capacity - 1)
  BY IndexType
<1>b. \A p \in Threads : Up(t[p]) \in Index /\ Slot(t[p]) \in 0 .. (Capacity - 1)
  BY IndexType
<1> USE <1>z, <1>a, <1>b
<1> SUFFICES ASSUME Next PROVE TypeOK'
  BY DEF vars
<1>1. ASSUME NEW j \in Jobs, PushSlot(j) PROVE TypeOK'
  BY <1>1 DEF PushSlot, Call
<1>2. CASE PushBottom
  BY <1>2 DEF PushBottom, Return
<1>3. CASE PopDecrement
  BY <1>3 DEF PopDecrement, Call
<1>4. CASE PopTaken
  BY <1>4 DEF PopTaken, Return
<1>5. CASE PopLast
  BY <1>5 DEF PopLast
<1>6. CASE PopEmpty
  BY <1>6 DEF PopEmpty
<1>7. CASE PopWon
  BY <1>7 DEF PopWon
<1>8. CASE PopLost
  BY <1>8 DEF PopLost
<1>9. CASE PopBottom
  BY <1>9 DEF PopBottom, Return
<1>10. ASSUME NEW p \in Thieves, ThiefStep(p) PROVE TypeOK'
  <2>1. CASE StealTop(p)
    BY <2>1 DEF StealTop, Call
  <2>2. CASE StealBottom(p)
    BY <2>2 DEF StealBottom, Return
  <2>3. CASE StealSlot(p)
    BY <2>3 DEF StealSlot
  <2>4. CASE StealCas(p)
    BY <2>4 DEF StealCas, Return
  <2>5. QED
    BY <1>10, <2>1, <2>2, <2>3, <2>4 DEF ThiefStep
<1>11. QED
  BY <1>1, <1>2, <1>3, <1>4, <1>5, <1>6, <1>7, <1>8, <1>9, <1>10
     DEF Next, OwnerStep

(* Type correctness of the queue, with and without the contract. *)
THEOREM TypeCorrect == Spec => []TypeOK
<1>1. Init => TypeOK
  BY QueueAssumption DEF Init, TypeOK, Index, Contents, Labels
<1>2. TypeOK /\ [Next]_vars => TypeOK'
  BY TypeStep
<1>3. QED
  BY <1>1, <1>2, PTL DEF Spec

--------------------------------------------------------------------------------
(* The parts of the type invariant the proofs below rest on. *)
LEMMA TypeFacts ==
  ASSUME TypeOK
  PROVE  /\ top \in Nat /\ bottom \in Nat /\ MaxIndex \in Nat
         /\ Capacity \in Nat /\ IndexModulus \in Nat /\ IndexModulus > 2 * MaxIndex
         /\ bottom \in Index /\ top \in Index
         /\ pc \in [Threads -> Labels] /\ t \in [Threads -> Nat]
         /\ target \in [Threads -> Contents] /\ result \in [Threads -> BOOLEAN]
         /\ slots \in [0 .. (Capacity - 1) -> Contents]
         /\ Owner \in Threads /\ Owner \notin Thieves
         /\ \A p \in Thieves : p \in Threads /\ p # Owner
<1>1. /\ MaxIndex \in Nat /\ Capacity \in Nat /\ IndexModulus \in Nat
      /\ IndexModulus > 2 * MaxIndex
  BY QueueAssumption
<1>2. Index \subseteq Nat
  BY <1>1 DEF Index
<1>3. top \in Nat /\ bottom \in Nat /\ t \in [Threads -> Nat]
  BY <1>2 DEF TypeOK
<1>4. /\ Owner \in Threads /\ Owner \notin Thieves
      /\ \A p \in Thieves : p \in Threads /\ p # Owner
  BY QueueAssumption DEF Threads
<1>5. QED
  BY <1>1, <1>3, <1>4 DEF TypeOK

(* What the contract is needed for: a push finds room, a pop an entry, at  *)
(* least a phantom, that was pushed or left above zero.                    *)
LEMMA Contract ==
  ASSUME Disciplined
  PROVE  /\ \A j \in Jobs : PushSlot(j) => bottom - top < Capacity
         /\ PopDecrement => bottom > 0
  BY DEF PushSlot, PopDecrement, MayPush, MayPop

(* An owner step, if a push has room and a pop starts above zero, preserves *)
(* the relation of bottom_ to top_ at each of its program points, and what  *)
(* the thieves rely on.                                                     *)
LEMMA OwnerPreservesInv ==
  ASSUME QueueInv, OwnerStep,
         \A j \in Jobs : PushSlot(j) => bottom - top < Capacity,
         PopDecrement => bottom > 0
  PROVE  OwnerInv' /\ ThiefInv' /\ StealClaimsCurrentEntry'
<1> USE DEF Goto
<1>1. /\ top \in Nat /\ bottom \in Nat /\ MaxIndex \in Nat
      /\ Capacity \in Nat /\ IndexModulus \in Nat /\ IndexModulus > 2 * MaxIndex
      /\ bottom \in Index /\ top \in Index
      /\ pc \in [Threads -> Labels] /\ t \in [Threads -> Nat]
      /\ target \in [Threads -> Contents] /\ result \in [Threads -> BOOLEAN]
      /\ slots \in [0 .. (Capacity - 1) -> Contents]
  BY TypeFacts DEF QueueInv
<1>2. /\ Owner \in Threads /\ Owner \notin Thieves
      /\ \A p \in Thieves : p \in Threads /\ p # Owner
  BY TypeFacts DEF QueueInv
<1>3. OwnerInv /\ ThiefInv /\ StealClaimsCurrentEntry
  BY DEF QueueInv
<1>4. ASSUME NEW j \in Jobs, PushSlot(j)
      PROVE  OwnerInv' /\ ThiefInv' /\ StealClaimsCurrentEntry'
  <2>0. bottom - top < Capacity
    BY <1>4
  <2>1. /\ pc[Owner] = "idle" /\ bottom < MaxIndex /\ bottom - top < Capacity
        /\ top <= bottom
    BY <1>1, <1>3, <1>4, <2>0 DEF PushSlot, Call, InBounds, OwnerInv
  <2>2. OwnerInv'
    BY <1>1, <1>2, <1>4, <2>1 DEF PushSlot, Call, OwnerInv
  <2>3. /\ Back = bottom /\ Back' = bottom
        /\ \A p \in Thieves : pc'[p] = pc[p] /\ t'[p] = t[p]
                             /\ result'[p] = result[p] /\ target'[p] = target[p]
    BY <1>1, <1>2, <1>4, <2>1 DEF PushSlot, Call, Back
  <2>4. ThiefInv'
    BY <1>3, <1>4, <2>3 DEF PushSlot, ThiefInv
  <2>5. top < bottom => slots'[Slot(top)] = slots[Slot(top)]
    <3>1. top < bottom => Slot(top) # Slot(bottom)
      BY <1>1, <2>1, SlotsDistinct
    <3>2. Slot(top) \in 0 .. (Capacity - 1)
      BY <1>1, SlotType
    <3>3. QED
      BY <1>1, <1>4, <3>1, <3>2 DEF PushSlot
  <2>6. StealClaimsCurrentEntry'
    BY <1>3, <1>4, <2>3, <2>5 DEF PushSlot, StealClaimsCurrentEntry
  <2>7. QED
    BY <2>2, <2>4, <2>6
<1>5. ASSUME PushBottom
      PROVE  OwnerInv' /\ ThiefInv' /\ StealClaimsCurrentEntry'
  <2>1. /\ pc[Owner] = "push_bottom" /\ bottom < MaxIndex /\ top <= bottom
        /\ bottom' = bottom + 1
    BY <1>1, <1>3, <1>5, NoWrap DEF PushBottom, OwnerInv
  <2>2. OwnerInv'
    BY <1>1, <1>2, <1>5, <2>1 DEF PushBottom, Return, OwnerInv
  <2>3. /\ Back = bottom /\ Back' = bottom + 1
        /\ \A p \in Thieves : pc'[p] = pc[p] /\ t'[p] = t[p]
    BY <1>1, <1>2, <1>5, <2>1 DEF PushBottom, Return, Back
  <2>4. ThiefInv'
    BY <1>1, <1>3, <1>5, <2>3 DEF PushBottom, ThiefInv
  <2>5. StealClaimsCurrentEntry'
    BY <1>1, <1>3, <1>5, <2>3 DEF PushBottom, StealClaimsCurrentEntry
  <2>6. QED
    BY <2>2, <2>4, <2>5
<1>6. ASSUME PopDecrement
      PROVE  OwnerInv' /\ ThiefInv' /\ StealClaimsCurrentEntry'
  <2>1. /\ pc[Owner] = "idle" /\ bottom < MaxIndex /\ bottom > 0 /\ top <= bottom
        /\ bottom' = bottom - 1
    BY <1>1, <1>3, <1>6, NoWrap DEF PopDecrement, Call, InBounds, OwnerInv
  <2>2. OwnerInv'
    BY <1>1, <1>2, <1>6, <2>1 DEF PopDecrement, Call, OwnerInv
  <2>3. /\ Back = bottom /\ Back' = bottom
        /\ \A p \in Thieves : pc'[p] = pc[p] /\ result'[p] = result[p]
                             /\ target'[p] = target[p]
    <3>1. pc' = [pc EXCEPT ![Owner] = "pop_top"]
      BY <1>6 DEF PopDecrement, Call
    <3>2. Back = bottom /\ Back' = bottom
      BY <1>1, <1>2, <2>1, <3>1 DEF Back
    <3>3. QED
      BY <1>1, <1>2, <1>6, <3>1, <3>2 DEF PopDecrement, Call
  <2>4. ThiefInv'
    BY <1>3, <1>6, <2>3 DEF PopDecrement, ThiefInv
  <2>5. StealClaimsCurrentEntry'
    BY <1>3, <1>6, <2>3 DEF PopDecrement, StealClaimsCurrentEntry
  <2>6. QED
    BY <2>2, <2>4, <2>5
<1>7. ASSUME PopTaken
      PROVE  OwnerInv' /\ ThiefInv' /\ StealClaimsCurrentEntry'
  <2>1. pc[Owner] = "pop_top" /\ top < bottom /\ bottom + 1 < MaxIndex
    BY <1>3, <1>7 DEF PopTaken, OwnerInv
  <2>2. OwnerInv'
    BY <1>1, <1>2, <1>7, <2>1 DEF PopTaken, Return, OwnerInv
  <2>3. /\ Back' = bottom
        /\ \A p \in Thieves : pc'[p] = pc[p] /\ t'[p] = t[p]
                             /\ result'[p] = result[p] /\ target'[p] = target[p]
    BY <1>1, <1>2, <1>7, <2>1 DEF PopTaken, Return, Back
  <2>4. ThiefInv'
    BY <1>3, <1>7, <2>1, <2>3 DEF PopTaken, ThiefInv
  <2>5. StealClaimsCurrentEntry'
    BY <1>3, <1>7, <2>1, <2>3 DEF PopTaken, StealClaimsCurrentEntry
  <2>6. QED
    BY <2>2, <2>4, <2>5
<1>8. ASSUME PopLast
      PROVE  OwnerInv' /\ ThiefInv' /\ StealClaimsCurrentEntry'
  <2>1. /\ pc[Owner] = "pop_top" /\ top = bottom /\ bottom + 1 < MaxIndex
        /\ ~result[Owner]
    BY <1>3, <1>8 DEF PopLast, OwnerInv
  <2>2. OwnerInv'
    BY <1>1, <1>2, <1>8, <2>1 DEF PopLast, OwnerInv
  <2>3. /\ Back = bottom + 1 /\ Back' = bottom + 1
        /\ \A p \in Thieves : pc'[p] = pc[p] /\ t'[p] = t[p]
                             /\ target'[p] = target[p]
    BY <1>1, <1>2, <1>8, <2>1 DEF PopLast, Back
  <2>4. ThiefInv'
    BY <1>3, <1>8, <2>3 DEF PopLast, ThiefInv
  <2>5. StealClaimsCurrentEntry'
    BY <1>3, <1>8, <2>3 DEF PopLast, StealClaimsCurrentEntry
  <2>6. QED
    BY <2>2, <2>4, <2>5
<1>9. ASSUME PopEmpty \/ PopLost
      PROVE  OwnerInv' /\ ThiefInv' /\ StealClaimsCurrentEntry'
  <2>1. /\ pc[Owner] \in {"pop_top", "pop_cas"}
        /\ top = bottom + 1 /\ bottom + 1 < MaxIndex /\ ~result[Owner]
    BY <1>1, <1>3, <1>9 DEF PopEmpty, PopLost, OwnerInv
  <2>2. OwnerInv'
    BY <1>1, <1>2, <1>9, <2>1 DEF PopEmpty, PopLost, OwnerInv
  <2>3. /\ Back = bottom + 1
        /\ UNCHANGED <<top, result>>
        /\ \A p \in Thieves : pc'[p] = pc[p] /\ t'[p] = t[p]
    BY <1>1, <1>2, <1>9, <2>1 DEF PopEmpty, PopLost, Back
  <2>4. ThiefInv'
    BY <1>1, <1>3, <2>1, <2>3 DEF ThiefInv
  <2>5. StealClaimsCurrentEntry'
    BY <1>1, <1>3, <2>1, <2>3 DEF StealClaimsCurrentEntry
  <2>6. QED
    BY <2>2, <2>4, <2>5
<1>10. ASSUME PopWon
       PROVE  OwnerInv' /\ ThiefInv' /\ StealClaimsCurrentEntry'
  <2>1. /\ pc[Owner] = "pop_cas" /\ top = bottom /\ t[Owner] = bottom
        /\ bottom + 1 < MaxIndex /\ top' = top + 1
    BY <1>1, <1>3, <1>10, NoWrap DEF PopWon, OwnerInv
  <2>2. OwnerInv'
    BY <1>1, <1>2, <1>10, <2>1 DEF PopWon, OwnerInv
  <2>3. /\ \A p \in Thieves : pc'[p] = pc[p] /\ t'[p] = t[p]
                             /\ result'[p] = result[p]
        /\ \A p \in Thieves : t[p] \in Nat
    BY <1>1, <1>2, <1>10 DEF PopWon
  <2>4. ThiefInv'
    BY <1>1, <1>3, <2>1, <2>3 DEF ThiefInv
  <2>5. StealClaimsCurrentEntry'
    BY <1>1, <1>3, <2>1, <2>3 DEF ThiefInv, StealClaimsCurrentEntry
  <2>6. QED
    BY <2>2, <2>4, <2>5
<1>11. ASSUME PopBottom
       PROVE  OwnerInv' /\ ThiefInv' /\ StealClaimsCurrentEntry'
  <2>1. /\ pc[Owner] = "pop_bottom" /\ top = bottom + 1 /\ bottom + 1 < MaxIndex
        /\ t[Owner] \in {bottom, top} /\ t[Owner] \in Index
    BY <1>1, <1>3, <1>11 DEF PopBottom, OwnerInv
  <2>2. bottom' = t[Owner] + 1
    BY <1>1, <1>11, <2>1, NoWrap DEF PopBottom
  <2>3. OwnerInv'
    BY <1>1, <1>2, <1>11, <2>1, <2>2 DEF PopBottom, Return, OwnerInv
  <2>4. /\ Back = bottom
        /\ UNCHANGED <<top, result>>
        /\ \A p \in Thieves : pc'[p] = pc[p] /\ t'[p] = t[p]
    BY <1>1, <1>2, <1>11, <2>1 DEF PopBottom, Return, Back
  <2>5. ThiefInv'
    BY <1>1, <1>3, <2>1, <2>4 DEF ThiefInv
  <2>6. StealClaimsCurrentEntry'
    BY <1>1, <1>3, <2>1, <2>4 DEF StealClaimsCurrentEntry
  <2>7. QED
    BY <2>3, <2>5, <2>6
<1>12. QED
  BY <1>4, <1>5, <1>6, <1>7, <1>8, <1>9, <1>10, <1>11 DEF OwnerStep

(* A thief's step preserves the same facts: the only shared variable it    *)
(* writes is top_, and only past an entry that is still in the queue.      *)
LEMMA ThiefPreservesInv ==
  ASSUME QueueInv, NEW p \in Thieves, ThiefStep(p)
  PROVE  OwnerInv' /\ ThiefInv' /\ StealClaimsCurrentEntry'
<1> USE DEF Goto
<1>1. /\ top \in Nat /\ bottom \in Nat /\ MaxIndex \in Nat
      /\ Capacity \in Nat /\ IndexModulus \in Nat /\ IndexModulus > 2 * MaxIndex
      /\ bottom \in Index /\ top \in Index
      /\ pc \in [Threads -> Labels] /\ t \in [Threads -> Nat]
      /\ target \in [Threads -> Contents] /\ result \in [Threads -> BOOLEAN]
      /\ slots \in [0 .. (Capacity - 1) -> Contents]
  BY TypeFacts DEF QueueInv
<1>2. /\ Owner \in Threads /\ Owner \notin Thieves
      /\ \A q \in Thieves : q \in Threads /\ q # Owner
  BY TypeFacts DEF QueueInv
<1>3. OwnerInv /\ ThiefInv /\ StealClaimsCurrentEntry
  BY DEF QueueInv
<1>4. \A q \in Thieves : t[q] \in Nat /\ (pc[q] # "idle" => t[q] <= top)
  BY <1>1, <1>2, <1>3 DEF ThiefInv
<1>5. CASE StealTop(p)
  <2>1. /\ UNCHANGED <<top, bottom, slots>> /\ pc'[Owner] = pc[Owner]
        /\ t'[Owner] = t[Owner] /\ result'[Owner] = result[Owner]
        /\ target'[Owner] = target[Owner]
        /\ pc'[p] = "steal_bottom" /\ t'[p] = top /\ ~result'[p]
        /\ \A q \in Thieves \ {p} : pc'[q] = pc[q] /\ t'[q] = t[q]
                             /\ result'[q] = result[q] /\ target'[q] = target[q]
    BY <1>1, <1>2, <1>5 DEF StealTop, Call
  <2>2. OwnerInv'
    BY <1>3, <2>1 DEF OwnerInv
  <2>3. Back' = Back
    BY <2>1 DEF Back
  <2>4. ThiefInv'
    BY <1>1, <1>3, <2>1, <2>3 DEF ThiefInv
  <2>5. StealClaimsCurrentEntry'
    BY <1>3, <2>1, <2>3 DEF StealClaimsCurrentEntry
  <2>6. QED
    BY <2>2, <2>4, <2>5
<1>6. CASE StealBottom(p)
  <2>1. /\ UNCHANGED <<top, bottom, slots, target, result>> /\ pc'[Owner] = pc[Owner]
        /\ t'[Owner] = t[Owner]
        /\ pc[p] = "steal_bottom"
        /\ pc'[p] = "idle" \/ (pc'[p] = "steal_slot" /\ t'[p] = t[p] /\ t[p] < bottom)
        /\ \A q \in Thieves \ {p} : pc'[q] = pc[q] /\ t'[q] = t[q]
    BY <1>1, <1>2, <1>6 DEF StealBottom, Return
  <2>2. OwnerInv'
    BY <1>3, <2>1 DEF OwnerInv
  <2>3. Back' = Back /\ bottom <= Back
    BY <1>1, <2>1 DEF Back
  <2>4. Back \in Nat
    BY <1>1 DEF Back
  <2>5. ThiefInv'
    BY <1>1, <1>3, <1>4, <2>1, <2>3, <2>4 DEF ThiefInv
  <2>6. StealClaimsCurrentEntry'
    BY <1>3, <2>1, <2>3 DEF StealClaimsCurrentEntry
  <2>7. QED
    BY <2>2, <2>5, <2>6
<1>7. CASE StealSlot(p)
  <2>1. /\ UNCHANGED <<top, bottom, slots, t, result>> /\ pc'[Owner] = pc[Owner]
        /\ target'[Owner] = target[Owner]
        /\ pc[p] = "steal_slot" /\ pc'[p] = "steal_cas"
        /\ target'[p] = slots[Slot(t[p])]
        /\ \A q \in Thieves \ {p} : pc'[q] = pc[q] /\ target'[q] = target[q]
    BY <1>1, <1>2, <1>7 DEF StealSlot
  <2>2. OwnerInv'
    BY <1>3, <2>1 DEF OwnerInv
  <2>3. Back' = Back
    BY <2>1 DEF Back
  <2>4. ThiefInv'
    BY <1>3, <2>1, <2>3 DEF ThiefInv
  <2>5. StealClaimsCurrentEntry'
    BY <1>3, <2>1, <2>3 DEF ThiefInv, StealClaimsCurrentEntry
  <2>6. QED
    BY <2>2, <2>4, <2>5
<1>8. CASE StealCas(p) /\ top # t[p]
  <2>1. /\ UNCHANGED <<top, bottom, slots, target, result>> /\ pc'[Owner] = pc[Owner]
        /\ t'[Owner] = t[Owner] /\ pc'[p] = "idle"
        /\ \A q \in Thieves \ {p} : pc'[q] = pc[q] /\ t'[q] = t[q]
    BY <1>1, <1>2, <1>8 DEF StealCas, Return
  <2>2. OwnerInv'
    BY <1>3, <2>1 DEF OwnerInv
  <2>3. Back' = Back
    BY <2>1 DEF Back
  <2>4. ThiefInv'
    BY <1>3, <2>1, <2>3 DEF ThiefInv
  <2>5. StealClaimsCurrentEntry'
    BY <1>3, <2>1, <2>3 DEF StealClaimsCurrentEntry
  <2>6. QED
    BY <2>2, <2>4, <2>5
<1>9. CASE StealCas(p) /\ top = t[p]
  <2>1. pc[p] = "steal_cas" /\ top < Back
    BY <1>3, <1>9 DEF StealCas, StealClaimsCurrentEntry
  <2>2. Back \in Nat /\ Back <= MaxIndex /\ Back = IF pc[Owner] \in {"pop_top", "pop_cas"}
                                                   THEN bottom + 1 ELSE bottom
    BY <1>1, <1>3, <2>1 DEF Back, OwnerInv
  <2>3. top' = top + 1
    BY <1>1, <1>9, <2>1, <2>2, NoWrap DEF StealCas
  <2>4. /\ UNCHANGED <<bottom, slots, target>> /\ pc'[Owner] = pc[Owner]
        /\ t'[Owner] = t[Owner] /\ result'[Owner] = result[Owner] /\ pc'[p] = "idle"
        /\ \A q \in Thieves \ {p} : pc'[q] = pc[q] /\ t'[q] = t[q] /\ result'[q] = result[q]
    BY <1>1, <1>2, <1>9 DEF StealCas, Return
  <2>5. OwnerInv'
    BY <1>1, <1>3, <2>1, <2>2, <2>3, <2>4 DEF OwnerInv
  <2>6. \A q \in Thieves : pc'[q] # "idle" => t'[q] <= top' /\ t'[q] # top' /\ ~result'[q]
    BY <1>1, <1>3, <1>4, <2>3, <2>4 DEF ThiefInv
  <2>7. ThiefInv'
    BY <1>3, <2>4, <2>6 DEF ThiefInv
  <2>8. StealClaimsCurrentEntry'
    BY <2>6 DEF StealClaimsCurrentEntry
  <2>9. QED
    BY <2>5, <2>7, <2>8
<1>10. QED
  BY <1>5, <1>6, <1>7, <1>8, <1>9 DEF ThiefStep

(* The inductive invariant of a queue whose owner keeps the contract. *)
THEOREM QueueInvariant ==
  ASSUME Disciplined
  PROVE  Spec => []QueueInv
<1>1. Init => QueueInv
  BY QueueAssumption
     DEF Init, QueueInv, TypeOK, Index, Contents, Labels, Threads,
         OwnerInv, ThiefInv, StealClaimsCurrentEntry
<1>2. QueueInv /\ [Next]_vars => QueueInv'
  <2> SUFFICES ASSUME QueueInv, [Next]_vars PROVE QueueInv'
    OBVIOUS
  <2>1. TypeOK'
    BY TypeStep DEF QueueInv
  <2>2. CASE Next
    BY <2>1, <2>2, Contract, OwnerPreservesInv, ThiefPreservesInv DEF Next, QueueInv
  <2>3. CASE UNCHANGED vars
    BY <2>1, <2>3 DEF vars, QueueInv, OwnerInv, ThiefInv, StealClaimsCurrentEntry, Back
  <2>4. QED
    BY <2>2, <2>3
<1>3. QED
  BY <1>1, <1>2, PTL DEF Spec

(* A steal whose compare_exchange is going to succeed claims an entry that *)
(* is still in the queue and holds that entry's job: however far top_ and  *)
(* bottom_ moved between the four accesses of steal, no slot it read can   *)
(* have been reused.                                                       *)
THEOREM StealClaimsEntries ==
  ASSUME Disciplined
  PROVE  Spec => []StealClaimsCurrentEntry
  BY QueueInvariant, PTL DEF QueueInv

(* With an owner that keeps the contract, pop fails only on an empty queue. *)
THEOREM PopMisses ==
  ASSUME Disciplined
  PROVE  Spec => []PopMissesOnlyWhenEmpty
<1>1. QueueInv => PopMissesOnlyWhenEmpty
  BY TypeFacts DEF QueueInv, OwnerInv, PopMissesOnlyWhenEmpty
<1>2. QED
  BY <1>1, QueueInvariant, PTL

--------------------------------------------------------------------------------
(* The remainder modulo the capacity is unique. *)
LEMMA RemainderUnique ==
  ASSUME NEW x \in Int, NEW y \in Int,
         NEW a \in 0 .. (Capacity - 1), NEW b \in 0 .. (Capacity - 1),
         Capacity * x + a = Capacity * y + b
  PROVE  a = b
<1>1. CASE x = y
  BY <1>1, QueueAssumption
<1>2. CASE x >= y + 1
  BY <1>2, QueueAssumption
<1>3. CASE y >= x + 1
  BY <1>3, QueueAssumption
<1>4. QED
  BY <1>1, <1>2, <1>3

(* Slots advance round the ring the way indices advance. *)
LEMMA SlotAdvance ==
  ASSUME NEW i \in Nat, NEW n \in Nat
  PROVE  (Slot(i) + n) % Capacity = Slot(i + n)
<1> DEFINE a == (Slot(i) + n) % Capacity
           b == Slot(i + n)
           qi == i \div Capacity
           qa == (Slot(i) + n) \div Capacity
           qb == (i + n) \div Capacity
<1>1. /\ Slot(i) \in Nat /\ a \in 0 .. (Capacity - 1) /\ b \in 0 .. (Capacity - 1)
      /\ qi \in Int /\ qa \in Int /\ qb \in Int
  BY SlotType, QueueAssumption DEF Slot
<1>2. /\ i = Capacity * qi + Slot(i)
      /\ Slot(i) + n = Capacity * qa + a
      /\ i + n = Capacity * qb + b
  BY <1>1, QueueAssumption DEF Slot
<1> HIDE DEF a, b, qi, qa, qb
<1>3. Capacity * (qi + qa) + a = Capacity * qb + b
  BY <1>1, <1>2, QueueAssumption
<1>4. a = b
  BY <1>1, <1>3, RemainderUnique
<1>5. QED
  BY <1>4 DEF a, b

(* What the refinement mapping shows of a type-correct state. *)
LEMMA MappedQueue ==
  ASSUME QueueInv
  PROVE  /\ \A n \in Nat : Atomic!At(n) = Slot(top + n)
         /\ Count \in Nat
         /\ Owner \in Threads
         /\ \A p \in Threads : Got[p] = IF result[p] THEN <<target[p]>> ELSE <<>>
<1>1. \A n \in Nat : Atomic!At(n) = Slot(top + n)
  BY SlotAdvance, TypeFacts DEF QueueInv, Atomic!At
<1>2. Count \in Nat
  BY TypeFacts DEF QueueInv, OwnerInv, Count, Back
<1>3. QED
  BY <1>1, <1>2, TypeFacts DEF QueueInv, Got

(* Every step of the owner is a step of AtomicQueue or leaves it as it is, *)
(* if a push has room and a pop starts above zero.                         *)
LEMMA OwnerRefines ==
  ASSUME QueueInv, OwnerStep,
         \A j \in Jobs : PushSlot(j) => bottom - top < Capacity,
         PopDecrement => bottom > 0
  PROVE  [Atomic!QueueNext]_(Atomic!queueVars)
<1> USE DEF Goto
<1>1. /\ top \in Nat /\ bottom \in Nat /\ MaxIndex \in Nat
      /\ Capacity \in Nat /\ IndexModulus \in Nat /\ IndexModulus > 2 * MaxIndex
      /\ bottom \in Index /\ top \in Index
      /\ pc \in [Threads -> Labels] /\ t \in [Threads -> Nat]
      /\ target \in [Threads -> Contents] /\ result \in [Threads -> BOOLEAN]
      /\ slots \in [0 .. (Capacity - 1) -> Contents]
      /\ Owner \in Threads
  BY TypeFacts DEF QueueInv
<1>2. OwnerInv
  BY DEF QueueInv
<1>3. ASSUME NEW j \in Jobs, PushSlot(j) PROVE Atomic!Push(j)
  <2>0. bottom - top < Capacity
    BY <1>3
  <2>1. /\ pc[Owner] = "idle" /\ top <= bottom /\ bottom - top < Capacity
        /\ pc'[Owner] = "push_bottom" /\ UNCHANGED <<top, bottom>>
        /\ slots' = [slots EXCEPT ![Slot(bottom)] = j]
    BY <1>1, <1>2, <1>3, <2>0 DEF PushSlot, Call, OwnerInv
  <2>2. Count = bottom - top /\ Count' = Count + 1 /\ Count < Capacity
    BY <1>1, <2>1 DEF Count, Back
  <2>3. Atomic!At(Count) = Slot(bottom)
    BY <1>1, <2>1, <2>2, MappedQueue
  <2>4. Got' = [Got EXCEPT ![Owner] = <<>>]
    BY <1>1, <1>3 DEF PushSlot, Call, Got
  <2>5. Slot(top)' = Slot(top)
    BY <2>1
  <2>6. QED
    BY <2>1, <2>2, <2>3, <2>4, <2>5 DEF Atomic!Push
<1>4. ASSUME PushBottom PROVE UNCHANGED Atomic!queueVars
  <2>1. /\ pc[Owner] = "push_bottom" /\ pc'[Owner] = "idle" /\ bottom' = bottom + 1
        /\ UNCHANGED <<top, slots, target, result>>
    BY <1>1, <1>2, <1>4, NoWrap DEF PushBottom, Return, OwnerInv
  <2>2. Count' = Count
    BY <1>1, <2>1 DEF Count, Back
  <2>3. QED
    BY <2>1, <2>2 DEF Atomic!queueVars, Got
<1>5. ASSUME PopDecrement PROVE Atomic!Begin(Owner)
  <2>1. /\ pc[Owner] = "idle" /\ pc'[Owner] = "pop_top" /\ bottom' = bottom - 1
        /\ UNCHANGED <<top, slots>>
    BY <1>1, <1>2, <1>5, NoWrap DEF PopDecrement, Call, OwnerInv
  <2>2. Count' = Count
    BY <1>1, <2>1 DEF Count, Back
  <2>3. Got' = [Got EXCEPT ![Owner] = <<>>]
    BY <1>1, <1>5 DEF PopDecrement, Call, Got
  <2>4. QED
    BY <2>1, <2>2, <2>3 DEF Atomic!Begin
<1>6. ASSUME PopTaken PROVE Atomic!PopNewest
  <2>1. /\ pc[Owner] = "pop_top" /\ pc'[Owner] = "idle" /\ top < bottom
        /\ UNCHANGED <<top, bottom, slots>>
    BY <1>1, <1>6 DEF PopTaken, Return
  <2>2. Count = bottom + 1 - top /\ Count' = Count - 1 /\ Count > 1
    BY <1>1, <2>1 DEF Count, Back
  <2>3. Atomic!At(Count - 1) = Slot(bottom)
    BY <1>1, <2>1, <2>2, MappedQueue
  <2>4. Got' = [Got EXCEPT ![Owner] = <<slots[Slot(bottom)]>>]
    BY <1>1, <1>6 DEF PopTaken, Got
  <2>5. QED
    BY <2>1, <2>2, <2>3, <2>4 DEF Atomic!PopNewest
<1>7. ASSUME PopLast PROVE UNCHANGED Atomic!queueVars
  <2>1. /\ pc[Owner] = "pop_top" /\ pc'[Owner] = "pop_cas" /\ ~result[Owner]
        /\ UNCHANGED <<top, bottom, slots, result>>
        /\ target' = [target EXCEPT ![Owner] = slots[Slot(bottom)]]
    BY <1>1, <1>2, <1>7 DEF PopLast, OwnerInv
  <2>2. Count' = Count
    BY <2>1 DEF Count, Back
  <2>3. Got' = Got
    BY <1>1, <2>1 DEF Got
  <2>4. QED
    BY <2>1, <2>2, <2>3 DEF Atomic!queueVars
<1>8. ASSUME PopEmpty \/ PopLost PROVE UNCHANGED Atomic!queueVars
  <2>1. /\ pc[Owner] \in {"pop_top", "pop_cas"} /\ pc'[Owner] = "pop_bottom"
        /\ top = bottom + 1
        /\ UNCHANGED <<top, bottom, slots, target, result>>
    BY <1>1, <1>2, <1>8 DEF PopEmpty, PopLost, OwnerInv
  <2>2. Count' = Count
    BY <1>1, <2>1 DEF Count, Back
  <2>3. QED
    BY <2>1, <2>2 DEF Atomic!queueVars, Got
<1>9. ASSUME PopWon PROVE Atomic!Pop
  <2>1. /\ pc[Owner] = "pop_cas" /\ pc'[Owner] = "pop_bottom" /\ top = bottom
        /\ top' = top + 1 /\ UNCHANGED <<bottom, slots, target>>
        /\ result' = [result EXCEPT ![Owner] = TRUE]
    BY <1>1, <1>2, <1>9, NoWrap DEF PopWon, OwnerInv
  <2>2. Count = 1 /\ Count' = 0
    BY <1>1, <2>1 DEF Count, Back
  <2>3. Slot(top)' = Atomic!At(1)
    BY <1>1, <2>1, MappedQueue DEF Slot
  <2>4. target[Owner] = slots[Slot(top)]
    BY <1>1, <1>2, <2>1 DEF QueueInv, OwnerInv
  <2>5. Got' = [Got EXCEPT ![Owner] = <<slots[Slot(top)]>>]
    BY <1>1, <2>1, <2>4 DEF Got
  <2>6. QED
    BY <2>1, <2>2, <2>3, <2>5 DEF Atomic!Pop, Atomic!TakeOldest
<1>10. ASSUME PopBottom PROVE UNCHANGED Atomic!queueVars \/ Atomic!Phantom
  <2>1. /\ pc[Owner] = "pop_bottom" /\ pc'[Owner] = "idle" /\ top = bottom + 1
        /\ UNCHANGED <<top, slots, target, result>>
        /\ bottom' = top \/ bottom' = top + 1
    BY <1>1, <1>2, <1>10, NoWrap DEF PopBottom, Return, OwnerInv
  <2>2. Count = 0 /\ Count' \in {0, 1}
    BY <1>1, <2>1 DEF Count, Back
  <2>3. Got' = Got
    BY <2>1 DEF Got
  <2>4. QED
    BY <2>1, <2>2, <2>3 DEF Atomic!queueVars, Atomic!Phantom
<1>11. Owner \in Atomic!Threads
  BY DEF Atomic!Threads
<1>12. ASSUME NEW j \in Jobs, PushSlot(j) PROVE Atomic!QueueNext
  BY <1>3, <1>12 DEF Atomic!QueueNext
<1>13. PopDecrement => Atomic!QueueNext
  BY <1>5, <1>11 DEF Atomic!QueueNext
<1>14. PopTaken \/ PopWon => Atomic!QueueNext
  BY <1>6, <1>9 DEF Atomic!QueueNext, Atomic!Pop
<1>15. PopBottom => Atomic!QueueNext \/ UNCHANGED Atomic!queueVars
  BY <1>10 DEF Atomic!QueueNext
<1>16. QED
  BY <1>4, <1>7, <1>8, <1>12, <1>13, <1>14, <1>15 DEF OwnerStep

(* Every step of a thief is a step of AtomicQueue or leaves it as it is. *)
LEMMA ThiefRefines ==
  ASSUME QueueInv, NEW p \in Thieves, ThiefStep(p)
  PROVE  [Atomic!QueueNext]_(Atomic!queueVars)
<1> USE DEF Goto
<1>1. /\ top \in Nat /\ bottom \in Nat /\ MaxIndex \in Nat /\ top \in Index
      /\ pc \in [Threads -> Labels]
      /\ target \in [Threads -> Contents] /\ result \in [Threads -> BOOLEAN]
      /\ p \in Threads /\ p # Owner
  BY TypeFacts DEF QueueInv
<1>2. ThiefInv /\ StealClaimsCurrentEntry /\ OwnerInv
  BY DEF QueueInv
<1>3. ASSUME StealTop(p) PROVE Atomic!Begin(p)
  <2>1. pc'[Owner] = pc[Owner] /\ UNCHANGED <<top, bottom, slots>>
    BY <1>1, <1>3 DEF StealTop, Call
  <2>2. Count' = Count
    BY <2>1 DEF Count, Back
  <2>3. Got' = [Got EXCEPT ![p] = <<>>]
    BY <1>1, <1>3 DEF StealTop, Call, Got
  <2>4. QED
    BY <2>1, <2>2, <2>3 DEF Atomic!Begin
<1>4. ASSUME StealBottom(p) \/ (StealCas(p) /\ top # t[p])
      PROVE  UNCHANGED Atomic!queueVars
  <2>1. pc'[Owner] = pc[Owner] /\ UNCHANGED <<top, bottom, slots, target, result>>
    <3>1. CASE StealBottom(p)
      <4>1. /\ UNCHANGED <<top, bottom, slots, target, result>>
            /\ \E label : pc' = [pc EXCEPT ![p] = label]
        BY <3>1 DEF StealBottom, Return
      <4>2. QED
        BY <1>1, <4>1
    <3>2. CASE StealCas(p) /\ top # t[p]
      BY <1>1, <3>2 DEF StealCas, Return
    <3>3. QED
      BY <1>4, <3>1, <3>2
  <2>2. Count' = Count
    BY <2>1 DEF Count, Back
  <2>3. QED
    BY <2>1, <2>2 DEF Atomic!queueVars, Got
<1>5. ASSUME StealSlot(p) PROVE UNCHANGED Atomic!queueVars
  <2>1. /\ pc'[Owner] = pc[Owner] /\ UNCHANGED <<top, bottom, slots, result>>
        /\ target' = [target EXCEPT ![p] = slots[Slot(t[p])]] /\ ~result[p]
    BY <1>1, <1>2, <1>5 DEF StealSlot, ThiefInv
  <2>2. Count' = Count
    BY <2>1 DEF Count, Back
  <2>3. Got' = Got
    BY <1>1, <2>1 DEF Got
  <2>4. QED
    BY <2>1, <2>2, <2>3 DEF Atomic!queueVars
<1>6. ASSUME StealCas(p), top = t[p] PROVE Atomic!Steal(p)
  <2>1. /\ pc[p] = "steal_cas" /\ pc'[Owner] = pc[Owner]
        /\ UNCHANGED <<bottom, slots, target>>
        /\ result' = [result EXCEPT ![p] = TRUE] /\ top' = Up(top)
    BY <1>1, <1>6 DEF StealCas, Return
  <2>2. top < Back /\ target[p] = slots[Slot(top)]
    BY <1>2, <1>6, <2>1 DEF StealClaimsCurrentEntry
  <2>3. top' = top + 1 /\ pc[Owner] # "pop_bottom"
        /\ (pc[Owner] = "push_bottom" => Back = bottom)
    BY <1>1, <1>2, <2>1, <2>2, NoWrap DEF Back, OwnerInv
  <2>4. Count > 0 /\ Count' = Count - 1
    BY <1>1, <2>1, <2>2, <2>3 DEF Count, Back
  <2>5. Slot(top)' = Atomic!At(1)
    BY <1>1, <2>3, MappedQueue DEF Slot
  <2>6. Got' = [Got EXCEPT ![p] = <<slots[Slot(top)]>>]
    BY <1>1, <2>1, <2>2 DEF Got
  <2>7. QED
    BY <2>1, <2>4, <2>5, <2>6 DEF Atomic!Steal, Atomic!TakeOldest
<1>7. p \in Atomic!Threads
  BY <1>1 DEF Threads, Atomic!Threads
<1>8. QED
  BY <1>3, <1>4, <1>5, <1>6, <1>7 DEF ThiefStep, Atomic!QueueNext

(* The queue, with its plain loads and stores and one compare_exchange per *)
(* operation, implements a ring whose operations are atomic, for every     *)
(* capacity and number of thieves, as long as its owner keeps the contract.*)
THEOREM Implementation ==
  ASSUME Disciplined
  PROVE  Spec => ImplementsAtomicQueue
<1>1. Init => Atomic!QueueInit
  <2> SUFFICES ASSUME Init PROVE Atomic!QueueInit
    OBVIOUS
  <2>1. top = 0 /\ bottom = 0 /\ Owner \in Threads /\ pc[Owner] = "idle"
    BY DEF Init, Threads
  <2>2. Count = 0 /\ Slot(top) = 0
    BY <2>1, QueueAssumption DEF Count, Back, Slot
  <2>3. Got = [p \in Threads |-> <<>>]
    BY DEF Got, Init
  <2>4. QED
    BY <2>2, <2>3 DEF Init, Atomic!QueueInit, Atomic!Slots, Threads, Atomic!Threads
<1>2. QueueInv /\ [Next]_vars => [Atomic!QueueNext]_(Atomic!queueVars)
  <2> SUFFICES ASSUME QueueInv, [Next]_vars
               PROVE  [Atomic!QueueNext]_(Atomic!queueVars)
    OBVIOUS
  <2>1. CASE Next
    BY <2>1, Contract, OwnerRefines, ThiefRefines DEF Next
  <2>2. CASE UNCHANGED vars
    BY <2>2 DEF vars, Atomic!queueVars, Count, Back, Got, Slot
  <2>3. QED
    BY <2>1, <2>2
<1>3. QED
  BY <1>1, <1>2, QueueInvariant, PTL
     DEF Spec, ImplementsAtomicQueue, Atomic!QueueSpec

================================================================================
