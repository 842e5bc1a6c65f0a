--------------------------- MODULE WorkerQueue_proofs ---------------------------
(***************************************************************************)
(* For every capacity, every number of jobs and thieves and however often  *)
(* a worker has popped in vain: while bottom_ is below zero it finds what  *)
(* it has pushed, newest first; and as long as no thread was misled no     *)
(* job is overwritten, none runs twice and no wait returns early.          *)
(***************************************************************************)
EXTENDS WorkerQueue, FixedWorkStealingQueue_proofs, FiniteSetTheorems

(* The jobs that have been made. *)
Known == {j \in Jobs : state[j] # "unknown"}

(* What the owner has pushed lies right under b, the newest on top. *)
Stacked(b) ==
  \A k \in 0 .. (Len(stack) - 1) : slots[Slot(b - 1 - k)] = stack[Len(stack) - k]

(* The indices stay in reach of zero. *)
NearZero ==
  /\ top <= MaxIndex
  /\ pc[Owner] \in {"idle", "push_bottom", "pop_top", "pop_cas", "pop_bottom"}
  /\ pc[Owner] = "idle" => bottom <= MaxIndex + 1 \/ BelowZero(bottom)
  /\ pc[Owner] \in {"push_bottom", "pop_top"} => bottom < MaxIndex \/ BelowZero(bottom)
  /\ pc[Owner] = "pop_cas" => t[Owner] < MaxIndex
  /\ pc[Owner] = "pop_bottom" => t[Owner] <= MaxIndex
  /\ \A p \in Thieves : pc[p] # "idle" => t[p] < MaxIndex

(* Until bottom_ has come up above zero, and in the midst of push and pop. *)
Kept ==
  /\ pc[Owner] = "idle" /\ (BelowZero(bottom) \/ bottom = 0) => Stacked(bottom)
  /\ pc[Owner] \in {"push_bottom", "pop_top"} /\ BelowZero(bottom) => Stacked(bottom + 1)

(* There is room for what the owner has pushed. *)
Fits == Len(stack) <= Cardinality(Known)

NestedInv == TypeOK /\ GroupTypeOK /\ NearZero /\ Kept /\ Fits

--------------------------------------------------------------------------------
(* The facts about the constants the steps use. *)
LEMMA Constants ==
  /\ Capacity \in Nat \ {0} /\ MaxIndex \in Nat /\ IndexModulus \in Nat
  /\ IndexModulus > 2 * MaxIndex + 2
  /\ \A b \in Nat : b > IndexModulus \div 2 => b > MaxIndex + 1
  /\ \A b \in Nat : b + MaxIndex > IndexModulus => b - 1 > IndexModulus \div 2
  /\ IndexModulus - 1 > IndexModulus \div 2
BY QueueAssumption, WorkerQueueAssumption

(* An integer has one quotient and one remainder. *)
LEMMA Remainder ==
  ASSUME NEW i \in Int
  PROVE  /\ Slot(i) \in 0 .. (Capacity - 1)
         /\ \E q \in Int : i = Capacity * q + Slot(i)
<1>1. i \div Capacity \in Int /\ i = Capacity * (i \div Capacity) + Slot(i)
      /\ Slot(i) \in 0 .. (Capacity - 1)
  BY QueueAssumption DEF Slot
<1> QED BY <1>1

LEMMA RemainderIsUnique ==
  ASSUME NEW q \in Int, NEW r \in 0 .. (Capacity - 1),
         NEW u \in Int, NEW s \in 0 .. (Capacity - 1),
         Capacity * q + r = Capacity * u + s
  PROVE  r = s
<1>1. Capacity * (q - u) = s - r
  BY QueueAssumption
<1>2. CASE q - u <= -1
  BY <1>1, <1>2, QueueAssumption
<1>3. CASE q - u >= 1
  BY <1>1, <1>3, QueueAssumption
<1>4. CASE q - u = 0
  BY <1>1, <1>4, QueueAssumption
<1> QED BY <1>2, <1>3, <1>4

(* Less than a turn apart, below zero as well, two indices have two slots. *)
LEMMA SlotsApart ==
  ASSUME NEW i \in Int, NEW k \in Int, i < k, k - i < Capacity
  PROVE  Slot(i) # Slot(k)
<1>1. PICK q \in Int : i = Capacity * q + Slot(i)
  BY Remainder
<1>2. PICK u \in Int : k = Capacity * u + Slot(k)
  BY Remainder
<1>3. SUFFICES ASSUME Slot(i) = Slot(k) PROVE FALSE
  OBVIOUS
<1>4. k - i = Capacity * (u - q)
  BY <1>1, <1>2, <1>3, Remainder, QueueAssumption
<1>5. CASE u - q <= 0
  BY <1>4, <1>5, QueueAssumption
<1>6. CASE u - q >= 1
  BY <1>4, <1>6, QueueAssumption
<1> QED BY <1>5, <1>6

(* An index that wraps keeps its slot. *)
LEMMA SlotWraps ==
  ASSUME NEW i \in Int
  PROVE  Slot(i + IndexModulus) = Slot(i)
<1>0. /\ Capacity \in Nat \ {0} /\ IndexModulus \in Int /\ i + IndexModulus \in Int
      /\ IndexModulus % Capacity = 0
  BY QueueAssumption, WorkerQueueAssumption
<1>1. PICK q \in Int : i = Capacity * q + Slot(i)
  BY Remainder
<1>2. PICK u \in Int : i + IndexModulus = Capacity * u + Slot(i + IndexModulus)
  BY <1>0, Remainder
<1>3. PICK n \in Int : IndexModulus = Capacity * n + Slot(IndexModulus)
  BY <1>0, Remainder
<1>4. IndexModulus = Capacity * n
  BY <1>0, <1>3 DEF Slot
<1>5. /\ Slot(i) \in 0 .. (Capacity - 1)
      /\ Slot(i + IndexModulus) \in 0 .. (Capacity - 1)
  BY <1>0, Remainder
<1>6. Capacity * (q + n) = Capacity * q + Capacity * n
  BY <1>0
<1>7. Capacity * (q + n) + Slot(i) = Capacity * u + Slot(i + IndexModulus)
  <2> HIDE DEF Slot
  <2>1. Capacity * q \in Int /\ Capacity * n \in Int /\ Capacity * u \in Int
    BY <1>0
  <2> QED BY <2>1, <1>0, <1>1, <1>2, <1>4, <1>5, <1>6
<1>8. q + n \in Int
  OBVIOUS
<1> QED BY <1>5, <1>7, <1>8, RemainderIsUnique

LEMMA StackedWraps ==
  ASSUME stack \in Seq(Jobs), NEW b \in Int
  PROVE  Stacked(b + IndexModulus) <=> Stacked(b)
<1>1. \A k \in 0 .. (Len(stack) - 1) : Slot((b + IndexModulus) - 1 - k) = Slot(b - 1 - k)
  <2> SUFFICES ASSUME NEW k \in 0 .. (Len(stack) - 1)
               PROVE  Slot((b + IndexModulus) - 1 - k) = Slot(b - 1 - k)
    OBVIOUS
  <2>1. b - 1 - k \in Int /\ (b + IndexModulus) - 1 - k = (b - 1 - k) + IndexModulus
    BY QueueAssumption
  <2> QED BY <2>1, SlotWraps
<1>2. ASSUME Stacked(b + IndexModulus) PROVE Stacked(b)
  <2> SUFFICES ASSUME NEW k \in 0 .. (Len(stack) - 1)
               PROVE  slots[Slot(b - 1 - k)] = stack[Len(stack) - k]
    BY DEF Stacked
  <2>1. slots[Slot((b + IndexModulus) - 1 - k)] = stack[Len(stack) - k]
    BY <1>2, Zenon DEF Stacked
  <2> QED BY <2>1, <1>1, Zenon
<1>3. ASSUME Stacked(b) PROVE Stacked(b + IndexModulus)
  <2> SUFFICES ASSUME NEW k \in 0 .. (Len(stack) - 1)
               PROVE  slots[Slot((b + IndexModulus) - 1 - k)] = stack[Len(stack) - k]
    BY DEF Stacked
  <2>1. slots[Slot(b - 1 - k)] = stack[Len(stack) - k]
    BY <1>3, Zenon DEF Stacked
  <2> QED BY <2>1, <1>1, Zenon
<1> QED BY <1>2, <1>3

(* The number of jobs made is a number, and only grows. *)
LEMMA KnownCounts ==
  /\ IsFiniteSet(Known) /\ Cardinality(Known) \in Nat
  /\ Cardinality(Known) <= Cardinality(Jobs) /\ Cardinality(Jobs) \in Nat
  /\ Cardinality(Jobs) <= Capacity
<1>1. Known \subseteq Jobs /\ IsFiniteSet(Jobs) /\ Cardinality(Jobs) <= Capacity
  BY WorkerQueueAssumption DEF Known
<1> QED BY <1>1, FS_Subset, FS_CardinalityType

LEMMA KnownGrows ==
  ASSUME Known \subseteq Known'
  PROVE  Cardinality(Known') \in Nat /\ Cardinality(Known) <= Cardinality(Known')
<1>1. Known' \subseteq Jobs /\ IsFiniteSet(Jobs)
  BY WorkerQueueAssumption DEF Known
<1>2. IsFiniteSet(Known')
  BY <1>1, FS_Subset
<1> QED BY <1>2, FS_Subset, FS_CardinalityType

(* Every step is a step of the queue, or changes nothing of it. *)
LEMMA GroupStepMoves == [GroupNext]_allVars => [Next]_vars
BY DEF GroupNext, allVars, jobVars, vars, EnterFunction, GroupRun, GroupRunPushed, WaitForAll,
       WaitReturns, PopStep, FindNothingElsewhere, StealStep, RunJob, CheckReady, Start, Finish,
       GroupDecrement, GroupClamp, Next, OwnerStep, Threads

--------------------------------------------------------------------------------
(* One lemma per action. *)

LEMMA RunStep ==
  ASSUME NestedInv, NEW j \in Jobs, GroupRun(j), TypeOK'
  PROVE  NestedInv'
<1> USE DEF NestedInv, GroupRun, PushSlot, Call, Goto
<1>1. /\ Known' = Known \cup {j} /\ j \notin Known
      /\ stack \in Seq(Jobs) /\ job_count \in Nat
      /\ Cardinality(Known) \in Nat
      /\ Cardinality(Known') = Cardinality(Known) + 1 /\ Cardinality(Known') \in Nat
      /\ Cardinality(Known') <= Cardinality(Jobs) /\ Cardinality(Jobs) <= Capacity
      /\ Cardinality(Jobs) \in Nat
  <2>1. Known' = Known \cup {j} /\ j \notin Known
    BY DEF Known, GroupTypeOK
  <2>2. Known' \subseteq Jobs /\ IsFiniteSet(Jobs)
    BY WorkerQueueAssumption DEF Known
  <2>3. IsFiniteSet(Known') /\ Cardinality(Known') <= Cardinality(Jobs)
    BY <2>2, FS_Subset
  <2> QED
    BY <2>1, <2>3, KnownCounts, FS_AddElement, FS_CardinalityType DEF GroupTypeOK
<1>2. /\ pc[Owner] = "idle" /\ pc'[Owner] = "push_bottom"
      /\ bottom' = bottom /\ top' = top /\ t' = t
      /\ slots' = [slots EXCEPT ![Slot(bottom)] = j] /\ stack' = Append(stack, j)
      /\ \A p \in Thieves : pc'[p] = pc[p]
  BY TypeFacts
<1>3. Len(stack) < Capacity /\ Len(stack) \in Nat
  BY <1>1, Constants DEF Fits
<1>4. GroupTypeOK'
  BY <1>1, WorkerQueueAssumption DEF GroupTypeOK
<1>5. NearZero'
  <2>1. bottom < MaxIndex \/ BelowZero(bottom)
    BY TypeFacts, Constants DEF InBounds, BelowZero, NearZero
  <2> QED BY <1>2, <2>1 DEF NearZero, BelowZero
<1>6. Kept'
  <2> SUFFICES ASSUME BelowZero(bottom) PROVE Stacked(bottom + 1)'
    BY <1>2 DEF Kept, BelowZero
  <2>1. Stacked(bottom)
    BY <1>2 DEF Kept
  <2> SUFFICES ASSUME NEW k \in 0 .. (Len(stack') - 1)
               PROVE  slots'[Slot((bottom + 1) - 1 - k)] = stack'[Len(stack') - k]
    BY <1>2 DEF Stacked
  <2>2. /\ Len(stack') = Len(stack) + 1
        /\ stack'[Len(stack) + 1] = j
        /\ \A i \in 1 .. Len(stack) : stack'[i] = stack[i]
    BY <1>1, <1>2
  <2>3. bottom \in Int /\ Slot(bottom) \in DOMAIN slots
    <3>1. bottom \in Int
      BY TypeFacts
    <3>2. Slot(bottom) \in 0 .. (Capacity - 1)
      BY <3>1, Remainder
    <3> QED BY <3>1, <3>2, TypeFacts
  <2>4. CASE k = 0
    BY <1>2, <2>2, <2>3, <2>4, <1>3
  <2>5. CASE k > 0
    <3> DEFINE i == k - 1
    <3>1. i \in 0 .. (Len(stack) - 1) /\ bottom - 1 - i = bottom - k
          /\ Len(stack) - i = Len(stack') - k
      BY <2>2, <2>3, <2>5, <1>3
    <3>2. slots[Slot(bottom - k)] = stack[Len(stack') - k]
      BY <2>1, <3>1 DEF Stacked
    <3>3. Slot(bottom - k) # Slot(bottom)
      <4>1. bottom - k \in Int /\ bottom - k < bottom /\ bottom - (bottom - k) < Capacity
        BY <2>2, <2>3, <2>5, <1>3, Constants
      <4> QED BY <4>1, <2>3, SlotsApart
    <3>4. Slot(bottom - k) \in DOMAIN slots
      <4>1. bottom - k \in Int
        BY <2>3
      <4> QED BY <4>1, Remainder, TypeFacts
    <3>5. slots'[Slot(bottom - k)] = slots[Slot(bottom - k)]
      BY <1>2, <3>3, <3>4
    <3>6. Len(stack') - k \in 1 .. Len(stack)
      BY <2>2, <2>5, <1>3
    <3>7. (bottom + 1) - 1 - k = bottom - k
      BY <2>3
    <3> QED BY <3>2, <3>5, <3>6, <3>7, <2>2
  <2> QED BY <2>4, <2>5
<1>7. Fits'
  BY <1>1, <1>3 DEF Fits
<1> QED BY <1>4, <1>5, <1>6, <1>7

LEMMA RunPushedStep ==
  ASSUME NestedInv, GroupRunPushed, TypeOK'
  PROVE  NestedInv'
<1> USE DEF NestedInv, GroupRunPushed, PushBottom, Return, Goto, jobVars
<1>1. /\ pc[Owner] = "push_bottom" /\ pc'[Owner] = "idle" /\ bottom' = Up(bottom)
      /\ top' = top /\ slots' = slots /\ stack' = stack
      /\ \A p \in Thieves : pc'[p] = pc[p] /\ t'[p] = t[p]
  BY TypeFacts
<1>2. GroupTypeOK' /\ Fits'
  BY DEF GroupTypeOK, Fits, Known
<1>3. \/ bottom < MaxIndex /\ bottom' = bottom + 1
      \/ BelowZero(bottom) /\ bottom = IndexModulus - 1 /\ bottom' = 0
      \/ BelowZero(bottom) /\ bottom' = bottom + 1
  BY <1>1, TypeFacts DEF NearZero, Up
<1>4. NearZero'
  BY <1>1, <1>3, TypeFacts, Constants DEF NearZero, BelowZero
<1>5. Kept'
  <2> SUFFICES ASSUME BelowZero(bottom') \/ bottom' = 0 PROVE Stacked(bottom)'
    BY <1>1 DEF Kept, BelowZero
  <2>1. BelowZero(bottom)
    BY <1>3, TypeFacts, Constants DEF BelowZero
  <2>2. Stacked(bottom + 1)
    BY <1>1, <2>1 DEF Kept
  <2>3. Stacked(bottom')
    <3>1. CASE bottom' = bottom + 1
      BY <2>2, <3>1
    <3>2. CASE bottom = IndexModulus - 1 /\ bottom' = 0
      <4>1. bottom + 1 = 0 + IndexModulus /\ stack \in Seq(Jobs) /\ 0 \in Int
        BY <3>2, TypeFacts DEF GroupTypeOK
      <4> QED BY <4>1, <2>2, <3>2, StackedWraps
    <3> QED BY <1>3, <2>1, <3>1, <3>2, TypeFacts, Constants DEF BelowZero
  <2> QED BY <1>1, <2>3 DEF Stacked
<1> QED BY <1>2, <1>4, <1>5

LEMMA StealQuiet ==
  ASSUME NestedInv, NEW p \in Thieves, StealStep(p), TypeOK'
  PROVE  NestedInv'
<1> USE DEF NestedInv, Goto
<1>1. /\ pc'[Owner] = pc[Owner] /\ t'[Owner] = t[Owner]
      /\ bottom' = bottom /\ slots' = slots /\ stack' = stack
      /\ UNCHANGED <<state, function, job_count>>
      /\ \A q \in Thieves \ {p} : pc'[q] = pc[q] /\ t'[q] = t[q]
  BY TypeFacts DEF StealStep, ThiefStep, StealTop, StealBottom, StealSlot, StealCas, Call, Return
<1>2. GroupTypeOK' /\ Fits'
  <2>1. stage' \in [Threads -> {"look", "elsewhere", "check", "start", "running", "finished", "clamp"}]
        /\ misled' \in BOOLEAN
    BY DEF StealStep, Returned, Failed, GroupTypeOK, BelowZero
  <2> QED BY <1>1, <2>1 DEF GroupTypeOK, Fits, Known
<1>3. top' <= MaxIndex /\ (pc'[p] # "idle" => t'[p] < MaxIndex)
  <2>1. CASE StealTop(p)
    BY <2>1, TypeFacts, WorkerQueueAssumption DEF StealTop, Call, TopInBounds, NearZero
  <2>2. CASE StealBottom(p)
    BY <2>2, TypeFacts DEF StealBottom, Return, NearZero
  <2>3. CASE StealSlot(p)
    BY <2>3, TypeFacts DEF StealSlot, NearZero
  <2>4. CASE StealCas(p)
    <3>1. t[p] < MaxIndex /\ top \in Index /\ top <= MaxIndex
      BY <2>4, TypeFacts DEF StealCas, NearZero
    <3>2. pc'[p] = "idle" /\ (top' = top \/ (top' = Up(top) /\ top = t[p]))
      BY <2>4, TypeFacts DEF StealCas, Return
    <3> QED BY <3>1, <3>2, NoWrap, TypeFacts
  <2> QED BY <2>1, <2>2, <2>3, <2>4 DEF StealStep, ThiefStep
<1>4. NearZero'
  BY <1>1, <1>3 DEF NearZero, BelowZero
<1>5. Kept'
  BY <1>1 DEF Kept, Stacked, BelowZero
<1> QED BY <1>2, <1>4, <1>5

(* Steps that leave queue and stack alone. *)
LEMMA QuietStep ==
  ASSUME NestedInv, UNCHANGED <<vars, stack>>, Known \subseteq Known',
         GroupTypeOK'
  PROVE  NestedInv'
<1> USE DEF NestedInv, vars
<1>1. TypeOK' /\ NearZero' /\ Kept'
  BY DEF TypeOK, NearZero, Kept, Stacked, BelowZero
<1>2. Fits'
  BY KnownGrows, KnownCounts DEF Fits, GroupTypeOK
<1> QED BY <1>1, <1>2

(* A pop takes the newest entry of the stack, or none. *)
LEMMA PopQuiet ==
  ASSUME NestedInv, PopStep, TypeOK'
  PROVE  NestedInv'
<1> USE DEF NestedInv, Goto
<1>1. /\ slots' = slots
      /\ UNCHANGED <<state, function, job_count>>
      /\ \A p \in Thieves : pc'[p] = pc[p] /\ t'[p] = t[p]
      /\ stack \in Seq(Jobs)
  BY TypeFacts DEF PopStep, PopDecrement, PopTaken, PopWon, PopLast, PopLost, PopEmpty, PopBottom,
                   Call, Return, GroupTypeOK
<1>2. stack' = stack \/ stack' = Popped
  BY DEF PopStep
<1>3. stack' \in Seq(Jobs) /\ Len(stack') <= Len(stack)
  BY <1>1, <1>2 DEF Popped
<1>4. GroupTypeOK' /\ Fits'
  <2>1. stage' \in [Threads -> {"look", "elsewhere", "check", "start", "running", "finished", "clamp"}]
        /\ misled' \in BOOLEAN
    BY DEF PopStep, Returned, Failed, GroupTypeOK, Exposes
  <2>2. Cardinality(Known) \in Nat /\ Len(stack) \in Nat /\ Len(stack') \in Nat
    BY <1>1, <1>3, KnownCounts
  <2> QED BY <1>1, <1>3, <2>1, <2>2 DEF GroupTypeOK, Fits, Known
<1>5. CASE PopDecrement /\ stack' = stack
  <2>1. /\ pc[Owner] = "idle" /\ pc'[Owner] = "pop_top" /\ bottom' = Down(bottom) /\ top' = top
    BY <1>5, TypeFacts DEF PopDecrement, Call
  <2>2. \/ bottom = 0 /\ bottom' = IndexModulus - 1
        \/ bottom > 0 /\ bottom < MaxIndex /\ bottom' = bottom - 1
        \/ BelowZero(bottom) /\ BelowZero(bottom') /\ bottom' = bottom - 1
    BY <1>5, <2>1, TypeFacts, Constants DEF PopDecrement, InBounds, Down, BelowZero
  <2>3. NearZero'
    BY <1>1, <2>1, <2>2, TypeFacts, Constants DEF NearZero, BelowZero
  <2>4. Kept'
    <3> SUFFICES ASSUME BelowZero(bottom') PROVE Stacked(bottom' + 1)
      BY <1>1, <1>5, <2>1 DEF Kept, BelowZero, Stacked
    <3>1. CASE bottom = 0 /\ bottom' = IndexModulus - 1
      <4>1. Stacked(0) /\ bottom' + 1 = 0 + IndexModulus
        BY <2>1, <3>1, TypeFacts DEF Kept
      <4> QED BY <4>1, <1>1, StackedWraps
    <3>2. CASE BelowZero(bottom) /\ bottom' = bottom - 1
      <4>1. Stacked(bottom) /\ bottom' + 1 = bottom
        BY <2>1, <3>2, TypeFacts DEF Kept
      <4> QED BY <4>1
    <3> QED BY <2>2, <3>1, <3>2, TypeFacts, Constants DEF BelowZero
  <2> QED BY <1>4, <2>3, <2>4
<1>6. CASE PopTaken /\ stack' = Popped
  <2>1. /\ pc[Owner] = "pop_top" /\ pc'[Owner] = "idle" /\ top < bottom
        /\ bottom' = bottom /\ top' = top
    BY <1>6, TypeFacts DEF PopTaken, Return
  <2>2. NearZero'
    BY <1>1, <2>1, TypeFacts, Constants DEF NearZero, BelowZero
  <2>3. Kept'
    <3> SUFFICES ASSUME BelowZero(bottom),
                        NEW k \in 0 .. (Len(Popped) - 1)
                 PROVE  slots[Slot(bottom - 1 - k)] = Popped[Len(Popped) - k]
      BY <1>1, <1>6, <2>1, TypeFacts DEF Kept, BelowZero, Stacked
    <3>1. Stacked(bottom + 1)
      BY <2>1 DEF Kept
    <3>2. /\ stack # <<>> /\ Len(stack) \in Nat /\ Len(stack) >= 1
          /\ Popped = SubSeq(stack, 1, Len(stack) - 1)
      BY <1>1 DEF Popped
    <3>3. /\ Len(Popped) = Len(stack) - 1
          /\ \A i \in 1 .. (Len(stack) - 1) : Popped[i] = stack[i]
      BY <1>1, <3>2
    <3>4. /\ k + 1 \in 0 .. (Len(stack) - 1) /\ (bottom + 1) - 1 - (k + 1) = bottom - 1 - k
          /\ Len(stack) - (k + 1) = Len(Popped) - k
          /\ Len(Popped) - k \in 1 .. (Len(stack) - 1)
      BY <3>2, <3>3, TypeFacts
    <3>5. slots[Slot((bottom + 1) - 1 - (k + 1))] = stack[Len(stack) - (k + 1)]
      BY <3>1, <3>4 DEF Stacked
    <3> QED BY <3>3, <3>4, <3>5
  <2> QED BY <1>4, <2>2, <2>3
<1>7. CASE PopLast
  <2>1. /\ pc[Owner] = "pop_top" /\ pc'[Owner] = "pop_cas" /\ top = bottom /\ t'[Owner] = top
        /\ bottom' = bottom /\ top' = top
    BY <1>7, TypeFacts DEF PopLast
  <2> QED BY <1>1, <1>4, <2>1, TypeFacts, Constants DEF NearZero, Kept, BelowZero
<1>8. CASE PopEmpty
  <2>1. /\ pc'[Owner] = "pop_bottom" /\ t'[Owner] = top /\ top' = top
    BY <1>8, TypeFacts DEF PopEmpty
  <2> QED BY <1>1, <1>4, <2>1, TypeFacts DEF NearZero, Kept, BelowZero
<1>9. CASE PopWon
  <2>1. /\ pc[Owner] = "pop_cas" /\ pc'[Owner] = "pop_bottom" /\ top = t[Owner]
        /\ top' = Up(top) /\ t'[Owner] = t[Owner]
    BY <1>9, TypeFacts DEF PopWon
  <2>2. top' = top + 1 /\ top < MaxIndex
    BY <2>1, NoWrap, TypeFacts DEF NearZero
  <2> QED BY <1>1, <1>4, <2>1, <2>2, TypeFacts DEF NearZero, Kept, BelowZero
<1>10. CASE PopLost
  <2>1. /\ pc'[Owner] = "pop_bottom" /\ t'[Owner] = top /\ top' = top
    BY <1>10, TypeFacts DEF PopLost
  <2> QED BY <1>1, <1>4, <2>1, TypeFacts DEF NearZero, Kept, BelowZero
<1>11. CASE PopBottom
  <2>1. /\ pc[Owner] = "pop_bottom" /\ pc'[Owner] = "idle" /\ bottom' = Up(t[Owner])
        /\ top' = top
    BY <1>11, TypeFacts DEF PopBottom, Return
  <2>2. bottom' = t[Owner] + 1 /\ t[Owner] \in Nat /\ t[Owner] <= MaxIndex
    BY <2>1, TypeFacts, Constants DEF NearZero, Up
  <2> QED BY <1>1, <1>4, <2>1, <2>2, TypeFacts, Constants DEF NearZero, Kept, BelowZero
<1> QED BY <1>5, <1>6, <1>7, <1>8, <1>9, <1>10, <1>11 DEF PopStep

(* What the job function does apart from push and pop. *)
LEMMA FunctionQuiet ==
  ASSUME NestedInv, EnterFunction \/ WaitForAll \/ WaitReturns \/ FindNothingElsewhere
  PROVE  NestedInv'
<1>1. UNCHANGED <<vars, stack>> /\ state' = state /\ job_count' = job_count
  BY DEF EnterFunction, WaitForAll, WaitReturns, FindNothingElsewhere
<1>2. GroupTypeOK'
  BY DEF NestedInv, GroupTypeOK, EnterFunction, WaitForAll, WaitReturns, FindNothingElsewhere
<1> QED BY <1>1, <1>2, QuietStep DEF Known

LEMMA RunJobQuiet ==
  ASSUME NestedInv, NEW p \in Threads, RunJob(p)
  PROVE  NestedInv'
<1>1. UNCHANGED <<vars, stack>>
  BY DEF RunJob, CheckReady, Start, Finish, GroupDecrement, GroupClamp
<1>2. Known \subseteq Known'
  BY DEF RunJob, CheckReady, Start, Finish, GroupDecrement, GroupClamp, Known, NestedInv, GroupTypeOK
<1>3. job_count' \in 0 .. (CounterModulus - 1)
  BY WorkerQueueAssumption
     DEF RunJob, CheckReady, Start, Finish, GroupDecrement, GroupClamp, NestedInv, GroupTypeOK
<1>4. GroupTypeOK'
  BY <1>3 DEF RunJob, CheckReady, Start, Finish, GroupDecrement, GroupClamp, Failed, NestedInv,
              GroupTypeOK
<1> QED BY <1>1, <1>2, <1>4, QuietStep

LEMMA NestedInit == GroupInit => NestedInv
<1> SUFFICES ASSUME GroupInit PROVE NestedInv
  OBVIOUS
<1>1. TypeOK
  BY QueueAssumption DEF GroupInit, Init, TypeOK, Index, Contents, Labels
<1>2. stack = <<>> /\ Len(stack) = 0 /\ job_count = 0
  BY DEF GroupInit
<1>3. GroupTypeOK
  <2>1. job_count \in 0 .. (CounterModulus - 1) /\ stack \in Seq(Jobs)
    BY <1>2, WorkerQueueAssumption, KnownCounts
  <2> QED BY <2>1 DEF GroupInit, GroupTypeOK
<1>4. Fits
  BY <1>2, KnownCounts DEF Fits
<1>5. top = 0 /\ bottom = 0 /\ \A p \in Threads : pc[p] = "idle"
  BY DEF GroupInit, Init
<1>6. NearZero
  BY <1>5, TypeFacts, <1>1 DEF NearZero
<1>7. Kept
  BY <1>2, <1>5, TypeFacts, <1>1 DEF Kept, Stacked
<1> QED BY <1>1, <1>3, <1>4, <1>6, <1>7 DEF NestedInv

LEMMA NestedStep == NestedInv /\ [GroupNext]_allVars => NestedInv'
<1> SUFFICES ASSUME NestedInv, [GroupNext]_allVars PROVE NestedInv'
  OBVIOUS
<1>1. TypeOK'
  BY GroupStepMoves, TypeStep DEF NestedInv
<1>2. CASE UNCHANGED allVars
  BY <1>2 DEF NestedInv, allVars, jobVars, vars, TypeOK, GroupTypeOK, NearZero, Kept, Fits, Known,
              Stacked, BelowZero
<1>3. CASE GroupNext
  BY <1>1, <1>3, RunStep, RunPushedStep, PopQuiet, StealQuiet, FunctionQuiet, RunJobQuiet
     DEF GroupNext
<1> QED BY <1>2, <1>3

(* A worker's queue, its job function and its group, together. *)
THEOREM NestedInvariant == GroupSpec => []NestedInv
BY NestedInit, NestedStep, PTL DEF GroupSpec

(* Every variable of try_run_job, JobGroup and the queue keeps its type.   *)
THEOREM GroupTypeCorrect == GroupSpec => []GroupTypeOK
<1>1. NestedInv => GroupTypeOK
  BY DEF NestedInv
<1> QED BY <1>1, NestedInvariant, PTL

(* A worker that has popped its empty queue any number of times, and pushes *)
(* jobs while bottom_ is below zero, has them right under bottom_ as long as *)
(* it stays there: no steal and no pop removes or overwrites them.          *)
THEOREM NestedJobsAreKept == GroupSpec => []NestedJobsKept
<1>1. NestedInv => NestedJobsKept
  BY DEF NestedInv, Kept, Stacked, NestedJobsKept
<1> QED BY <1>1, NestedInvariant, PTL

--------------------------------------------------------------------------------
(* As long as no thread was misled: the queue, the threads that have taken *)
(* something from it and the counter of the group agree about every job.   *)

(* The jobs the group has yet to count down. *)
Due == {j \in Jobs : \/ state[j] \in {"ready", "running"}
                     \/ \E p \in Threads : stage[p] = "finished" /\ target[p] = j}

(* p has taken j from the queue and not yet started it. *)
InHand(p, j) ==
  /\ target[p] = j
  /\ stage[p] \in {"check", "start"} \/ (pc[p] = "pop_bottom" /\ result[p])

(* Where the owner's entries end, in the midst of push and pop as well. *)
End == IF pc[Owner] \in {"push_bottom", "pop_top", "pop_cas"} THEN bottom + 1 ELSE bottom

(* A job is pushed at most once: it never lies in two slots. *)
PushedOnce ==
  /\ \A i, k \in DOMAIN slots : slots[i] = slots[k] /\ slots[i] \in Jobs => i = k
  /\ \A i \in DOMAIN slots : slots[i] \in Jobs => slots[i] \in Known
  /\ \A p \in Threads : target[p] \in Jobs => target[p] \in Known

InStep ==
  /\ \A p \in Threads : stage[p] # "look" => pc[p] = "idle"
  /\ pc[Owner] = "push_bottom" => function = "runs_jobs"
  /\ function = "runs_jobs" => stage[Owner] = "look" /\ pc[Owner] \in {"idle", "push_bottom"}

(* A job is run by the thread that started it and by no other. *)
RunOnce ==
  \A p \in Threads :
    /\ stage[p] = "start" => target[p] \in Jobs /\ state[target[p]] = "ready"
    /\ stage[p] = "running" => target[p] \in Jobs /\ state[target[p]] = "running"
    /\ stage[p] = "finished" => target[p] \in Jobs /\ state[target[p]] = "completed"
    /\ stage[p] # "clamp"
    /\ \A q \in Threads \ {p} :
         stage[p] = stage[q] /\ stage[p] \in {"running", "finished"} => target[p] # target[q]

HeldOnce ==
  \A p \in Threads : \A q \in Threads \ {p} : \A j \in Jobs :
    InHand(p, j) /\ InHand(q, j) => state[j] # "ready"

Exact ==
  /\ job_count = Cardinality(Due)
  /\ function = "none" => Due = {}

(* Jobs that wait lie in some slot; those of a function that still pushes  *)
(* lie less than a turn of the ring behind its last push.                  *)
InReach ==
  /\ \A j \in Jobs : state[j] = "ready" => \E i \in DOMAIN slots : slots[i] = j
  /\ function = "runs_jobs" =>
       \E n \in 0 .. Cardinality(Known) : \A j \in Jobs :
         state[j] = "ready" => \E k \in 1 .. n : slots[Slot(End - k)] = j

(* bottom_ has not come up above zero: the owner is alone with its queue. *)
Low ==
  /\ top = 0
  /\ BelowZero(bottom) \/ (bottom = 0 /\ pc[Owner] = "idle")
  /\ pc[Owner] \in {"idle", "push_bottom", "pop_top"}
  /\ \A p \in Thieves :
       /\ stage[p] = "look" /\ ~result[p]
       /\ pc[p] \in {"idle", "steal_bottom"} /\ t[p] = 0

(* No entry of the queue is a job that a thread already has. *)
Exclusive ==
  \A i \in top .. (End - 1) : \A p \in Threads : \A j \in Jobs :
    slots[Slot(i)] = j /\ InHand(p, j) => state[j] # "ready"

(* bottom_ has come up, for good: the queue is as with an owner that keeps *)
(* the contract.                                                           *)
High ==
  /\ OwnerInv /\ ThiefInv /\ StealClaimsCurrentEntry
  /\ pc[Owner] = "idle" => bottom > 0
  /\ Cardinality(Known) > 0 /\ End - top <= Cardinality(Known)
  /\ Exclusive

Books == PushedOnce /\ InStep /\ RunOnce /\ HeldOnce /\ Exact /\ InReach

Tidy == Books /\ (Low \/ High)

TidyInv == NestedInv /\ (misled \/ Tidy)

LEMMA Kinds ==
  ASSUME NestedInv
  PROVE  /\ state \in [Jobs -> {"unknown", "ready", "running", "completed"}]
         /\ stage \in [Threads -> {"look", "elsewhere", "check", "start", "running", "finished", "clamp"}]
         /\ function \in {"none", "runs_jobs", "waits"} /\ misled \in BOOLEAN
         /\ job_count \in Nat
         /\ DOMAIN slots = 0 .. (Capacity - 1)
         /\ \A i \in Nat : Slot(i) \in DOMAIN slots
         /\ Null \notin Jobs
<1>1. DOMAIN slots = 0 .. (Capacity - 1)
  BY TypeFacts DEF NestedInv
<1>2. \A i \in Nat : Slot(i) \in DOMAIN slots
  BY <1>1, SlotType
<1>3. job_count \in Nat
  BY KnownCounts DEF NestedInv, GroupTypeOK
<1> QED BY <1>1, <1>2, <1>3, QueueAssumption DEF NestedInv, GroupTypeOK

LEMMA DueCounts ==
  /\ Due \subseteq Jobs /\ IsFiniteSet(Due) /\ Cardinality(Due) \in Nat
<1>1. Due \subseteq Jobs /\ IsFiniteSet(Jobs)
  BY WorkerQueueAssumption DEF Due
<1> QED BY <1>1, FS_Subset, FS_CardinalityType

(* Two entries of the queue are two jobs. *)
LEMMA EntriesDiffer ==
  ASSUME NestedInv, PushedOnce, End - top <= Cardinality(Known),
         NEW i \in top .. (End - 1), NEW k \in top .. (End - 1), i < k,
         slots[Slot(i)] \in Jobs
  PROVE  slots[Slot(i)] # slots[Slot(k)]
<1>1. top \in Nat /\ bottom \in Nat /\ End \in Nat /\ Capacity \in Nat
  BY TypeFacts DEF NestedInv, End
<1>2. i \in Nat /\ k \in Nat /\ k - i < Capacity
  <2>1. Cardinality(Known) \in Nat /\ Cardinality(Known) <= Capacity
    BY <1>1, KnownCounts
  <2> QED BY <1>1, <2>1
<1>3. Slot(i) # Slot(k)
  BY <1>2, SlotsDistinct
<1> QED BY <1>2, <1>3, Kinds DEF PushedOnce

(* What a step of pop or steal leaves alone. *)
LEMMA Moved ==
  ASSUME NestedInv, NEW p \in Threads,
         (p = Owner /\ PopStep) \/ (p \in Thieves /\ StealStep(p))
  PROVE  /\ UNCHANGED <<slots, state, function, job_count>>
         /\ stage[p] = "look" /\ stage'[p] \in {"look", "elsewhere", "check"}
         /\ stage'[p] # "look" => pc'[p] = "idle"
         /\ stage'[p] = "check" => result'[p]
         /\ target'[p] \in {target[p], Null} \cup {slots[i] : i \in DOMAIN slots}
         /\ \A q \in Threads \ {p} :
              /\ stage'[q] = stage[q] /\ pc'[q] = pc[q] /\ t'[q] = t[q]
              /\ target'[q] = target[q] /\ result'[q] = result[q]
         /\ p = Owner => function # "runs_jobs" /\ pc[Owner] # "push_bottom"
                          /\ pc'[Owner] # "push_bottom"
         /\ p \in Thieves => bottom' = bottom /\ pc'[p] # "pop_bottom"
         /\ misled => misled'
<1>1. /\ bottom \in Nat /\ t \in [Threads -> Nat] /\ Owner \in Threads /\ Owner \notin Thieves
      /\ pc \in [Threads -> Labels]
      /\ target \in [Threads -> Contents] /\ result \in [Threads -> BOOLEAN]
      /\ stage \in [Threads -> {"look", "elsewhere", "check", "start", "running", "finished", "clamp"}]
      /\ \A i \in Nat : Slot(i) \in DOMAIN slots
  BY TypeFacts, Kinds DEF NestedInv
<1> USE DEF Goto, Call, Return
<1>2. CASE p = Owner /\ PopStep
  <2>1. /\ stage[p] = "look" /\ function # "runs_jobs" /\ Returned(p)
        /\ UNCHANGED <<state, function, job_count>> /\ (misled => misled')
    BY <1>2 DEF PopStep
  <2>2. CASE PopDecrement
    BY <1>1, <1>2, <2>1, <2>2 DEF PopDecrement, Returned, Failed
  <2>3. CASE PopTaken
    BY <1>1, <1>2, <2>1, <2>3 DEF PopTaken, Returned, Failed
  <2>4. CASE PopLast
    <3>1. pc' = [pc EXCEPT ![p] = "pop_cas"] /\ stage' = [stage EXCEPT ![p] = "look"]
      BY <1>1, <1>2, <2>1, <2>4 DEF PopLast, Returned
    <3> QED BY <1>1, <1>2, <2>1, <2>4, <3>1 DEF PopLast
  <2>5. CASE PopEmpty
    <3>1. pc' = [pc EXCEPT ![p] = "pop_bottom"] /\ stage' = [stage EXCEPT ![p] = "look"]
      BY <1>1, <1>2, <2>1, <2>5 DEF PopEmpty, Returned
    <3> QED BY <1>1, <1>2, <2>1, <2>5, <3>1 DEF PopEmpty
  <2>6. CASE PopWon
    <3>1. pc' = [pc EXCEPT ![p] = "pop_bottom"] /\ stage' = [stage EXCEPT ![p] = "look"]
      BY <1>1, <1>2, <2>1, <2>6 DEF PopWon, Returned
    <3> QED BY <1>1, <1>2, <2>1, <2>6, <3>1 DEF PopWon
  <2>7. CASE PopLost
    <3>1. pc' = [pc EXCEPT ![p] = "pop_bottom"] /\ stage' = [stage EXCEPT ![p] = "look"]
      BY <1>1, <1>2, <2>1, <2>7 DEF PopLost, Returned
    <3> QED BY <1>1, <1>2, <2>1, <2>7, <3>1 DEF PopLost
  <2>8. CASE PopBottom
    BY <1>1, <1>2, <2>1, <2>8 DEF PopBottom, Returned, Failed
  <2> QED BY <1>2, <2>2, <2>3, <2>4, <2>5, <2>6, <2>7, <2>8 DEF PopStep
<1>3. CASE p \in Thieves /\ StealStep(p)
  <2>1. /\ stage[p] = "look" /\ Returned(p) /\ p # Owner
        /\ UNCHANGED <<state, function, job_count>> /\ (misled => misled')
    BY <1>1, <1>3 DEF StealStep
  <2>2. CASE StealTop(p)
    BY <1>1, <1>3, <2>1, <2>2 DEF StealTop, Returned, Failed
  <2>3. CASE StealBottom(p)
    <3>1. CASE pc' = [pc EXCEPT ![p] = "steal_slot"] /\ UNCHANGED t
      <4>1. stage' = [stage EXCEPT ![p] = "look"]
        BY <1>1, <2>1, <3>1 DEF Returned
      <4> QED BY <1>1, <1>3, <2>1, <2>3, <3>1, <4>1 DEF StealBottom
    <3>2. CASE Return(p)
      BY <1>1, <1>3, <2>1, <2>3, <3>2 DEF StealBottom, Returned, Failed
    <3> QED BY <2>3, <3>1, <3>2 DEF StealBottom
  <2>4. CASE StealSlot(p)
    <3>1. pc' = [pc EXCEPT ![p] = "steal_cas"] /\ stage' = [stage EXCEPT ![p] = "look"]
      BY <1>1, <1>3, <2>1, <2>4 DEF StealSlot, Returned
    <3> QED BY <1>1, <1>3, <2>1, <2>4, <3>1 DEF StealSlot
  <2>5. CASE StealCas(p)
    BY <1>1, <1>3, <2>1, <2>5 DEF StealCas, Returned, Failed
  <2> QED BY <1>3, <2>2, <2>3, <2>4, <2>5 DEF StealStep, ThiefStep
<1> QED BY <1>2, <1>3

(* pop and steal hand out what lies in the slots, at most one thing at a   *)
(* time, and count nothing.                                                *)
LEMMA MoveKeepsBooks ==
  ASSUME NestedInv, Books, NEW p \in Threads,
         (p = Owner /\ PopStep) \/ (p \in Thieves /\ StealStep(p)),
         \A q \in Threads \ {p} : \A j \in Jobs :
           InHand(p, j)' /\ InHand(q, j) => state[j] # "ready"
  PROVE  Books'
<1>1. /\ UNCHANGED <<slots, state, function, job_count>>
      /\ stage[p] = "look" /\ stage'[p] \in {"look", "elsewhere", "check"}
      /\ stage'[p] # "look" => pc'[p] = "idle"
      /\ target'[p] \in {target[p], Null} \cup {slots[i] : i \in DOMAIN slots}
      /\ \A q \in Threads \ {p} :
           /\ stage'[q] = stage[q] /\ pc'[q] = pc[q]
           /\ target'[q] = target[q] /\ result'[q] = result[q]
      /\ p = Owner => function # "runs_jobs" /\ pc'[Owner] # "push_bottom"
      /\ p \in Thieves => bottom' = bottom /\ pc'[Owner] = pc[Owner] /\ stage'[Owner] = stage[Owner]
  <2>1. p \in Thieves => Owner \in Threads \ {p}
    BY TypeFacts DEF NestedInv
  <2> QED BY <2>1, Moved
<1>2. Known' = Known
  BY <1>1 DEF Known
<1>3. PushedOnce'
  <2>1. target'[p] \in Jobs => target'[p] \in Known
    BY <1>1, Kinds DEF Books, PushedOnce
  <2> QED BY <1>1, <1>2, <2>1 DEF Books, PushedOnce
<1>4. InStep'
  BY <1>1 DEF Books, InStep, Threads
<1>5. RunOnce'
  <2>1. ASSUME NEW q \in Threads
        PROVE  /\ stage'[q] \in {"start", "running", "finished"} =>
                    q # p /\ stage'[q] = stage[q] /\ target'[q] = target[q]
    BY <1>1
  <2> QED BY <1>1, <2>1 DEF Books, RunOnce
<1>6. HeldOnce'
  <2> SUFFICES ASSUME NEW q \in Threads, NEW r \in Threads \ {q}, NEW j \in Jobs,
                      InHand(q, j)', InHand(r, j)'
               PROVE  state[j] # "ready"
    BY <1>1 DEF HeldOnce
  <2>1. /\ q # p => InHand(q, j)
        /\ r # p => InHand(r, j)
    BY <1>1 DEF InHand
  <2>2. CASE q # p /\ r # p
    BY <2>1, <2>2 DEF Books, HeldOnce
  <2>3. CASE q = p
    BY <2>1, <2>3
  <2>4. CASE r = p
    BY <2>1, <2>4
  <2> QED BY <2>2, <2>3, <2>4
<1>7. Exact'
  <2>1. Due' = Due
    BY <1>1 DEF Due
  <2> QED BY <1>1, <2>1 DEF Books, Exact
<1>8. InReach'
  <2>1. function = "runs_jobs" => End' = End
    BY <1>1 DEF End, Threads
  <2>2. CASE function = "runs_jobs"
    BY <1>1, <1>2, <2>1, <2>2 DEF Books, InReach
  <2>3. CASE function # "runs_jobs"
    BY <1>1, <2>3 DEF Books, InReach
  <2> QED BY <2>2, <2>3
<1> QED BY <1>3, <1>4, <1>5, <1>6, <1>7, <1>8 DEF Books

(* Below zero a thief finds nothing, or is misled. *)
LEMMA StealLow ==
  ASSUME NestedInv, Books, Low, NEW p \in Thieves, StealStep(p), ~misled'
  PROVE  Books' /\ Low'
<1> USE DEF Goto, Call, Return
<1>1. /\ bottom \in Nat /\ top \in Nat
      /\ pc \in [Threads -> Labels] /\ t \in [Threads -> Nat] /\ result \in [Threads -> BOOLEAN]
      /\ p \in Threads /\ p # Owner /\ Owner \in Threads
      /\ stage \in [Threads -> {"look", "elsewhere", "check", "start", "running", "finished", "clamp"}]
  BY TypeFacts, Kinds DEF NestedInv
<1>2. /\ top = 0 /\ stage[p] = "look" /\ ~result[p] /\ t[p] = 0
      /\ pc[p] \in {"idle", "steal_bottom"}
  BY DEF Low
<1>3. /\ top' = top /\ pc'[p] \in {"idle", "steal_bottom"} /\ t'[p] = 0 /\ ~result'[p]
  <2>1. CASE StealTop(p)
    BY <1>1, <1>2, <2>1 DEF StealTop
  <2>2. CASE StealBottom(p)
    <3>1. t[p] < bottom => BelowZero(bottom)
      BY <1>1, <1>2 DEF Low
    <3>2. t[p] < bottom => pc'[p] = "steal_slot"
      BY <1>1, <2>2 DEF StealBottom
    <3>3. ~(t[p] < bottom)
      BY <3>1, <3>2 DEF StealStep
    <3> QED BY <1>1, <1>2, <2>2, <3>3 DEF StealBottom
  <2>3. CASE StealSlot(p) \/ StealCas(p)
    BY <1>2, <2>3 DEF StealSlot, StealCas
  <2> QED BY <2>1, <2>2, <2>3 DEF StealStep, ThiefStep
<1>4. stage'[p] = "look" /\ bottom' = bottom /\ pc'[Owner] = pc[Owner]
      /\ \A q \in Threads \ {p} :
           /\ stage'[q] = stage[q] /\ pc'[q] = pc[q] /\ t'[q] = t[q] /\ result'[q] = result[q]
  <2>1. stage'[p] = "look"
    BY <1>1, <1>3 DEF StealStep, Returned, Failed
  <2> QED BY <1>1, <2>1, Moved
<1>5. Low'
  <2>1. \A q \in Thieves : q \in Threads
    BY DEF Threads
  <2> QED BY <1>1, <1>2, <1>3, <1>4, <2>1 DEF Low, BelowZero
<1>6. \A j \in Jobs : ~InHand(p, j)'
  BY <1>3, <1>4 DEF InHand
<1>7. Books'
  BY <1>1, <1>6, MoveKeepsBooks
<1> QED BY <1>5, <1>7

(* Below zero pop is never in vain: it has something, a job or not. *)
LEMMA PopLow ==
  ASSUME NestedInv, Books, Low, PopStep
  PROVE  Books' /\ Low'
<1> USE DEF Goto, Call, Return
<1>1. /\ bottom \in Nat /\ top \in Nat /\ bottom \in Index
      /\ pc \in [Threads -> Labels] /\ Owner \in Threads
      /\ \A p \in Thieves : p \in Threads \ {Owner}
  BY TypeFacts DEF NestedInv
<1>2. top = 0 /\ (BelowZero(bottom) => bottom > 0)
  BY <1>1, Constants DEF Low, BelowZero
<1>3. \A p \in Thieves : /\ stage'[p] = stage[p] /\ pc'[p] = pc[p] /\ t'[p] = t[p]
                        /\ result'[p] = result[p]
  BY <1>1, Moved
<1>4. \/ PopDecrement
      \/ PopTaken /\ BelowZero(bottom)
  <2>1. CASE PopTaken \/ PopLast \/ PopEmpty
    BY <1>1, <1>2, <2>1 DEF PopTaken, PopLast, PopEmpty, Low
  <2>2. CASE PopWon \/ PopLost \/ PopBottom
    BY <2>2 DEF PopWon, PopLost, PopBottom, Low
  <2> QED BY <2>1, <2>2 DEF PopStep
<1>5. /\ top' = top /\ pc'[Owner] \in {"idle", "pop_top"}
      /\ BelowZero(bottom')
  <2>1. CASE PopDecrement
    <3>1. /\ pc'[Owner] = "pop_top" /\ top' = top /\ bottom' = Down(bottom)
          /\ InBounds
      BY <1>1, <2>1 DEF PopDecrement
    <3>2. CASE bottom = 0
      BY <3>1, <3>2, Constants DEF Down, BelowZero
    <3>3. CASE BelowZero(bottom)
      <4>1. bottom > MaxIndex + 1
        BY <1>1, <3>3, Constants DEF BelowZero
      <4>2. bottom - 1 > IndexModulus \div 2
        BY <1>1, <3>1, <4>1, Constants DEF InBounds
      <4>3. bottom' = bottom - 1
        BY <1>1, <1>2, <3>1, <3>3 DEF Down
      <4> QED BY <3>1, <4>2, <4>3 DEF BelowZero
    <3> QED BY <3>2, <3>3 DEF Low
  <2>2. CASE PopTaken /\ BelowZero(bottom)
    BY <1>1, <2>2 DEF PopTaken, BelowZero
  <2> QED BY <1>4, <2>1, <2>2
<1>6. Low'
  BY <1>2, <1>3, <1>5 DEF Low, BelowZero
<1>7. \A q \in Threads \ {Owner} : \A j \in Jobs : ~InHand(q, j)
  BY DEF Low, InHand, Threads
<1>8. Books'
  BY <1>1, <1>7, MoveKeepsBooks
<1> QED BY <1>6, <1>8

(* While bottom_ stays above zero a worker keeps the contract by itself:   *)
(* every push has room and every pop something to lower bottom_ for.       *)
LEMMA HighContract ==
  ASSUME NestedInv, High, \A j \in Jobs : PushSlot(j) => Cardinality(Known) < Capacity
  PROVE  /\ QueueInv
         /\ \A j \in Jobs : PushSlot(j) => bottom - top < Capacity
         /\ PopDecrement => bottom > 0
<1>1. QueueInv
  BY DEF QueueInv, NestedInv, High
<1>2. ASSUME NEW j \in Jobs, PushSlot(j) PROVE bottom - top < Capacity
  <2>1. pc[Owner] = "idle"
    BY <1>2 DEF PushSlot, Call
  <2>2. Cardinality(Known) < Capacity
    BY <1>2
  <2>3. bottom - top <= Cardinality(Known)
    BY <2>1 DEF High, End
  <2> QED BY <2>2, <2>3, TypeFacts, KnownCounts DEF NestedInv
<1>3. PopDecrement => bottom > 0
  BY DEF PopDecrement, Call, High
<1> QED BY <1>1, <1>2, <1>3

LEMMA HighMoves ==
  ASSUME NestedInv, High, OwnerStep \/ (\E p \in Thieves : ThiefStep(p)),
         \A j \in Jobs : PushSlot(j) => Cardinality(Known) < Capacity
  PROVE  OwnerInv' /\ ThiefInv' /\ StealClaimsCurrentEntry'
BY HighContract, OwnerPreservesInv, ThiefPreservesInv

(* Above zero the entry a thief has taken was in nobody's hands before. *)
LEMMA StealHigh ==
  ASSUME NestedInv, Books, High, NEW p \in Thieves, StealStep(p)
  PROVE  Books' /\ High'
<1> USE DEF Goto, Call, Return
<1>1. /\ bottom \in Nat /\ top \in Nat /\ MaxIndex \in Nat /\ top \in Index
      /\ pc \in [Threads -> Labels] /\ t \in [Threads -> Nat] /\ result \in [Threads -> BOOLEAN]
      /\ target \in [Threads -> Contents]
      /\ p \in Threads /\ p # Owner /\ Owner \in Threads
      /\ End \in Nat /\ Cardinality(Known) \in Nat
  BY TypeFacts, KnownCounts DEF NestedInv, End
<1>2. OwnerInv' /\ ThiefInv' /\ StealClaimsCurrentEntry'
  <2>1. ThiefStep(p) /\ pc'[Owner] = pc[Owner]
    BY <1>1, Moved DEF StealStep
  <2>2. \A j \in Jobs : ~PushSlot(j)
    BY <1>1, <2>1 DEF PushSlot
  <2> QED BY <2>1, <2>2, HighMoves
<1>3. /\ UNCHANGED <<slots, state, bottom>> /\ Known' = Known /\ End' = End
      /\ pc'[p] # "pop_bottom"
      /\ \A q \in Threads \ {p} : /\ stage'[q] = stage[q] /\ pc'[q] = pc[q]
                                 /\ target'[q] = target[q] /\ result'[q] = result[q]
  BY <1>1, Moved DEF Known, End
<1>4. CASE StealCas(p) /\ top = t[p]
  <2>1. /\ top < Back /\ target[p] = slots[Slot(top)] /\ target' = target
        /\ top' = Up(top) /\ pc[p] = "steal_cas"
    BY <1>4 DEF StealCas, High, StealClaimsCurrentEntry
  <2>2. top < End /\ top' = top + 1
    BY <1>1, <2>1, NoWrap DEF End, Back, High, OwnerInv
  <2>3. \A q \in Threads \ {p} : \A j \in Jobs : InHand(p, j)' /\ InHand(q, j) => state[j] # "ready"
    <3> SUFFICES ASSUME NEW q \in Threads \ {p}, NEW j \in Jobs, InHand(p, j)', InHand(q, j)
                 PROVE  state[j] # "ready"
      OBVIOUS
    <3>1. slots[Slot(top)] = j /\ top \in top .. (End - 1)
      BY <1>1, <2>1, <2>2 DEF InHand
    <3> QED BY <3>1 DEF High, Exclusive
  <2>4. Exclusive'
    <3> SUFFICES ASSUME NEW i \in (top + 1) .. (End - 1), NEW q \in Threads, NEW j \in Jobs,
                        slots[Slot(i)] = j, InHand(q, j)'
                 PROVE  state[j] # "ready"
      BY <1>3, <2>2 DEF Exclusive
    <3>1. i \in top .. (End - 1) /\ top \in top .. (End - 1) /\ top < i
      BY <1>1
    <3>2. CASE q = p
      <4>1. slots[Slot(top)] = slots[Slot(i)] /\ slots[Slot(top)] \in Jobs
        BY <2>1, <3>2 DEF InHand
      <4> QED BY <3>1, <4>1, EntriesDiffer DEF Books, High
    <3>3. CASE q # p
      <4>1. InHand(q, j)
        BY <1>3, <3>3 DEF InHand
      <4> QED BY <3>1, <4>1 DEF High, Exclusive
    <3> QED BY <3>2, <3>3
  <2>5. High'
    <3>1. End' - top' <= Cardinality(Known')
      BY <1>1, <1>3, <2>2 DEF High
    <3> QED BY <1>1, <1>2, <1>3, <2>4, <3>1 DEF High
  <2> QED BY <1>1, <2>3, <2>5, MoveKeepsBooks
<1>5. CASE ~(StealCas(p) /\ top = t[p])
  <2>1. top' = top /\ stage'[p] # "check"
    <3>1. CASE StealTop(p)
      BY <1>1, <3>1 DEF StealTop, StealStep, Returned, Failed, GroupTypeOK, NestedInv
    <3>2. CASE StealBottom(p)
      <4>1. ~result[p] /\ result' = result
        BY <3>2 DEF StealBottom, High, ThiefInv
      <4>2. stage'[p] # "check"
        BY <1>1, <4>1, Moved
      <4> QED BY <3>2, <4>2 DEF StealBottom
    <3>3. CASE StealSlot(p)
      <4>1. pc'[p] = "steal_cas"
        BY <1>1, <3>3 DEF StealSlot
      <4> QED BY <1>1, <3>3, <4>1, Moved DEF StealSlot
    <3>4. CASE StealCas(p) /\ top # t[p]
      <4>1. ~result[p] /\ result' = result
        BY <3>4 DEF StealCas, High, ThiefInv
      <4>2. stage'[p] # "check"
        BY <1>1, <4>1, Moved
      <4> QED BY <3>4, <4>2 DEF StealCas
    <3> QED BY <1>5, <3>1, <3>2, <3>3, <3>4 DEF StealStep, ThiefStep
  <2>2. \A j \in Jobs : ~InHand(p, j)'
    BY <1>1, <1>3, <2>1, Moved DEF InHand
  <2>3. Exclusive'
    <3> SUFFICES ASSUME NEW i \in top .. (End - 1), NEW q \in Threads, NEW j \in Jobs,
                        slots[Slot(i)] = j, InHand(q, j)'
                 PROVE  state[j] # "ready"
      BY <1>3, <2>1 DEF Exclusive
    <3>1. q # p
      BY <2>2
    <3>2. InHand(q, j)
      BY <1>3, <3>1 DEF InHand
    <3> QED BY <3>2 DEF High, Exclusive
  <2>4. High'
    BY <1>1, <1>2, <1>3, <2>1, <2>3 DEF High
  <2> QED BY <1>1, <2>2, <2>4, MoveKeepsBooks
<1> QED BY <1>4, <1>5

(* Above zero pop takes what nobody holds, and what a pop in vain brings   *)
(* back either nobody holds, or a thread is misled.                        *)
LEMMA PopHigh ==
  ASSUME NestedInv, Books, High, PopStep, ~misled'
  PROVE  Books' /\ High'
<1> USE DEF Goto, Call, Return
<1>1. /\ bottom \in Nat /\ top \in Nat /\ MaxIndex \in Nat /\ top \in Index /\ bottom \in Index
      /\ pc \in [Threads -> Labels] /\ t \in [Threads -> Nat] /\ result \in [Threads -> BOOLEAN]
      /\ target \in [Threads -> Contents]
      /\ Owner \in Threads /\ \A q \in Threads \ {Owner} : q \in Thieves
      /\ End \in Nat /\ Cardinality(Known) \in Nat
  BY TypeFacts, KnownCounts DEF NestedInv, End, Threads
<1>2. OwnerInv' /\ ThiefInv' /\ StealClaimsCurrentEntry'
  <2>1. pc'[Owner] # "push_bottom"
    BY <1>1, Moved
  <2>2. \A j \in Jobs : ~PushSlot(j)
    BY <1>1, <2>1 DEF PushSlot
  <2>3. OwnerStep
    BY DEF PopStep, OwnerStep
  <2> QED BY <2>2, <2>3, HighMoves
<1>3. /\ UNCHANGED <<slots, state>> /\ Known' = Known /\ stage[Owner] = "look"
      /\ \A q \in Threads \ {Owner} : /\ stage'[q] = stage[q] /\ pc'[q] = pc[q]
                                     /\ target'[q] = target[q] /\ result'[q] = result[q]
  BY <1>1, Moved DEF Known
<1>4. \A q \in Threads \ {Owner}, j \in Jobs : InHand(q, j)' <=> InHand(q, j)
  BY <1>3 DEF InHand
(* What is left to show, if the step takes at most entry b of the queue. *)
<1>5. ASSUME NEW b \in Nat,
             b \in top .. (End - 1) \/ (\A j \in Jobs : ~InHand(Owner, j)'),
             \A j \in Jobs : InHand(Owner, j)' => slots[Slot(b)] = j,
             top' .. (End' - 1) \subseteq (top .. (End - 1)) \ {b}
               \/ (/\ top' .. (End' - 1) \subseteq top .. (End - 1)
                   /\ \A j \in Jobs : ~InHand(Owner, j)')
      PROVE  /\ Exclusive'
             /\ \A q \in Threads \ {Owner} : \A j \in Jobs :
                  InHand(Owner, j)' /\ InHand(q, j) => state[j] # "ready"
  <2>1. ASSUME NEW q \in Threads \ {Owner}, NEW j \in Jobs, InHand(Owner, j)', InHand(q, j)
        PROVE  state[j] # "ready"
    BY <1>5, <2>1 DEF High, Exclusive
  <2>2. ASSUME NEW i \in top' .. (End' - 1), NEW q \in Threads, NEW j \in Jobs,
               slots[Slot(i)] = j, InHand(q, j)'
        PROVE  state[j] # "ready"
    <3>1. i \in top .. (End - 1)
      BY <1>5, <2>2
    <3>2. CASE q # Owner
      BY <1>4, <2>2, <3>1, <3>2 DEF High, Exclusive
    <3>3. CASE q = Owner
      <4>1. /\ b \in top .. (End - 1) /\ i # b
            /\ slots[Slot(b)] = slots[Slot(i)] /\ slots[Slot(b)] \in Jobs
        BY <1>5, <2>2, <3>3
      <4>2. i < b \/ b < i
        BY <1>1, <3>1, <4>1
      <4> QED BY <3>1, <4>1, <4>2, EntriesDiffer DEF Books, High
    <3> QED BY <3>2, <3>3
  <2> QED BY <1>3, <2>1, <2>2 DEF Exclusive
<1>6. ASSUME /\ Exclusive'
             /\ \A q \in Threads \ {Owner} : \A j \in Jobs :
                  InHand(Owner, j)' /\ InHand(q, j) => state[j] # "ready",
             pc'[Owner] = "idle" => bottom' > 0,
             End' - top' <= Cardinality(Known)
      PROVE  Books' /\ High'
  <2>1. High'
    BY <1>2, <1>3, <1>6 DEF High
  <2>2. Books'
    BY <1>1, <1>6, MoveKeepsBooks
  <2> QED BY <2>1, <2>2
<1>7. End - top <= Cardinality(Known) /\ Cardinality(Known) > 0
  BY DEF High
<1>8. CASE PopDecrement \/ PopLast
  <2>1. /\ top' = top /\ End' = End /\ pc'[Owner] \in {"pop_top", "pop_cas"}
    <3>1. CASE PopDecrement
      BY <1>1, <3>1, NoWrap DEF PopDecrement, End, High
    <3>2. CASE PopLast
      BY <1>1, <3>2 DEF PopLast, End
    <3> QED BY <1>8, <3>1, <3>2
  <2>2. \A j \in Jobs : ~InHand(Owner, j)'
    <3>1. stage'[Owner] = "look"
      BY <1>1, <2>1, Moved
    <3> QED BY <2>1, <3>1 DEF InHand
  <2>3. /\ Exclusive'
        /\ \A q \in Threads \ {Owner} : \A j \in Jobs :
             InHand(Owner, j)' /\ InHand(q, j) => state[j] # "ready"
    BY <1>1, <1>5, <2>1, <2>2
  <2> QED BY <1>1, <1>6, <1>7, <2>1, <2>3
<1>9. CASE PopEmpty \/ PopLost
  <2>1. /\ top' = top /\ bottom' = bottom /\ pc'[Owner] = "pop_bottom" /\ top > bottom
        /\ ~result'[Owner]
    <3>1. CASE PopEmpty
      BY <1>1, <3>1 DEF PopEmpty, High, OwnerInv
    <3>2. CASE PopLost
      BY <1>1, <3>2 DEF PopLost, High, OwnerInv
    <3> QED BY <1>9, <3>1, <3>2
  <2>2. \A j \in Jobs : ~InHand(Owner, j)'
    <3>1. stage'[Owner] = "look"
      BY <1>1, <2>1, Moved
    <3> QED BY <2>1, <3>1 DEF InHand
  <2>3. End' = bottom
    BY <2>1 DEF End
  <2>4. /\ Exclusive'
        /\ \A q \in Threads \ {Owner} : \A j \in Jobs :
             InHand(Owner, j)' /\ InHand(q, j) => state[j] # "ready"
    BY <1>1, <1>5, <2>1, <2>2, <2>3
  <2> QED BY <1>1, <1>6, <1>7, <2>1, <2>3, <2>4
<1>10. CASE PopTaken
  <2>1. /\ top' = top /\ bottom' = bottom /\ pc[Owner] = "pop_top" /\ pc'[Owner] = "idle"
        /\ top < bottom /\ target'[Owner] = slots[Slot(bottom)]
    BY <1>1, <1>10 DEF PopTaken
  <2>2. End = bottom + 1 /\ End' = bottom
    BY <2>1 DEF End
  <2>3. /\ Exclusive'
        /\ \A q \in Threads \ {Owner} : \A j \in Jobs :
             InHand(Owner, j)' /\ InHand(q, j) => state[j] # "ready"
    <3>1. bottom \in top .. (End - 1) /\ top' .. (End' - 1) \subseteq (top .. (End - 1)) \ {bottom}
      BY <1>1, <2>1, <2>2
    <3>2. \A j \in Jobs : InHand(Owner, j)' => slots[Slot(bottom)] = j
      BY <2>1 DEF InHand
    <3> QED BY <1>1, <1>5, <3>1, <3>2
  <2> QED BY <1>1, <1>6, <1>7, <2>1, <2>2, <2>3
<1>11. CASE PopWon
  <2>1. /\ bottom' = bottom /\ pc[Owner] = "pop_cas" /\ pc'[Owner] = "pop_bottom"
        /\ top = bottom /\ target'[Owner] = slots[Slot(bottom)]
        /\ top' = top + 1
    BY <1>1, <1>11, NoWrap DEF PopWon, High, OwnerInv
  <2>2. End = bottom + 1 /\ End' = bottom
    BY <2>1 DEF End
  <2>3. /\ Exclusive'
        /\ \A q \in Threads \ {Owner} : \A j \in Jobs :
             InHand(Owner, j)' /\ InHand(q, j) => state[j] # "ready"
    <3>1. bottom \in top .. (End - 1) /\ top' .. (End' - 1) \subseteq (top .. (End - 1)) \ {bottom}
      BY <1>1, <2>1, <2>2
    <3>2. \A j \in Jobs : InHand(Owner, j)' => slots[Slot(bottom)] = j
      BY <2>1 DEF InHand
    <3> QED BY <1>1, <1>5, <3>1, <3>2
  <2> QED BY <1>1, <1>6, <1>7, <2>1, <2>2, <2>3
<1>12. CASE PopBottom
  <2>1. /\ pc[Owner] = "pop_bottom" /\ pc'[Owner] = "idle" /\ top' = top /\ top = bottom + 1
        /\ target' = target /\ result' = result
        /\ t[Owner] = (IF result[Owner] THEN bottom ELSE top) /\ bottom + 1 < MaxIndex
    BY <1>1, <1>12 DEF PopBottom, High, OwnerInv
  <2>2. bottom' = t[Owner] + 1
    <3>1. t[Owner] \in Index /\ bottom' = Up(t[Owner])
      BY <1>1, <1>12, <2>1 DEF PopBottom
    <3>2. t[Owner] < IndexModulus - 1
      BY <1>1, <2>1, QueueAssumption
    <3> QED BY <1>1, <3>1, <3>2, QueueAssumption DEF Up
  <2>3. End' = bottom'
    BY <2>1 DEF End
  <2>4. \A q \in Threads \ {Owner} : \A j \in Jobs :
          InHand(Owner, j)' /\ InHand(q, j) => state[j] # "ready"
    <3>1. \A j \in Jobs : InHand(Owner, j)' => InHand(Owner, j)
      <4>1. stage'[Owner] \in {"check", "start"} => result[Owner]
        BY <1>1, <2>1, Moved
      <4> QED BY <2>1, <4>1 DEF InHand
    <3> QED BY <1>1, <3>1 DEF Books, HeldOnce
  <2>5. Exclusive'
    <3>1. CASE result[Owner]
      <4>1. top' .. (End' - 1) = {}
        BY <1>1, <2>1, <2>2, <2>3, <3>1
      <4> QED BY <4>1 DEF Exclusive
    <3>2. CASE ~result[Owner]
      <4>1. \A i \in top' .. (End' - 1) : i = t[Owner]
        BY <1>1, <2>1, <2>2, <2>3, <3>2
      <4>2. ~Exposes
        BY DEF PopStep
      <4>3. \A j \in Jobs : ~InHand(Owner, j)'
        <5>1. stage'[Owner] \notin {"check", "start"}
          BY <1>1, <2>1, <3>2, Moved
        <5> QED BY <2>1, <5>1 DEF InHand
      <4>4. ASSUME NEW q \in Threads, NEW j \in Jobs, slots[Slot(t[Owner])] = j, InHand(q, j)'
            PROVE  FALSE
        <5>1. q # Owner
          BY <4>3, <4>4
        <5>2. InHand(q, j) /\ pc[q] # "pop_bottom"
          BY <1>1, <1>4, <4>4, <5>1 DEF High, ThiefInv
        <5> QED BY <2>1, <3>2, <4>2, <4>4, <5>2 DEF InHand, Exposes
      <4> QED BY <1>3, <4>1, <4>4 DEF Exclusive
    <3> QED BY <3>1, <3>2
  <2>6. End' - top' <= Cardinality(Known) /\ bottom' > 0
    BY <1>1, <1>7, <2>1, <2>2, <2>3
  <2> QED BY <1>6, <2>4, <2>5, <2>6
<1> QED BY <1>8, <1>9, <1>10, <1>11, <1>12 DEF PopStep

(* Index and slot of what was pushed k pushes ago, in the midst of a push  *)
(* and after it, when bottom_ may have wrapped.                            *)
LEMMA EndWraps ==
  ASSUME NestedInv, PushBottom, NEW k \in Int
  PROVE  Slot(End' - k) = Slot(End - k)
<1>1. /\ bottom \in Nat /\ bottom \in Index /\ IndexModulus \in Nat
      /\ End = bottom + 1 /\ End' = Up(bottom)
  BY TypeFacts DEF NestedInv, PushBottom, Return, Goto, End
<1>2. CASE bottom # IndexModulus - 1
  BY <1>1, <1>2 DEF Up
<1>3. CASE bottom = IndexModulus - 1
  <2>1. 0 - k \in Int /\ End - k = (0 - k) + IndexModulus /\ End' - k = 0 - k
    BY <1>1, <1>3 DEF Up
  <2> QED BY <2>1, SlotWraps
<1> QED BY <1>2, <1>3

(* A job that is pushed was nowhere before, and overwrites none that waits. *)
LEMMA RunKeepsBooks ==
  ASSUME NestedInv, Books, NEW j \in Jobs, GroupRun(j)
  PROVE  /\ Books'
         /\ Known' = Known \cup {j} /\ Cardinality(Known') = Cardinality(Known) + 1
         /\ Cardinality(Known) < Capacity
         /\ \A p \in Threads, k \in Jobs : InHand(p, k)' => k # j /\ InHand(p, k)
<1> USE DEF Goto, Call
<1>1. /\ bottom \in Nat /\ Capacity \in Nat
      /\ pc \in [Threads -> Labels] /\ Owner \in Threads
      /\ target \in [Threads -> Contents]
      /\ slots \in [0 .. (Capacity - 1) -> Contents] /\ Slot(bottom) \in DOMAIN slots
      /\ DOMAIN slots = 0 .. (Capacity - 1)
      /\ state \in [Jobs -> {"unknown", "ready", "running", "completed"}]
      /\ Null \notin Jobs
  BY TypeFacts, Kinds DEF NestedInv
<1>2. /\ function = "runs_jobs" /\ function' = function /\ state[j] = "unknown" /\ stage' = stage
      /\ pc[Owner] = "idle" /\ pc' = [pc EXCEPT ![Owner] = "push_bottom"]
      /\ slots' = [slots EXCEPT ![Slot(bottom)] = j] /\ state' = [state EXCEPT ![j] = "ready"]
      /\ target' = [target EXCEPT ![Owner] = Null] /\ result' = [result EXCEPT ![Owner] = FALSE]
      /\ job_count' = (job_count + 1) % CounterModulus /\ bottom' = bottom /\ top' = top
  BY DEF GroupRun, PushSlot
<1>3. /\ Known' = Known \cup {j} /\ j \notin Known
      /\ IsFiniteSet(Known') /\ Cardinality(Known) \in Nat /\ Cardinality(Known') \in Nat
      /\ Cardinality(Known') = Cardinality(Known) + 1 /\ Cardinality(Known) < Capacity
  <2>1. Known' = Known \cup {j} /\ j \notin Known
    BY <1>1, <1>2 DEF Known
  <2>2. Known' \subseteq Jobs /\ IsFiniteSet(Jobs) /\ Cardinality(Jobs) <= Capacity
    BY WorkerQueueAssumption DEF Known
  <2>3. IsFiniteSet(Known') /\ Cardinality(Known') <= Cardinality(Jobs)
        /\ Cardinality(Known') \in Nat /\ Cardinality(Jobs) \in Nat
    BY <2>2, FS_Subset, FS_CardinalityType
  <2>4. IsFiniteSet(Known) /\ Cardinality(Known) \in Nat
    BY KnownCounts
  <2>5. Cardinality(Known') = Cardinality(Known) + 1
    BY <2>1, <2>4, FS_AddElement
  <2> QED BY <1>1, <2>1, <2>2, <2>3, <2>4, <2>5
<1>4. stage[Owner] = "look" /\ End = bottom /\ End' = bottom + 1
  BY <1>1, <1>2 DEF Books, InStep, End
<1>5. /\ \A i \in DOMAIN slots : slots[i] # j
      /\ \A p \in Threads : target[p] # j /\ target'[p] # j
  BY <1>1, <1>2, <1>3 DEF Books, PushedOnce
<1>6. \A p \in Threads, k \in Jobs : InHand(p, k)' => k # j /\ InHand(p, k)
  BY <1>1, <1>2, <1>4, <1>5 DEF InHand
<1>7. PushedOnce'
  BY <1>1, <1>2, <1>3, <1>5 DEF Books, PushedOnce
<1>8. InStep'
  BY <1>1, <1>2, <1>4 DEF Books, InStep
<1>9. RunOnce'
  <2>1. ASSUME NEW p \in Threads, stage[p] # "look"
        PROVE  target'[p] = target[p] /\ target[p] # j
    BY <1>1, <1>2, <1>4, <1>5, <2>1
  <2> QED BY <1>1, <1>2, <2>1 DEF Books, RunOnce
<1>10. HeldOnce'
  BY <1>1, <1>2, <1>6 DEF Books, HeldOnce
<1>11. Exact'
  <2>1. j \notin Due
    BY <1>2, <1>5 DEF Due
  <2>2. Due' = Due \cup {j}
    <3>1. ASSUME NEW p \in Threads, stage[p] = "finished" PROVE target'[p] = target[p]
      BY <1>1, <1>2, <1>4, <3>1
    <3> QED BY <1>1, <1>2, <3>1 DEF Due
  <2>3. Cardinality(Due') = Cardinality(Due) + 1
    BY <2>1, <2>2, DueCounts, FS_AddElement
  <2>4. Cardinality(Due') \in Nat /\ Cardinality(Due') < CounterModulus
    <3>1. Due' \subseteq Jobs /\ IsFiniteSet(Jobs) /\ Cardinality(Jobs) < CounterModulus
      BY <2>2, DueCounts, WorkerQueueAssumption
    <3>2. Cardinality(Due') \in Nat /\ Cardinality(Due') <= Cardinality(Jobs)
          /\ Cardinality(Jobs) \in Nat
      BY <3>1, FS_Subset, FS_CardinalityType
    <3> QED BY <3>1, <3>2, WorkerQueueAssumption
  <2>5. job_count + 1 = Cardinality(Due')
    BY <2>3 DEF Books, Exact
  <2>6. job_count' = Cardinality(Due')
    BY <1>2, <2>4, <2>5, WorkerQueueAssumption
  <2> QED BY <1>2, <2>6 DEF Books, Exact
<1>12. InReach'
  <2>1. PICK n \in 0 .. Cardinality(Known) : \A k \in Jobs :
          state[k] = "ready" => \E d \in 1 .. n : slots[Slot(End - d)] = k
    BY <1>2 DEF Books, InReach
  <2>2. n + 1 \in 0 .. Cardinality(Known')
    BY <1>3
  <2>3. ASSUME NEW k \in Jobs, state'[k] = "ready"
        PROVE  \E d \in 1 .. (n + 1) : /\ slots'[Slot(End' - d)] = k
                                     /\ Slot(End' - d) \in DOMAIN slots
    <3>1. CASE k = j
      <4>1. End' - 1 = bottom /\ slots'[Slot(bottom)] = j /\ 1 \in 1 .. (n + 1)
        BY <1>1, <1>2, <1>3, <1>4
      <4> QED BY <1>1, <3>1, <4>1
    <3>2. CASE k # j
      <4>1. state[k] = "ready"
        BY <1>1, <1>2, <2>3, <3>2
      <4>2. PICK d \in 1 .. n : slots[Slot(End - d)] = k
        BY <2>1, <4>1
      <4>3. /\ bottom - d \in Int /\ bottom \in Int /\ bottom - d < bottom
            /\ bottom - (bottom - d) < Capacity
            /\ End - d = bottom - d /\ End' - (d + 1) = bottom - d /\ d + 1 \in 1 .. (n + 1)
        BY <1>1, <1>3, <1>4
      <4>4. Slot(bottom - d) # Slot(bottom) /\ Slot(bottom - d) \in DOMAIN slots
        BY <1>1, <4>3, SlotsApart, Remainder
      <4>5. slots'[Slot(bottom - d)] = k
        BY <1>1, <1>2, <4>2, <4>3, <4>4
      <4> QED BY <4>3, <4>4, <4>5
    <3> QED BY <3>1, <3>2
  <2>4. \A k \in Jobs : state'[k] = "ready" => \E i \in DOMAIN slots' : slots'[i] = k
    BY <1>1, <1>2, <2>3
  <2> QED BY <2>2, <2>3, <2>4 DEF InReach
<1> QED BY <1>3, <1>6, <1>7, <1>8, <1>9, <1>10, <1>11, <1>12 DEF Books

(* The push that comes up above zero leaves what was pushed below behind.  *)
LEMMA RunTidy ==
  ASSUME NestedInv, Tidy, NEW j \in Jobs, GroupRun(j)
  PROVE  Tidy'
<1> USE DEF Goto, Call
<1>1. /\ bottom \in Nat /\ top \in Nat /\ MaxIndex \in Nat /\ Capacity \in Nat \ {0}
      /\ pc \in [Threads -> Labels] /\ t \in [Threads -> Nat] /\ result \in [Threads -> BOOLEAN]
      /\ target \in [Threads -> Contents]
      /\ Owner \in Threads /\ \A q \in Thieves : q \in Threads /\ q # Owner
      /\ Cardinality(Known) \in Nat
  BY TypeFacts, KnownCounts, Constants DEF NestedInv
<1>2. /\ function = "runs_jobs" /\ stage' = stage /\ pc[Owner] = "idle"
      /\ pc' = [pc EXCEPT ![Owner] = "push_bottom"]
      /\ UNCHANGED <<top, bottom, t>> /\ (bottom < MaxIndex \/ bottom + MaxIndex > IndexModulus)
      /\ slots' = [slots EXCEPT ![Slot(bottom)] = j] /\ state' = [state EXCEPT ![j] = "ready"]
      /\ \A q \in Thieves : pc'[q] = pc[q] /\ result'[q] = result[q]
  BY <1>1 DEF GroupRun, PushSlot, InBounds
<1>3. /\ Books' /\ Cardinality(Known') = Cardinality(Known) + 1 /\ Cardinality(Known) < Capacity
      /\ \A p \in Threads, k \in Jobs : InHand(p, k)' => k # j /\ InHand(p, k)
  BY RunKeepsBooks DEF Tidy
<1>4. End = bottom /\ End' = bottom + 1
  BY <1>1, <1>2 DEF End
<1>5. CASE Low /\ BelowZero(bottom)
  BY <1>1, <1>2, <1>3, <1>5 DEF Tidy, Low, BelowZero
<1>6. CASE Low /\ bottom = 0
  <2>1. OwnerInv'
    BY <1>1, <1>2, <1>6, QueueAssumption DEF Low, OwnerInv
  <2>2. ThiefInv'
    BY <1>1, <1>2, <1>6 DEF Low, ThiefInv
  <2>3. StealClaimsCurrentEntry'
    BY <1>1, <1>2, <1>6 DEF Low, StealClaimsCurrentEntry
  <2>4. \A p \in Threads, k \in Jobs : ~InHand(p, k)'
    BY <1>1, <1>2, <1>3, <1>6 DEF Low, InHand, Threads, Tidy, Books, InStep
  <2>5. Exclusive'
    BY <2>4 DEF Exclusive
  <2>6. Cardinality(Known') > 0 /\ End' - top' <= Cardinality(Known') /\ pc'[Owner] # "idle"
    BY <1>1, <1>2, <1>3, <1>4, <1>6 DEF Low
  <2> QED BY <1>3, <2>1, <2>2, <2>3, <2>5, <2>6 DEF Tidy, High
<1>7. CASE High
  <2>1. OwnerInv' /\ ThiefInv' /\ StealClaimsCurrentEntry'
    <3>1. OwnerStep
      BY DEF GroupRun, OwnerStep
    <3> QED BY <1>3, <1>7, <3>1, HighMoves
  <2>2. Exclusive'
    <3> SUFFICES ASSUME NEW i \in top .. bottom, NEW p \in Threads, NEW k \in Jobs,
                        slots'[Slot(i)] = k, InHand(p, k)'
                 PROVE  state'[k] # "ready"
      BY <1>1, <1>2, <1>4 DEF Exclusive
    <3>1. k # j /\ InHand(p, k) /\ state'[k] = state[k]
      <4>1. k # j /\ InHand(p, k)
        BY <1>3
      <4> QED BY <1>2, <4>1, Kinds
    <3>2. i \in Nat /\ Slot(i) \in DOMAIN slots /\ Slot(bottom) \in DOMAIN slots
      <4>1. i \in Nat
        BY <1>1
      <4> QED BY <1>1, <4>1, Kinds
    <3>3. i # bottom
      BY <1>2, <3>1, <3>2
    <3>4. i \in top .. (End - 1)
      BY <1>1, <1>4, <3>3
    <3>5. slots[Slot(i)] = k
      BY <1>2, <3>1, <3>2
    <3> QED BY <1>7, <3>1, <3>4, <3>5 DEF High, Exclusive
  <2>3. Cardinality(Known') > 0 /\ End' - top' <= Cardinality(Known') /\ pc'[Owner] # "idle"
    BY <1>1, <1>2, <1>3, <1>4, <1>7 DEF High
  <2> QED BY <1>3, <2>1, <2>2, <2>3 DEF Tidy, High
<1> QED BY <1>2, <1>5, <1>6, <1>7 DEF Tidy, Low

LEMMA RunPushedTidy ==
  ASSUME NestedInv, Tidy, GroupRunPushed
  PROVE  Tidy'
<1> USE DEF Goto, Return
<1>1. /\ bottom \in Nat /\ top \in Nat /\ MaxIndex \in Nat /\ bottom \in Index
      /\ pc \in [Threads -> Labels] /\ t \in [Threads -> Nat] /\ IndexModulus \in Nat
      /\ Owner \in Threads /\ \A q \in Thieves : q \in Threads /\ q # Owner
      /\ Cardinality(Known) \in Nat
  BY TypeFacts, KnownCounts DEF NestedInv
<1>2. /\ PushBottom /\ UNCHANGED jobVars /\ pc[Owner] = "push_bottom"
      /\ pc' = [pc EXCEPT ![Owner] = "idle"] /\ bottom' = Up(bottom)
      /\ UNCHANGED <<top, slots, target, result, state, stage, function, job_count>>
      /\ \A q \in Threads \ {Owner} : pc'[q] = pc[q] /\ t'[q] = t[q]
      /\ pc'[Owner] = "idle"
  BY <1>1 DEF GroupRunPushed, PushBottom, jobVars
<1>3. Known' = Known /\ Due' = Due
  BY <1>2 DEF Known, Due
<1>4. \A p \in Threads, k \in Jobs : InHand(p, k)' <=> InHand(p, k)
  <2>1. \A p \in Threads : pc'[p] = "pop_bottom" <=> pc[p] = "pop_bottom"
    BY <1>1, <1>2
  <2> QED BY <1>2, <2>1 DEF InHand
<1>5. Books'
  <2>1. PushedOnce' /\ InStep' /\ RunOnce'
    BY <1>1, <1>2, <1>3 DEF Tidy, Books, PushedOnce, InStep, RunOnce
  <2>2. HeldOnce' /\ Exact'
    BY <1>2, <1>3, <1>4 DEF Tidy, Books, HeldOnce, Exact
  <2>3. InReach'
    <3>1. \A k \in Int : Slot(End' - k) = Slot(End - k)
      BY <1>2, EndWraps
    <3>2. \A n \in 0 .. Cardinality(Known) : \A k \in 1 .. n : k \in Int
      BY <1>1
    <3> QED BY <1>2, <1>3, <3>1, <3>2 DEF Tidy, Books, InReach
  <2> QED BY <2>1, <2>2, <2>3 DEF Books
<1>6. CASE Low
  <2>1. BelowZero(bottom') \/ bottom' = 0
    BY <1>1, <1>2, <1>6 DEF Low, BelowZero, Up
  <2>2. Low'
    BY <1>1, <1>2, <1>6, <2>1 DEF Low, BelowZero
  <2> QED BY <1>5, <2>2 DEF Tidy
<1>7. CASE High
  <2>1. OwnerInv' /\ ThiefInv' /\ StealClaimsCurrentEntry'
    <3>1. OwnerStep /\ \A j \in Jobs : ~PushSlot(j)
      BY <1>2 DEF OwnerStep, PushSlot, Call
    <3> QED BY <1>7, <3>1, HighMoves
  <2>2. bottom' = bottom + 1
    BY <1>1, <1>2, <1>7, NoWrap DEF High, OwnerInv
  <2>3. End' = End
    BY <1>2, <2>2 DEF End
  <2>4. Exclusive'
    BY <1>2, <1>4, <1>7, <2>3 DEF High, Exclusive
  <2>5. High'
    BY <1>1, <1>2, <1>3, <1>7, <2>1, <2>2, <2>3, <2>4 DEF High
  <2> QED BY <1>5, <2>5 DEF Tidy
<1> QED BY <1>6, <1>7 DEF Tidy

(* Steps that leave the queue alone and give no thread anything. *)
LEMMA PhaseQuiet ==
  ASSUME NestedInv, Low \/ High, UNCHANGED vars, Known' = Known,
         \A p \in Thieves : stage[p] = "look" => stage'[p] = "look",
         \A p \in Threads, k \in Jobs :
           InHand(p, k)' /\ state'[k] = "ready" => InHand(p, k) /\ state[k] = "ready"
  PROVE  Low' \/ High'
<1>1. End' = End
  BY DEF vars, End
<1>2. CASE Low
  BY <1>2 DEF Low, vars, BelowZero
<1>3. CASE High
  <2>1. Exclusive'
    BY <1>1, <1>3 DEF High, Exclusive, vars
  <2>2. OwnerInv' /\ ThiefInv' /\ StealClaimsCurrentEntry'
    BY <1>3 DEF High, OwnerInv, ThiefInv, StealClaimsCurrentEntry, Back, vars
  <2> QED BY <1>1, <1>3, <2>1, <2>2 DEF High, vars
<1> QED BY <1>2, <1>3

(* The function's wait returns only when the group counts no job: no job   *)
(* waits or runs while the owner is back in its main loop.                 *)
LEMMA FunctionTidy ==
  ASSUME NestedInv, Tidy, EnterFunction \/ WaitForAll \/ WaitReturns \/ FindNothingElsewhere
  PROVE  Tidy'
<1>1. /\ UNCHANGED <<top, bottom, slots, pc, t, target, result, state, job_count>>
      /\ Known' = Known /\ End' = End
  BY DEF EnterFunction, WaitForAll, WaitReturns, FindNothingElsewhere, vars, Known, End
<1>2. /\ \A p \in Threads : stage'[p] = stage[p] \/ (stage[p] = "elsewhere" /\ stage'[p] = "look")
      /\ stage \in [Threads -> {"look", "elsewhere", "check", "start", "running", "finished", "clamp"}]
  BY Kinds DEF EnterFunction, WaitForAll, WaitReturns, FindNothingElsewhere
<1>3. \A p \in Threads, k \in Jobs : InHand(p, k)' => InHand(p, k)
  BY <1>1, <1>2 DEF InHand
<1>4. Due' = Due
  BY <1>1, <1>2 DEF Due
<1>5. PushedOnce'
  BY <1>1 DEF Tidy, Books, PushedOnce
<1>6. InStep'
  <2>1. pc[Owner] = "push_bottom" => function = "runs_jobs" /\ pc[Owner] # "idle"
    BY DEF Tidy, Books, InStep
  <2>2. /\ function' = "runs_jobs" => stage'[Owner] = "look" /\ pc[Owner] \in {"idle", "push_bottom"}
        /\ pc[Owner] = "push_bottom" => function' = "runs_jobs"
    <3>1. Owner \in Threads
      BY DEF Threads
    <3>2. CASE EnterFunction
      BY <1>2, <2>1, <3>1, <3>2 DEF EnterFunction, Tidy, Books, InStep
    <3>3. CASE WaitForAll \/ WaitReturns
      BY <2>1, <3>3 DEF WaitForAll, WaitReturns
    <3>4. CASE FindNothingElsewhere
      BY <1>2, <2>1, <3>1, <3>4 DEF FindNothingElsewhere, Tidy, Books, InStep
    <3> QED BY <3>2, <3>3, <3>4
  <2> QED BY <1>1, <1>2, <2>2 DEF Tidy, Books, InStep
<1>7. RunOnce'
  BY <1>1, <1>2 DEF Tidy, Books, RunOnce
<1>8. HeldOnce'
  BY <1>1, <1>3 DEF Tidy, Books, HeldOnce
<1>9. Exact'
  <2>1. CASE WaitReturns
    <3>1. Cardinality(Due) = 0
      BY <2>1 DEF WaitReturns, Tidy, Books, Exact
    <3>2. Due = {}
      BY <3>1, DueCounts, FS_EmptySet
    <3> QED BY <1>1, <1>4, <3>2 DEF Tidy, Books, Exact
  <2>2. CASE ~WaitReturns
    <3>1. function' = "none" => function = "none"
      BY <2>2 DEF EnterFunction, WaitForAll, FindNothingElsewhere
    <3> QED BY <1>1, <1>4, <3>1 DEF Tidy, Books, Exact
  <2> QED BY <2>1, <2>2
<1>10. InReach'
  <2>1. CASE EnterFunction
    <3>1. \A j \in Jobs : state[j] # "ready"
      BY <2>1 DEF EnterFunction, Tidy, Books, Exact, Due
    <3>2. 0 \in 0 .. Cardinality(Known)
      BY KnownCounts
    <3> QED BY <1>1, <3>1, <3>2 DEF InReach
  <2>2. CASE ~EnterFunction
    <3>1. function' = "runs_jobs" => function = "runs_jobs"
      BY <2>2 DEF WaitForAll, WaitReturns, FindNothingElsewhere
    <3> QED BY <1>1, <3>1 DEF Tidy, Books, InReach
  <2> QED BY <2>1, <2>2
<1>11. Low' \/ High'
  <2>1. \A p \in Thieves : stage[p] = "look" => stage'[p] = "look"
    BY <1>2 DEF Threads
  <2> QED BY <1>1, <1>3, <2>1, PhaseQuiet DEF Tidy, vars
<1> QED BY <1>5, <1>6, <1>7, <1>8, <1>9, <1>10, <1>11 DEF Tidy, Books

(* A job that one thread has started no other starts, and the group counts *)
(* it down once.                                                           *)
LEMMA RunJobTidy ==
  ASSUME NestedInv, Tidy, NEW p \in Threads, RunJob(p)
  PROVE  Tidy'
<1>1. /\ UNCHANGED <<top, bottom, slots, pc, t, target, result, function>> /\ End' = End
      /\ stage[p] \notin {"look", "elsewhere"} /\ pc[p] = "idle"
      /\ \A q \in Threads \ {p} : stage'[q] = stage[q]
      /\ state \in [Jobs -> {"unknown", "ready", "running", "completed"}]
      /\ stage \in [Threads -> {"look", "elsewhere", "check", "start", "running", "finished", "clamp"}]
      /\ p \in Thieves => p # Owner
  <2>1. /\ UNCHANGED <<vars, function>>
        /\ stage[p] \in {"check", "start", "running", "finished", "clamp"}
        /\ \A q \in Threads \ {p} : stage'[q] = stage[q]
    BY Kinds DEF RunJob, CheckReady, Start, Finish, GroupDecrement, GroupClamp
  <2> QED BY <2>1, Kinds, TypeFacts DEF vars, End, Tidy, Books, InStep, NestedInv
<1>2. RunOnce /\ HeldOnce /\ Exact
  BY DEF Tidy, Books
<1>3. /\ RunOnce' /\ Exact' /\ Known' = Known
      /\ \A k \in Jobs : state'[k] = "ready" => state[k] = "ready"
      /\ \A k \in Jobs : InHand(p, k)' /\ state'[k] = "ready" => InHand(p, k)
  <2>1. CASE CheckReady(p)
    <3>1. /\ state' = state /\ job_count' = job_count
          /\ stage[p] = "check" /\ stage'[p] \in {"start", "elsewhere", "look"}
          /\ stage'[p] = "start" => target[p] \in Jobs /\ state[target[p]] = "ready"
      BY <1>1, <2>1 DEF CheckReady, Failed, Took
    <3>2. Due' = Due
      BY <1>1, <3>1 DEF Due
    <3>3. RunOnce'
      BY <1>1, <1>2, <3>1 DEF RunOnce
    <3> QED BY <1>1, <1>2, <3>1, <3>2, <3>3 DEF Exact, Known, InHand
  <2>2. CASE Start(p)
    <3> DEFINE j == target[p]
    <3>1. /\ j \in Jobs /\ state' = [state EXCEPT ![j] = "running"] /\ job_count' = job_count
          /\ stage[p] = "start" /\ stage'[p] = "running" /\ state[j] = "ready"
      BY <1>1, <1>2, <2>2 DEF Start, Took, RunOnce
    <3>2. Due' = Due
      BY <1>1, <3>1 DEF Due
    <3>3. \A q \in Threads \ {p} : stage[q] \in {"start", "running", "finished"} => target[q] # j
      <4> SUFFICES ASSUME NEW q \in Threads \ {p}, target[q] = j, stage[q] = "start" PROVE FALSE
        BY <1>2, <3>1 DEF RunOnce
      <4>1. InHand(p, j) /\ InHand(q, j)
        BY <3>1 DEF InHand
      <4> QED BY <1>2, <3>1, <4>1 DEF HeldOnce
    <3>4. RunOnce'
      <4> HIDE DEF j
      <4>1. target[p] = j
        BY DEF j
      <4> QED BY <1>1, <1>2, <3>1, <3>3, <4>1 DEF RunOnce
    <3>5. \A k \in Jobs : ~InHand(p, k)'
      BY <1>1, <3>1 DEF InHand
    <3> QED BY <1>1, <1>2, <3>1, <3>2, <3>4, <3>5 DEF Exact, Known
  <2>3. CASE Finish(p)
    <3> DEFINE j == target[p]
    <3>1. /\ j \in Jobs /\ state' = [state EXCEPT ![j] = "completed"] /\ job_count' = job_count
          /\ stage[p] = "running" /\ stage'[p] = "finished" /\ state[j] = "running"
      BY <1>1, <1>2, <2>3 DEF Finish, Took, RunOnce
    <3>2. Due' = Due
      BY <1>1, <3>1 DEF Due
    <3>3. \A q \in Threads \ {p} : stage[q] \in {"start", "running", "finished"} => target[q] # j
      BY <1>2, <3>1 DEF RunOnce
    <3>4. RunOnce'
      <4> HIDE DEF j
      <4>1. target[p] = j
        BY DEF j
      <4> QED BY <1>1, <1>2, <3>1, <3>3, <4>1 DEF RunOnce
    <3>5. \A k \in Jobs : ~InHand(p, k)'
      BY <1>1, <3>1 DEF InHand
    <3> QED BY <1>1, <1>2, <3>1, <3>2, <3>4, <3>5 DEF Exact, Known
  <2>4. CASE GroupDecrement(p)
    <3> DEFINE j == target[p]
    <3>0. /\ j \in Jobs /\ state' = state /\ state[j] = "completed" /\ stage[p] = "finished"
      BY <1>2, <2>4 DEF GroupDecrement, RunOnce
    <3>1. /\ j \in Jobs /\ state' = state /\ state[j] = "completed"
          /\ stage[p] = "finished" /\ stage'[p] = "look" /\ job_count' = job_count - 1
      <4>1. j \in Due
        BY <3>0 DEF Due
      <4>2. job_count # 0
        BY <1>2, <4>1, DueCounts, FS_EmptySet DEF Exact
      <4> QED BY <1>1, <2>4, <3>0, <4>2 DEF GroupDecrement
    <3>2. \A q \in Threads \ {p} : stage[q] = "finished" => target[q] # j
      BY <1>2, <3>1 DEF RunOnce
    <3>3. j \in Due /\ Due' = Due \ {j}
      BY <1>1, <3>1, <3>2 DEF Due
    <3>4. job_count' = Cardinality(Due')
      <4>1. Cardinality(Due \ {j}) = Cardinality(Due) - 1
        BY <3>3, DueCounts, FS_RemoveElement
      <4>2. Due \ {j} \subseteq Jobs /\ Cardinality(Due') \in Nat
        <5>1. IsFiniteSet(Due \ {j})
          BY DueCounts, FS_Subset
        <5> QED BY <3>3, <5>1, DueCounts, FS_CardinalityType
      <4> QED BY <1>2, <3>1, <3>3, <4>1, <4>2, DueCounts DEF Exact
    <3>5. RunOnce'
      BY <1>1, <1>2, <3>1 DEF RunOnce
    <3>6. \A k \in Jobs : ~InHand(p, k)'
      BY <1>1, <3>1 DEF InHand
    <3> QED BY <1>1, <1>2, <3>1, <3>3, <3>4, <3>5, <3>6 DEF Exact, Known
  <2>5. ~GroupClamp(p)
    BY <1>2 DEF GroupClamp, RunOnce
  <2> QED BY <2>1, <2>2, <2>3, <2>4, <2>5 DEF RunJob
<1>4. \A q \in Threads, k \in Jobs : InHand(q, k)' /\ state'[k] = "ready" => InHand(q, k)
  BY <1>1, <1>3 DEF InHand
<1>5. PushedOnce'
  BY <1>1, <1>3 DEF Tidy, Books, PushedOnce
<1>6. InStep'
  <2>1. \A q \in Threads : stage'[q] # "look" => pc[q] = "idle"
    BY <1>1 DEF Tidy, Books, InStep
  <2>2. function = "runs_jobs" => stage'[Owner] = "look"
    BY <1>1 DEF Tidy, Books, InStep, Threads
  <2> QED BY <1>1, <2>1, <2>2 DEF Tidy, Books, InStep
<1>7. HeldOnce'
  BY <1>2, <1>3, <1>4 DEF HeldOnce
<1>8. InReach'
  BY <1>1, <1>3 DEF Tidy, Books, InReach
<1>9. Low' \/ High'
  <2>1. \A q \in Thieves : stage[q] = "look" => stage'[q] = "look"
    BY <1>1 DEF Threads
  <2> QED BY <1>1, <1>3, <1>4, <2>1, PhaseQuiet DEF Tidy, vars
<1> QED BY <1>3, <1>5, <1>6, <1>7, <1>8, <1>9 DEF Tidy, Books

LEMMA TidyInit == GroupInit => TidyInv
<1> SUFFICES ASSUME GroupInit PROVE TidyInv
  OBVIOUS
<1>1. NestedInv
  BY NestedInit
<1>2. /\ top = 0 /\ bottom = 0 /\ function = "none" /\ job_count = 0
      /\ \A p \in Threads : /\ pc[p] = "idle" /\ stage[p] = "look" /\ target[p] = Null
                          /\ ~result[p] /\ t[p] = 0
      /\ \A j \in Jobs : state[j] = "unknown"
      /\ \A i \in DOMAIN slots : slots[i] = Null
      /\ Null \notin Jobs /\ Owner \in Threads
  BY QueueAssumption DEF GroupInit, Init, Threads
<1>3. PushedOnce /\ InStep /\ RunOnce /\ HeldOnce /\ InReach
  BY <1>2 DEF PushedOnce, InStep, RunOnce, HeldOnce, InHand, InReach
<1>4. Due = {}
  BY <1>2 DEF Due
<1>5. Exact
  BY <1>2, <1>4, FS_EmptySet DEF Exact
<1>6. Low
  BY <1>2 DEF Low, Threads
<1> QED BY <1>1, <1>3, <1>5, <1>6 DEF TidyInv, Tidy, Books

LEMMA TidyStep == TidyInv /\ [GroupNext]_allVars => TidyInv'
<1> SUFFICES ASSUME TidyInv, [GroupNext]_allVars PROVE TidyInv'
  OBVIOUS
<1>1. NestedInv /\ NestedInv'
  BY NestedStep DEF TidyInv
<1>2. misled => misled'
  <2>1. CASE UNCHANGED allVars
    BY <2>1 DEF allVars, jobVars
  <2>2. CASE GroupNext
    BY <2>2 DEF GroupNext, EnterFunction, GroupRun, GroupRunPushed, WaitForAll, WaitReturns,
                PopStep, FindNothingElsewhere, StealStep, RunJob, CheckReady, Start, Finish,
                GroupDecrement, GroupClamp, jobVars
  <2> QED BY <2>1, <2>2
<1>3. SUFFICES ASSUME ~misled' PROVE Tidy'
  BY <1>1 DEF TidyInv
<1>4. Tidy
  BY <1>2, <1>3 DEF TidyInv
<1>5. CASE PopStep
  BY <1>1, <1>3, <1>4, <1>5, PopLow, PopHigh DEF Tidy
<1>6. ASSUME NEW p \in Thieves, StealStep(p) PROVE Tidy'
  BY <1>1, <1>3, <1>4, <1>6, StealLow, StealHigh DEF Tidy
<1>7. CASE UNCHANGED allVars
  <2>1. Known' = Known /\ Due' = Due /\ End' = End
    BY <1>7 DEF allVars, jobVars, vars, Known, Due, End
  <2>2. \A p \in Threads, j \in Jobs : InHand(p, j)' <=> InHand(p, j)
    BY <1>7 DEF allVars, jobVars, vars, InHand
  <2>3. Books'
    BY <1>4, <1>7, <2>1, <2>2 DEF Tidy, Books, PushedOnce, InStep, RunOnce, HeldOnce, Exact, InReach,
                                allVars, jobVars, vars
  <2>4. Low' \/ High'
    BY <1>1, <1>4, <1>7, <2>1, <2>2, PhaseQuiet DEF Tidy, allVars, jobVars
  <2> QED BY <2>3, <2>4 DEF Tidy
<1> QED BY <1>1, <1>4, <1>5, <1>6, <1>7, RunTidy, RunPushedTidy, FunctionTidy, RunJobTidy
        DEF GroupNext

(* The queue, the threads' hands and the group's counter agree about every *)
(* job as long as no thread was misled.                                    *)
THEOREM TidyInvariant == GroupSpec => []TidyInv
BY TidyInit, TidyStep, PTL DEF GroupSpec

(* As long as no thread was misled, a job that waits to be run is in the   *)
(* ring or in a thread's hands, also while it lies below what bottom_ has  *)
(* passed: no push overwrites it.                                          *)
THEOREM JobsAreNotOverwritten == GroupSpec => []NoJobOverwritten
<1>1. TidyInv => NoJobOverwritten
  BY DEF TidyInv, Tidy, Books, InReach, NoJobOverwritten
<1> QED BY <1>1, TidyInvariant, PTL

(* As long as no thread was misled, JobGroup::wait_for_all, called in a    *)
(* job's function, returns only when every job of the group has completed. *)
THEOREM WaitCoversNested == GroupSpec => WaitCoversUnlessMisled
<1>1. TidyInv /\ WaitReturns /\ ~misled => \A j \in Jobs : state[j] \in {"unknown", "completed"}
  <2> SUFFICES ASSUME TidyInv, WaitReturns, ~misled
               PROVE  \A j \in Jobs : state[j] \in {"unknown", "completed"}
    OBVIOUS
  <2>1. Cardinality(Due) = 0
    BY DEF WaitReturns, TidyInv, Tidy, Books, Exact
  <2>2. Due = {}
    BY <2>1, DueCounts, FS_EmptySet
  <2>3. state \in [Jobs -> {"unknown", "ready", "running", "completed"}]
    BY Kinds DEF TidyInv
  <2> QED BY <2>2, <2>3 DEF Due
<1>2. TidyInv /\ [GroupNext]_allVars =>
        [WaitReturns /\ ~misled => \A j \in Jobs : state[j] \in {"unknown", "completed"}]_allVars
  BY <1>1
<1> QED BY <1>2, TidyInvariant, PTL DEF GroupSpec, WaitCoversUnlessMisled

--------------------------------------------------------------------------------
(* bottom_ has come up above zero. *)
AboveZero == ~BelowZero(bottom) /\ (pc[Owner] = "idle" => bottom > 0)

LEMMA AboveIsHigh ==
  ASSUME TidyInv, ~misled, AboveZero
  PROVE  High
  BY DEF TidyInv, Tidy, Low, AboveZero

(* A worker's queue is no worse than that of an owner that keeps the       *)
(* contract, as long as no thread was misled: a steal that is going to     *)
(* succeed claims an entry that is in the queue and holds its job, and pop *)
(* fails only on an empty queue.                                           *)
THEOREM ContractRegained ==
  GroupSpec => [](~misled => StealClaimsCurrentEntry /\ PopMissesOnlyWhenEmpty)
<1>1. TidyInv /\ ~misled => StealClaimsCurrentEntry /\ PopMissesOnlyWhenEmpty
  <2> SUFFICES ASSUME TidyInv, ~misled PROVE StealClaimsCurrentEntry /\ PopMissesOnlyWhenEmpty
    OBVIOUS
  <2>1. CASE Low
    BY <2>1 DEF Low, StealClaimsCurrentEntry, PopMissesOnlyWhenEmpty
  <2>2. CASE High
    BY <2>2, TypeFacts DEF High, OwnerInv, PopMissesOnlyWhenEmpty, TidyInv, NestedInv
  <2> QED BY <2>1, <2>2 DEF TidyInv, Tidy
<1> QED BY <1>1, TidyInvariant, PTL

(* Once bottom_ has come up above zero, every step of push, pop and steal  *)
(* on a worker's queue is a step of AtomicQueue or leaves it as it is, as  *)
(* long as no thread was misled, though the worker pops whenever it likes. *)
THEOREM ActsAtomically ==
  GroupSpec => [][~misled /\ AboveZero => [Atomic!QueueNext]_(Atomic!queueVars)]_allVars
<1>1. TidyInv /\ [GroupNext]_allVars =>
        [~misled /\ AboveZero => [Atomic!QueueNext]_(Atomic!queueVars)]_allVars
  <2> SUFFICES ASSUME TidyInv, GroupNext, ~misled, AboveZero
               PROVE  [Atomic!QueueNext]_(Atomic!queueVars)
    OBVIOUS
  <2>1. NestedInv /\ Books /\ High /\ [Next]_vars
    BY AboveIsHigh, GroupStepMoves DEF TidyInv, Tidy
  <2>2. \A j \in Jobs : PushSlot(j) => Cardinality(Known) < Capacity
    <3> SUFFICES ASSUME NEW j \in Jobs, PushSlot(j) PROVE Cardinality(Known) < Capacity
      OBVIOUS
    <3>1. pc[Owner] = "idle" /\ pc'[Owner] = "push_bottom" /\ Owner \in Threads
      BY <2>1, TypeFacts DEF PushSlot, Call, Goto, NestedInv
    <3>2. CASE \E k \in Jobs : GroupRun(k)
      BY <2>1, <3>2, RunKeepsBooks
    <3>3. CASE PopStep
      BY <2>1, <3>1, <3>3, Moved
    <3>4. ASSUME NEW p \in Thieves, StealStep(p) PROVE FALSE
      <4>1. p \in Threads /\ Owner \in Threads \ {p}
        BY <2>1, TypeFacts DEF NestedInv
      <4> QED BY <2>1, <3>1, <3>4, <4>1, Moved
    <3>5. CASE ~(\E k \in Jobs : GroupRun(k)) /\ ~PopStep /\ ~(\E p \in Thieves : StealStep(p))
      <4>1. pc' = pc \/ GroupRunPushed
        BY <3>5 DEF GroupNext, EnterFunction, WaitForAll, WaitReturns, FindNothingElsewhere, RunJob,
                    CheckReady, Start, Finish, GroupDecrement, GroupClamp, vars
      <4> QED BY <3>1, <4>1 DEF GroupRunPushed, PushBottom
    <3> QED BY <3>2, <3>3, <3>4, <3>5
  <2>3. /\ QueueInv
        /\ \A j \in Jobs : PushSlot(j) => bottom - top < Capacity
        /\ PopDecrement => bottom > 0
    BY <2>1, <2>2, HighContract
  <2>4. CASE Next
    BY <2>3, <2>4, OwnerRefines, ThiefRefines DEF Next
  <2>5. CASE UNCHANGED vars
    BY <2>5 DEF vars, Atomic!queueVars, Count, Back, Got, Slot
  <2> QED BY <2>1, <2>4, <2>5
<1> QED BY <1>1, TidyInvariant, PTL DEF GroupSpec

===============================================================================
