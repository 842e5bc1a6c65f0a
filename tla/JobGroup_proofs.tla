----------------------------- MODULE JobGroup_proofs -----------------------------
(***************************************************************************)
(* Blocks are recycled only when nobody works on them, and both counters,  *)
(* job_count_ and active_jobs_, are exact as long as no job is entered too *)
(* early or twice; none is before a block is recycled.  All this holds for *)
(* any number of jobs, workers and blocks.                                 *)
(***************************************************************************)
EXTENDS JobGroup, FiniteSetTheorems, TLAPS

(* Where a thread holds the job it has taken. *)
Holding == {"running", "finished", "group_clamp", "free"}
OwnersOwn == {"user", "make", "reclaim", "clear_group", "set_group", "schedule", "push",
              "publish", "crashed", "wait", "pop"}

Steals(p) == StealJob(p) \/ StealOverwritten(p)

(* What the main thread has stored at each step of making a job.           *)
MakerInv ==
  /\ grouping => pc[Owner] \in {"make", "reclaim", "clear_group", "set_group", "crashed"}
  /\ pc[Owner] = "set_group" => grouping /\ ~grouped[making]
  /\ pc[Owner] = "reclaim" => InPool = {}
  /\ making \in Jobs <=>
       pc[Owner] \in {"clear_group", "set_group", "schedule", "push", "publish"}
  /\ \A j \in Jobs : state[j] = "unknown" => ~grouped[j] /\ making # j

(* A block that is out holds a job that is ready or in one thread's hands, *)
(* and no thread works on a block that is not.                             *)
BlocksInv ==
  ~doubled =>
    \A j \in Jobs :
      /\ place[j] # "out" => state[j] \in {"unknown", "completed"}
                             /\ \A p \in Threads : ~Holds(p, j)
      /\ place[j] = "out" => state[j] = "ready" \/ \E p \in Threads : Holds(p, j)
      /\ \A p \in Threads : Holds(p, j) =>
           state[j] = IF pc[p] = "running" THEN "running" ELSE "completed"
      /\ \A p, q \in Threads : Holds(p, j) /\ Holds(q, j) => p = q

--------------------------------------------------------------------------------
(* Every variable keeps its type.                                          *)
LEMMA TypeStep == ASSUME TypeOK, [Next]_vars PROVE TypeOK'
<1> USE DEF TypeOK, Threads, Contents, Slots, jobVars, mainVars, queueVars, ringVars
<1> DEFINE Labels == {"user", "make", "reclaim", "clear_group", "set_group", "schedule",
                      "push", "publish", "crashed", "wait", "pop", "idle", "check",
                      "start", "running", "finished", "group_clamp", "free", "freeing",
                      "active_decrement", "active_clamp"}
<1>a. CounterModulus \in Nat /\ CounterModulus > MaxMakes + 1 /\ MaxMakes \in Nat
      /\ Capacity \in Nat \ {0}
  BY GroupAssumption, RingAssumption
<1>b. \A c \in 0 .. (CounterModulus - 1) :
        Increment(c) \in 0 .. (CounterModulus - 1) /\ Decrement(c) \in 0 .. (CounterModulus - 1)
  BY <1>a DEF Increment, Decrement
<1>c. 0 \in 0 .. (CounterModulus - 1)
  BY <1>a
<1>d. \A n \in Nat : At(n) \in Slots
  BY <1>a DEF At
<1>e. \A p \in Threads : Home(p) \in Labels
  BY DEF Home
<1>f. Owner \in Threads /\ Thieves \subseteq Threads
  OBVIOUS
<1>1. CASE UNCHANGED vars
  BY <1>1 DEF vars
<1>2. ASSUME GroupRun \/ Run PROVE TypeOK'
  <2>1. made' \in 0 .. MaxMakes
    BY <1>2, <1>a DEF GroupRun, Run, BeginRun
  <2>5. grouping' \in BOOLEAN
    BY <1>2, Zenon DEF GroupRun, Run, BeginRun
  <2>2. job_count' \in 0 .. (CounterModulus - 1)
    BY <1>2, <1>b DEF GroupRun, Run
  <2>3. pc' \in [Threads -> Labels]
    BY <1>2 DEF GroupRun, Run, BeginRun, Goto
  <2>4. UNCHANGED <<queueVars, ringVars, jobVars, active, making, waiting>>
    BY <1>2 DEF GroupRun, Run, BeginRun
  <2> QED BY <2>1, <2>2, <2>3, <2>4, <2>5
<1>3. ASSUME NEW j \in Jobs, MakeReady(j) PROVE TypeOK'
  <2>1. PICK back : Allocate(j, back)
    BY <1>3 DEF MakeReady
  <2>2. place' \in [Jobs -> {"pool", "out", "listed"}]
    BY <2>1 DEF Allocate
  <2>3. /\ state' \in [Jobs -> {"unknown", "ready", "running", "completed"}]
        /\ making' \in Contents /\ pc' \in [Threads -> Labels]
    BY <2>1 DEF Allocate, Goto
  <2>4. UNCHANGED <<queueVars, ringVars, grouped, early, doubled, overlapped, grouping, waiting,
                    made, job_count, active>>
    BY <2>1 DEF Allocate
  <2> QED BY <2>2, <2>3, <2>4
<1>4. CASE MakeFails
  <2>1. pc' \in [Threads -> Labels]
    BY <1>4 DEF MakeFails, Goto
  <2>2. UNCHANGED <<queueVars, ringVars, jobVars, mainVars, job_count, active>>
    BY <1>4 DEF MakeFails
  <2> QED BY <2>1, <2>2
<1>18. CASE ClearGroup
  <2>1. grouped' \in [Jobs -> BOOLEAN]
    BY <1>18, Zenon DEF ClearGroup
  <2>2. pc' \in [Threads -> Labels]
    BY <1>18 DEF ClearGroup, Goto
  <2>3. /\ UNCHANGED <<queueVars, ringVars, state, place, early, doubled, overlapped>>
        /\ UNCHANGED <<mainVars, job_count, active>>
    BY <1>18 DEF ClearGroup
  <2> QED BY <2>1, <2>2, <2>3
<1>19. CASE SetGroup
  <2>1. grouped' \in [Jobs -> BOOLEAN]
    BY <1>19, Zenon DEF SetGroup
  <2>2. pc' \in [Threads -> Labels] /\ grouping' \in BOOLEAN
    BY <1>19 DEF SetGroup, Goto
  <2>3. /\ UNCHANGED <<queueVars, ringVars, state, place, early, doubled, overlapped>>
        /\ UNCHANGED <<making, waiting, made, job_count, active>>
    BY <1>19 DEF SetGroup
  <2> QED BY <2>1, <2>2, <2>3
<1>14. CASE BeginReclaim
  <2>1. overlapped' \in BOOLEAN
    BY <1>14, Zenon DEF BeginReclaim, Overlap
  <2> QED BY <1>14, <2>1 DEF BeginReclaim, Goto
<1>5. CASE ScheduleActive
  BY <1>5, <1>b DEF ScheduleActive, Goto
<1>6. CASE SchedulePush
  <2>1. count' \in Nat /\ At(count) \in Slots /\ making \in Contents /\ Null \in Contents
    BY <1>6, <1>d DEF SchedulePush, Push
  <2>3. ring' \in [Slots -> Contents] /\ UNCHANGED front
    BY <1>6, <2>1 DEF SchedulePush, Push
  <2>4. got' \in [Threads -> {<<>>} \cup {<<c>> : c \in Contents}]
    BY <1>6 DEF SchedulePush, Push
  <2> QED BY <1>6, <2>1, <2>3, <2>4 DEF SchedulePush, Goto
<1>15. CASE PushOverwrites
  <2>1. ring[front] \in Contents /\ making \in Contents
    OBVIOUS
  <2>2. ring' \in [Slots -> Contents]
    BY <1>15, <2>1 DEF PushOverwrites
  <2>3. former' \in [Thieves -> SUBSET Contents]
    <3>1. \A p \in Thieves : former[p] \cup {ring[front]} \subseteq Contents
      BY <2>1
    <3> QED BY <1>15, <3>1 DEF PushOverwrites
  <2> QED BY <1>15, <2>2, <2>3 DEF PushOverwrites, Goto
<1>16. CASE PushPublishes
  BY <1>16 DEF PushPublishes, Goto
<1>7. ASSUME WaitForAll \/ \E j \in Jobs : WaitForJob(j) PROVE TypeOK'
  BY <1>7 DEF WaitForAll, WaitForJob, Wait, Goto
<1>8. ASSUME WaitReturns \/ WaitHelps PROVE TypeOK'
  BY <1>8 DEF WaitReturns, WaitHelps, Goto
<1>9. ASSUME NEW p \in Threads, TakeOldest(p)
      PROVE  /\ ring' \in [Slots -> Contents] /\ front' \in Slots /\ count' \in Nat
             /\ got' \in [Threads -> {<<>>} \cup {<<c>> : c \in Contents}]
  <2>1. ring[front] \in Contents
    OBVIOUS
  <2>2. At(1) \in Slots
    BY <1>a, <1>d
  <2> QED BY <1>9, <1>a, <2>1, <2>2 DEF TakeOldest
<1>b2. FrontMoves => former' \in [Thieves -> SUBSET Contents]
  BY DEF FrontMoves
<1>10. CASE PopJob
  <2>1. ASSUME PopNewest
        PROVE  /\ ring' \in [Slots -> Contents] /\ front' \in Slots /\ count' \in Nat
               /\ got' \in [Threads -> {<<>>} \cup {<<c>> : c \in Contents}]
    <3>1. count - 1 \in Nat
      BY <2>1 DEF PopNewest
    <3>2. ring[At(count - 1)] \in Contents
      BY <3>1, <1>d
    <3> QED BY <2>1, <3>1, <3>2 DEF PopNewest
  <2>2. /\ ring' \in [Slots -> Contents] /\ front' \in Slots /\ count' \in Nat
        /\ got' \in [Threads -> {<<>>} \cup {<<c>> : c \in Contents}]
    BY <1>10, <1>9, <2>1, <1>f DEF PopJob
  <2>3. former' \in [Thieves -> SUBSET Contents]
    BY <1>10, <1>b2 DEF PopJob
  <2> QED BY <1>10, <2>2, <2>3 DEF PopJob, Goto
<1>11. CASE PopNothing
  <2>1. exposed' \in BOOLEAN
    BY <1>11, Zenon DEF PopNothing
  <2> QED BY <1>11, <2>1 DEF PopNothing, Phantom, Goto
<1>12. ASSUME NEW p \in Thieves, StealJob(p) PROVE TypeOK'
  BY <1>12, <1>9, <1>b2, <1>f DEF StealJob, Steal, Goto
<1>17. ASSUME NEW p \in Thieves, StealOverwritten(p) PROVE TypeOK'
  <2>1. PICK c \in former[p] : got' = [got EXCEPT ![p] = <<c>>]
    BY <1>17 DEF StealOverwritten
  <2>2. c \in Contents
    BY <1>17, <2>1
  <2>3. got' \in [Threads -> {<<>>} \cup {<<d>> : d \in Contents}]
    BY <2>1, <2>2
  <2>4. front' \in Slots /\ count' \in Nat
    BY <1>17, <1>d DEF StealOverwritten
  <2> QED BY <1>17, <1>b2, <2>3, <2>4 DEF StealOverwritten, Goto
<1>13. ASSUME NEW p \in Threads, RunJob(p) PROVE TypeOK'
  <2>1. CASE CheckReady(p) \/ DropUnready(p)
    BY <2>1, <1>e DEF CheckReady, DropUnready, Begin, Goto
  <2>2. CASE Start(p)
    <3>1. early' \in BOOLEAN /\ doubled' \in BOOLEAN
      BY <2>2, Zenon DEF Start
    <3> QED BY <2>2, <3>1 DEF Start, Goto
  <2>3. CASE Finish(p)
    BY <2>3 DEF Finish, Goto
  <2>4. CASE GroupDecrement(p) \/ GroupClamp(p)
    <3>1. job_count' \in 0 .. (CounterModulus - 1)
      BY <2>4, <1>b, <1>c DEF GroupDecrement, GroupClamp
    <3>2. pc' \in [Threads -> Labels]
      BY <2>4 DEF GroupDecrement, GroupClamp, Goto
    <3>3. UNCHANGED <<queueVars, ringVars, jobVars, mainVars, active>>
      BY <2>4 DEF GroupDecrement, GroupClamp
    <3> QED BY <3>1, <3>2, <3>3
  <2>5. CASE BeginFree(p) \/ EndFree(p)
    <3>1. overlapped' \in BOOLEAN
      BY <2>5, Zenon DEF BeginFree, EndFree, Overlap
    <3> QED BY <2>5, <3>1 DEF BeginFree, EndFree, List, Goto
  <2>6. CASE ActiveDecrement(p)
    <3>1. pc' \in [Threads -> Labels] /\ active' \in 0 .. (CounterModulus - 1)
      BY <2>6, <1>b, <1>e DEF ActiveDecrement, Goto
    <3>2. /\ got' \in [Threads -> {<<>>} \cup {<<c>> : c \in Contents}]
          /\ UNCHANGED <<ring, front, count, ringVars, jobVars, mainVars, job_count>>
      BY <2>6 DEF ActiveDecrement, Begin
    <3> QED BY <3>1, <3>2
  <2>7. CASE ActiveClamp(p)
    BY <2>7, <1>c, <1>e DEF ActiveClamp, Goto
  <2> QED BY <1>13, <2>1, <2>2, <2>3, <2>4, <2>5, <2>6, <2>7 DEF RunJob
<1> QED
  BY <1>1, <1>2, <1>3, <1>4, <1>5, <1>6, <1>7, <1>8, <1>10, <1>11, <1>12, <1>13, <1>14, <1>15,
     <1>16, <1>17, <1>18, <1>19, <1>f
     DEF Next, UserStep, OwnerStep

(* Every variable has its type initially.                                  *)
LEMMA TypeInit == Init => TypeOK
<1> SUFFICES ASSUME Init PROVE TypeOK
  OBVIOUS
<1>1. /\ ring \in [Slots -> Contents] /\ front \in Slots /\ count \in Nat
      /\ former \in [Thieves -> SUBSET Contents]
      /\ got \in [Threads -> {<<>>} \cup {<<c>> : c \in Contents}]
  BY RingAssumption DEF Init, QueueInit, Slots, Contents
<1>2. /\ state \in [Jobs -> {"unknown", "ready", "running", "completed"}]
      /\ place \in [Jobs -> {"pool", "out", "listed"}]
  BY DEF Init
<1>3. grouped \in [Jobs -> BOOLEAN]
  BY DEF Init
<1>4. /\ job_count \in 0 .. (CounterModulus - 1) /\ active \in 0 .. (CounterModulus - 1)
      /\ made \in 0 .. MaxMakes
  BY GroupAssumption DEF Init
<1>5. pc \in [Threads -> {"user", "make", "reclaim", "clear_group", "set_group", "schedule",
                         "push", "publish", "crashed", "wait", "pop", "idle", "check",
                         "start", "running", "finished", "group_clamp", "free", "freeing",
                         "active_decrement", "active_clamp"}]
  BY DEF Init
<1>6. making \in Contents /\ waiting \in Contents \cup {"group"}
  BY DEF Init, Contents
<1>7. /\ grouping \in BOOLEAN /\ early \in BOOLEAN /\ doubled \in BOOLEAN
      /\ exposed \in BOOLEAN /\ overrun \in BOOLEAN /\ overlapped \in BOOLEAN
  BY Zenon DEF Init
<1> QED BY <1>1, <1>2, <1>3, <1>4, <1>5, <1>6, <1>7 DEF TypeOK

(* No step of any thread stores anything of another type.                  *)
THEOREM TypeCorrect == Spec => []TypeOK
BY TypeInit, TypeStep, PTL DEF Spec

--------------------------------------------------------------------------------
(* What one thread does to the job in its hands the main thread's steps of *)
(* making the next one do not depend on.                                   *)
LEMMA MakerRunJob ==
  ASSUME TypeOK, MakerInv, NEW p \in Threads, RunJob(p)
  PROVE  MakerInv'
<1>1. UNCHANGED <<making, grouping, grouped>>
  BY DEF RunJob, CheckReady, DropUnready, Start, Finish, GroupDecrement, GroupClamp, BeginFree,
         EndFree, ActiveDecrement, ActiveClamp, jobVars, mainVars
<1>2. \A j \in Jobs : state'[j] = "unknown" => state[j] = "unknown"
  BY DEF TypeOK, RunJob, CheckReady, DropUnready, Start, Finish, GroupDecrement, GroupClamp,
         BeginFree, EndFree, ActiveDecrement, ActiveClamp, jobVars
<1>3. /\ pc[p] \notin OwnersOwn
      /\ \/ pc'[p] \notin OwnersOwn
         \/ pc'[p] = "wait"
      /\ \A q \in Threads : q # p => pc'[q] = pc[q]
  BY DEF TypeOK, RunJob, CheckReady, DropUnready, Start, Finish, GroupDecrement, GroupClamp,
         BeginFree, EndFree, ActiveDecrement, ActiveClamp, Goto, Home, OwnersOwn
<1>4. Owner \in Threads
  BY DEF Threads
<1>5. InPool' \subseteq InPool
  BY DEF TypeOK, InPool, RunJob, CheckReady, DropUnready, Start, Finish, GroupDecrement,
         GroupClamp, BeginFree, List, EndFree, ActiveDecrement, ActiveClamp, jobVars
<1> QED BY <1>1, <1>2, <1>3, <1>4, <1>5 DEF MakerInv, OwnersOwn

(* The main thread stores the block's group and pushes it in this order.   *)
LEMMA MakerStep == ASSUME TypeOK, MakerInv, [Next]_vars PROVE MakerInv'
<1> USE DEF TypeOK, MakerInv, Goto, jobVars, mainVars
<1>a. /\ Owner \in Threads /\ Null \notin Jobs
      /\ \A p \in Thieves : p \in Threads /\ p # Owner
  BY RingAssumption DEF Threads
<1>1. CASE UNCHANGED vars
  BY <1>1 DEF vars, InPool
<1>2. ASSUME GroupRun \/ Run PROVE MakerInv'
  BY <1>2, <1>a DEF GroupRun, Run, BeginRun
<1>3. ASSUME NEW j \in Jobs, MakeReady(j) PROVE MakerInv'
  <2>1. PICK back : Allocate(j, back) /\ pc[Owner] \in {"make", "reclaim"}
    BY <1>3 DEF MakeReady
  <2> QED BY <2>1, <1>a DEF Allocate
<1>b. UNCHANGED place => UNCHANGED InPool
  BY DEF InPool
<1>11. CASE BeginReclaim
  BY <1>11, <1>a, <1>b DEF BeginReclaim
<1>12. CASE PushOverwrites \/ PushPublishes
  BY <1>12, <1>a DEF PushOverwrites, PushPublishes
<1>4. CASE MakeFails
  BY <1>4, <1>a DEF MakeFails
<1>5. CASE ClearGroup
  BY <1>5, <1>a DEF ClearGroup
<1>6. CASE SetGroup
  BY <1>6, <1>a DEF SetGroup
<1>7. CASE ScheduleActive
  BY <1>7, <1>a DEF ScheduleActive
<1>8. CASE SchedulePush
  BY <1>8, <1>a DEF SchedulePush
<1>9. ASSUME WaitForAll \/ (\E j \in Jobs : WaitForJob(j)) \/ WaitReturns \/ WaitHelps
             \/ PopJob \/ PopNothing
      PROVE  MakerInv'
  BY <1>9, <1>a DEF WaitForAll, WaitForJob, Wait, WaitReturns, WaitHelps, PopJob, PopNothing
<1>10. ASSUME NEW p \in Thieves, Steals(p) PROVE MakerInv'
  BY <1>10, <1>a, <1>b DEF Steals, StealJob, StealOverwritten
<1> QED
  BY <1>1, <1>2, <1>3, <1>4, <1>5, <1>6, <1>7, <1>8, <1>9, <1>10, <1>11, <1>12, <1>a, MakerRunJob
     DEF Steals, Next, UserStep, OwnerStep

--------------------------------------------------------------------------------
(* The threads hold the same jobs before and after a step.                 *)
SameHands ==
  \A q \in Threads, j \in Jobs :
    /\ Holds(q, j)' <=> Holds(q, j)
    /\ Holds(q, j) => (pc'[q] = "running" <=> pc[q] = "running")

(* The steps of a thread but for those that start, finish and give back.   *)
Elsewhere(p) ==
  \/ CheckReady(p) \/ DropUnready(p) \/ GroupDecrement(p) \/ GroupClamp(p)
  \/ EndFree(p) \/ ActiveDecrement(p) \/ ActiveClamp(p)

OwnerElsewhere ==
  \/ GroupRun \/ Run \/ WaitForAll \/ (\E j \in Jobs : WaitForJob(j))
  \/ (\E j \in Jobs : MakeReady(j)) \/ BeginReclaim \/ MakeFails \/ ClearGroup \/ SetGroup
  \/ ScheduleActive \/ SchedulePush \/ PushOverwrites \/ PushPublishes
  \/ WaitReturns \/ WaitHelps \/ PopJob \/ PopNothing

(* Most of them leave every thread where it is with the job it holds.       *)
HandsUntouched ==
  \A q \in Threads, j \in Jobs :
    /\ Holds(q, j)' <=> Holds(q, j)
    /\ Holds(q, j) => pc'[q] = pc[q]

LEMMA HandsStay ==
  ASSUME TypeOK,
         \/ OwnerElsewhere
         \/ \E p \in Thieves : Steals(p)
         \/ \E p \in Threads : \/ CheckReady(p) \/ DropUnready(p)
                              \/ EndFree(p) \/ ActiveDecrement(p) \/ ActiveClamp(p)
  PROVE  HandsUntouched
<1>a. /\ Owner \in Threads
      /\ \A p \in Thieves : p \in Threads
  BY DEF Threads
<1>1. ASSUME NEW p \in Threads,
             pc[p] \notin Holding, pc'[p] \notin Holding,
             \A q \in Threads : q # p => pc'[q] = pc[q] /\ got'[q] = got[q]
      PROVE  HandsUntouched
  BY <1>1 DEF HandsUntouched, Holds, Holding
<1>3. CASE OwnerElsewhere
  <2>1. pc[Owner] \in OwnersOwn /\ pc'[Owner] \in OwnersOwn \cup {"check"}
    BY <1>3, <1>a DEF OwnerElsewhere, TypeOK, GroupRun, Run, BeginRun, WaitForAll, WaitForJob,
       Wait, MakeReady, Allocate, BeginReclaim, MakeFails, ClearGroup, SetGroup, ScheduleActive,
       SchedulePush, PushOverwrites, PushPublishes, WaitReturns, WaitHelps, PopJob, PopNothing,
       Goto, OwnersOwn
  <2>2. \A q \in Threads : q # Owner => pc'[q] = pc[q]
    BY <1>3, <1>a DEF OwnerElsewhere, TypeOK, GroupRun, Run, BeginRun, WaitForAll, WaitForJob,
       Wait, MakeReady, Allocate, BeginReclaim, MakeFails, ClearGroup, SetGroup, ScheduleActive,
       SchedulePush, PushOverwrites, PushPublishes, WaitReturns, WaitHelps, PopJob, PopNothing, Goto
  <2>3. \A q \in Threads : q # Owner => got'[q] = got[q]
    BY <1>3, <1>a DEF OwnerElsewhere, TypeOK, GroupRun, Run, BeginRun, WaitForAll, WaitForJob,
       Wait, MakeReady, Allocate, BeginReclaim, MakeFails, ClearGroup, SetGroup, ScheduleActive,
       SchedulePush, PushOverwrites, PushPublishes, WaitReturns, WaitHelps, PopJob, PopNothing,
       queueVars, Push, PopNewest, TakeOldest, Phantom
  <2> QED BY <1>1, <1>a, <2>1, <2>2, <2>3 DEF OwnersOwn, Holding
<1>4. ASSUME NEW p \in Thieves, Steals(p) PROVE HandsUntouched
  <2>1. pc[p] = "idle" /\ pc' = [pc EXCEPT ![p] = "check"]
        /\ \E c : got' = [got EXCEPT ![p] = c]
    BY <1>4 DEF Steals, StealJob, StealOverwritten, Steal, TakeOldest, Goto
  <2> QED BY <1>1, <2>1, <1>a DEF TypeOK, Holding
<1>5. ASSUME NEW p \in Threads,
             \/ CheckReady(p) \/ DropUnready(p)
             \/ EndFree(p) \/ ActiveDecrement(p) \/ ActiveClamp(p)
      PROVE  HandsUntouched
  BY <1>1, <1>5 DEF TypeOK, CheckReady, DropUnready, EndFree, ActiveDecrement, ActiveClamp,
     Begin, Goto, Home, Holding, queueVars
<1> QED BY <1>3, <1>4, <1>5, <1>a

(* A thread that tells the group stays with its job, too.                  *)
LEMMA HandsElsewhere ==
  ASSUME TypeOK,
         OwnerElsewhere \/ (\E p \in Thieves : Steals(p)) \/ (\E p \in Threads : Elsewhere(p))
  PROVE  SameHands
<1>1. ASSUME NEW p \in Threads,
             pc[p] \in {"finished", "group_clamp"}, pc'[p] \in Holding \ {"running"},
             got' = got,
             \A q \in Threads : q # p => pc'[q] = pc[q]
      PROVE  SameHands
  BY <1>1 DEF SameHands, Holds, Holding
<1>2. ASSUME NEW p \in Threads, GroupDecrement(p) \/ GroupClamp(p) PROVE SameHands
  BY <1>1, <1>2 DEF TypeOK, GroupDecrement, GroupClamp, Goto, Holding, queueVars
<1>3. HandsUntouched => SameHands
  BY DEF HandsUntouched, SameHands
<1> QED BY <1>2, <1>3, HandsStay DEF Elsewhere

(* However much of the free list the allocator gets back, a block that is  *)
(* out stays out, and the one handed out was not.                          *)
LEMMA MakesOne ==
  ASSUME TypeOK, NEW j \in Jobs, MakeReady(j)
  PROVE  /\ place[j] # "out" /\ place'[j] = "out" /\ state'[j] = "ready"
         /\ \A k \in Jobs : k # j => /\ state'[k] = state[k]
                                   /\ (place'[k] = "out" <=> place[k] = "out")
         /\ making' = j /\ pc[Owner] \in {"make", "reclaim"}
         /\ pc' = [pc EXCEPT ![Owner] = "clear_group"]
         /\ UNCHANGED <<queueVars, ringVars, grouped, early, doubled, overlapped, grouping,
                        waiting, made, job_count, active>>
<1>1. PICK back : Allocate(j, back) /\ back \subseteq Listed
  BY DEF MakeReady, FreeAll
<1>2. pc[Owner] \in {"make", "reclaim"}
  BY DEF MakeReady
<1>3. /\ place' = [k \in Jobs |-> IF k = j THEN "out" ELSE IF k \in back THEN "pool" ELSE place[k]]
      /\ state' = [state EXCEPT ![j] = "ready"] /\ j \in InPool \cup back
  BY <1>1 DEF Allocate
<1>4. /\ place[j] # "out" /\ place'[j] = "out" /\ state'[j] = "ready"
      /\ \A k \in Jobs : k # j => /\ state'[k] = state[k]
                                /\ (place'[k] = "out" <=> place[k] = "out")
  BY <1>1, <1>3 DEF TypeOK, InPool, Listed
<1> QED BY <1>1, <1>2, <1>4 DEF Allocate, Goto

(* Every step leaves each block free, ready or in one thread's hands.      *)
LEMMA BlocksStep == ASSUME TypeOK, MakerInv, BlocksInv, [Next]_vars PROVE BlocksInv'
<1>a. /\ Owner \in Threads
      /\ \A p \in Thieves : p \in Threads
  BY DEF Threads
<1>1. CASE UNCHANGED vars
  BY <1>1 DEF vars, jobVars, queueVars, BlocksInv, Holds
<1>2. ASSUME SameHands, UNCHANGED <<state, place, doubled>> PROVE BlocksInv'
  BY <1>2 DEF SameHands, BlocksInv
<1>3. ASSUME NEW j \in Jobs, MakeReady(j) PROVE BlocksInv'
  <2>1. SameHands
    BY <1>3, HandsElsewhere DEF OwnerElsewhere
  <2>2. /\ place[j] # "out"
        /\ \A k \in Jobs : k # j => state'[k] = state[k] /\ (place'[k] = "out" <=> place[k] = "out")
        /\ place'[j] = "out" /\ state'[j] = "ready" /\ doubled' = doubled
    BY <1>3, MakesOne
  <2> QED BY <2>1, <2>2 DEF SameHands, BlocksInv
<1>4. ASSUME OwnerElsewhere, ~\E j \in Jobs : MakeReady(j) PROVE BlocksInv'
  <2>1. UNCHANGED <<state, place, doubled>>
    BY <1>4 DEF OwnerElsewhere, GroupRun, Run, BeginRun, WaitForAll, WaitForJob, Wait,
       BeginReclaim, MakeFails, ClearGroup, SetGroup, ScheduleActive, SchedulePush,
       PushOverwrites, PushPublishes, WaitReturns, WaitHelps, PopJob, PopNothing, jobVars
  <2> QED BY <1>2, <1>4, <2>1, HandsElsewhere
<1>5. ASSUME NEW p \in Thieves, Steals(p) PROVE BlocksInv'
  BY <1>2, <1>5, HandsElsewhere DEF Steals, StealJob, StealOverwritten, jobVars
<1>6. ASSUME NEW p \in Threads, Elsewhere(p) PROVE BlocksInv'
  <2>1. UNCHANGED <<state, place, doubled>>
    BY <1>6 DEF Elsewhere, CheckReady, DropUnready, GroupDecrement, GroupClamp,
       EndFree, ActiveDecrement, ActiveClamp, jobVars
  <2> QED BY <1>2, <1>6, <2>1, HandsElsewhere
<1>7. ASSUME NEW p \in Threads, Start(p) PROVE BlocksInv'
  <2> SUFFICES ASSUME ~doubled' PROVE BlocksInv'
    BY DEF BlocksInv
  <2>1. PICK j \in Jobs : got[p] = <<j>> /\ state' = [state EXCEPT ![j] = "running"]
                          /\ doubled' = (doubled \/ state[j] # "ready")
    BY <1>7 DEF Start
  <2>2. ~doubled /\ state[j] = "ready" /\ state'[j] = "running" /\ place' = place
    BY <1>7, <2>1 DEF Start, TypeOK
  <2>3. \A k \in Jobs : k # j => state'[k] = state[k]
    BY <2>1 DEF TypeOK
  <2>4. /\ pc[p] = "start" /\ pc'[p] = "running" /\ got' = got
        /\ \A q \in Threads : q # p => pc'[q] = pc[q]
    BY <1>7 DEF Start, Goto, TypeOK, queueVars
  <2>5. \A q \in Threads, k \in Jobs :
          /\ Holds(q, k)' <=> Holds(q, k) \/ (q = p /\ k = j)
          /\ ~Holds(p, k)
    BY <2>1, <2>4 DEF Holds
  <2>6. place[j] = "out" /\ \A q \in Threads : ~Holds(q, j)
    BY <2>2 DEF BlocksInv, TypeOK
  <2>7. ASSUME NEW k \in Jobs
        PROVE  /\ place'[k] # "out" => state'[k] \in {"unknown", "completed"}
                                        /\ \A q \in Threads : ~Holds(q, k)'
               /\ place'[k] = "out" => state'[k] = "ready" \/ \E q \in Threads : Holds(q, k)'
    BY <2>2, <2>3, <2>5, <2>6 DEF BlocksInv
  <2>8. ASSUME NEW k \in Jobs, NEW q \in Threads, Holds(q, k)'
        PROVE  state'[k] = IF pc'[q] = "running" THEN "running" ELSE "completed"
    BY <2>2, <2>3, <2>4, <2>5, <2>6, <2>8 DEF BlocksInv
  <2>9. ASSUME NEW k \in Jobs, NEW q \in Threads, NEW r \in Threads, Holds(q, k)', Holds(r, k)'
        PROVE  q = r
    BY <2>2, <2>5, <2>6, <2>9 DEF BlocksInv
  <2> QED BY <2>7, <2>8, <2>9 DEF BlocksInv
<1>8. ASSUME NEW p \in Threads, Finish(p) PROVE BlocksInv'
  <2> SUFFICES ASSUME ~doubled PROVE BlocksInv'
    BY <1>8 DEF BlocksInv, Finish
  <2>1. PICK j \in Jobs : got[p] = <<j>> /\ state' = [state EXCEPT ![j] = "completed"]
    BY <1>8 DEF Finish
  <2>2. /\ pc[p] = "running" /\ pc'[p] = "finished" /\ got' = got /\ place' = place
        /\ \A q \in Threads : q # p => pc'[q] = pc[q]
    BY <1>8 DEF Finish, Goto, TypeOK, queueVars
  <2>3. \A q \in Threads, k \in Jobs : Holds(q, k)' <=> Holds(q, k)
    BY <2>2 DEF Holds
  <2>4. /\ \A k \in Jobs : k # j => state'[k] = state[k] /\ ~Holds(p, k)
        /\ Holds(p, j) /\ state'[j] = "completed"
    BY <2>1, <2>2 DEF TypeOK, Holds
  <2> QED BY <2>2, <2>3, <2>4 DEF BlocksInv
<1>9. ASSUME NEW p \in Threads, BeginFree(p) PROVE BlocksInv'
  <2> SUFFICES ASSUME ~doubled PROVE BlocksInv'
    BY <1>9 DEF BlocksInv, BeginFree
  <2>1. PICK j \in Jobs : got[p] = <<j>> /\ place' = [place EXCEPT ![j] = "listed"]
    BY <1>9 DEF BeginFree, List
  <2>2. /\ pc[p] \in {"free", "finished"} /\ pc'[p] = "freeing" /\ got' = got
        /\ state' = state /\ \A q \in Threads : q # p => pc'[q] = pc[q]
    BY <1>9 DEF BeginFree, Goto, TypeOK, queueVars
  <2>3. /\ \A q \in Threads, k \in Jobs : Holds(q, k)' <=> Holds(q, k) /\ q # p
        /\ Holds(p, j) /\ \A k \in Jobs : k # j => ~Holds(p, k)
    BY <2>1, <2>2 DEF Holds
  <2>4. /\ place'[j] = "listed" /\ state[j] = "completed"
        /\ \A q \in Threads : ~Holds(q, j)'
        /\ \A k \in Jobs : k # j => place'[k] = place[k]
    BY <2>1, <2>2, <2>3 DEF TypeOK, BlocksInv
  <2> QED BY <2>2, <2>3, <2>4 DEF BlocksInv
<1> QED
  BY <1>1, <1>3, <1>4, <1>5, <1>6, <1>7, <1>8, <1>9, <1>a
     DEF Next, UserStep, OwnerStep, OwnerElsewhere, RunJob, Elsewhere, Steals

(* Nothing is out, held or being made in the beginning.                    *)
LEMMA BlocksInit == Init => MakerInv /\ BlocksInv
<1> SUFFICES ASSUME Init PROVE MakerInv /\ BlocksInv
  OBVIOUS
<1>1. Owner \in Threads /\ Null \notin Jobs
  BY RingAssumption DEF Threads
<1>2. MakerInv
  BY <1>1 DEF Init, MakerInv
<1>3. ASSUME NEW p \in Threads, NEW j \in Jobs PROVE ~Holds(p, j)
  <2>1. pc[p] = "user" \/ pc[p] = "idle"
    BY DEF Init
  <2> QED BY <2>1 DEF Holds
<1>4. ASSUME NEW j \in Jobs PROVE place[j] # "out"
  BY DEF Init
<1>6. ASSUME NEW j \in Jobs PROVE state[j] \in {"unknown", "completed"}
  BY DEF Init
<1>5. BlocksInv
  BY <1>3, <1>4, <1>6, Zenon DEF BlocksInv
<1> QED BY <1>2, <1>5

LEMMA BlocksInvariant == Spec => [](TypeOK /\ MakerInv /\ BlocksInv)
BY TypeInit, TypeStep, BlocksInit, MakerStep, BlocksStep, PTL DEF Spec

(* A block goes back to the allocator, to be handed out again, only after  *)
(* its job has been completed and its thread has let go of it.             *)
THEOREM RecyclesOnlyDone == Spec => []RecycledOnlyWhenDone
<1>1. BlocksInv => RecycledOnlyWhenDone
  BY DEF BlocksInv, RecycledOnlyWhenDone
<1> QED BY <1>1, BlocksInvariant, PTL

(* make_job returns nullptr only when every block is in use, until two     *)
(* calls on the free list have overlapped.                                 *)
THEOREM FailsOnlyInUse == Spec => FailsOnlyWhenInUse
<1>1. ASSUME TypeOK, MakerInv, BlocksInv, MakeFails, ~doubled, ~overlapped, NEW j \in Jobs
      PROVE  state[j] = "ready" \/ \E p \in Threads : Holds(p, j)
  <2>1. Listed = {} /\ InPool = {}
    BY <1>1 DEF MakeFails, FreeAll, MakerInv
  <2>2. place[j] = "out"
    BY <1>1, <2>1 DEF Listed, InPool, TypeOK
  <2> QED BY <1>1, <2>2 DEF BlocksInv
<1>2. TypeOK /\ MakerInv /\ BlocksInv =>
        [MakeFails /\ ~doubled /\ ~overlapped =>
           \A j \in Jobs : state[j] = "ready" \/ \E p \in Threads : Holds(p, j)]_vars
  BY <1>1
<1> QED BY <1>2, BlocksInvariant, PTL DEF FailsOnlyWhenInUse

--------------------------------------------------------------------------------
(* The jobs the group waits for, and the job that run is about to make.    *)
Working(p, j) == Holds(p, j) /\ pc[p] \in {"running", "finished"}
Pending ==
  {j \in Jobs :
     /\ grouped[j] /\ ~(making = j /\ pc[Owner] = "clear_group")
     /\ state[j] = "ready" \/ \E p \in Threads : Working(p, j)}
Opening == IF grouping THEN 1 ELSE 0

(* The jobs that active_jobs_ counts, the threads that have given theirs   *)
(* back and are still counted, and the job about to be counted.            *)
Uncounted == {"clear_group", "set_group", "schedule"}
Live == {j \in Jobs : place[j] = "out" /\ ~(making = j /\ pc[Owner] \in Uncounted)}
Leaving == {p \in Threads : pc[p] \in {"freeing", "active_decrement"}}
Coming == IF pc[Owner] \in Uncounted \cup {"make", "reclaim"} THEN 1 ELSE 0

Honest == ~early /\ ~doubled

(* What the exact count rests on: nobody runs a job that is being made, no *)
(* decrement wraps, and the counters stay within what was made.            *)
Orderly ==
  /\ making \in Jobs => state[making] = "ready"
  /\ \A p \in Threads : pc[p] \notin {"group_clamp", "active_clamp"}

CountInv ==
  Honest =>
    /\ Orderly
    /\ job_count = Cardinality(Pending) + Opening /\ job_count <= made
    /\ active = Cardinality(Live) + Cardinality(Leaving) /\ active + Coming <= made

Inv == TypeOK /\ MakerInv /\ BlocksInv /\ CountInv

(* All of these sets are finite.                                           *)
LEMMA CountsAreNat ==
  /\ IsFiniteSet(Pending) /\ IsFiniteSet(Live) /\ IsFiniteSet(Leaving)
  /\ Cardinality(Pending) \in Nat /\ Cardinality(Live) \in Nat /\ Cardinality(Leaving) \in Nat
<1>1. IsFiniteSet(Jobs) /\ IsFiniteSet(Threads)
  BY GroupAssumption, FS_AddElement DEF Threads
<1>2. IsFiniteSet(Pending) /\ IsFiniteSet(Live) /\ IsFiniteSet(Leaving)
  BY <1>1, FS_Subset DEF Pending, Live, Leaving
<1> QED BY <1>2, FS_CardinalityType

(* Ranges of the counters and of what they are compared with.              *)
LEMMA CountTypes ==
  ASSUME TypeOK
  PROVE  /\ made \in Nat /\ made <= MaxMakes /\ MaxMakes \in Nat
         /\ CounterModulus \in Nat /\ CounterModulus > MaxMakes + 1
         /\ job_count \in Nat /\ active \in Nat /\ Opening \in 0 .. 1 /\ Coming \in 0 .. 1
BY GroupAssumption DEF TypeOK, Opening, Coming

(* The same after a step.                                                  *)
LEMMA MadeType ==
  ASSUME TypeOK'
  PROVE  made' \in Nat /\ made' <= MaxMakes /\ Coming' \in 0 .. 1 /\ Opening' \in 0 .. 1
BY GroupAssumption DEF TypeOK, Opening, Coming

(* A step that changes neither the counters nor what they count.           *)
LEMMA CountQuiet ==
  ASSUME Inv, TypeOK', Honest, Orderly',
         Pending' = Pending, Live' = Live, Leaving' = Leaving,
         UNCHANGED <<job_count, active, made>>, Opening' = Opening, Coming' <= Coming
  PROVE  CountInv'
<1>1. active' + Coming' <= made'
  BY CountTypes, MadeType DEF Inv, CountInv
<1> QED BY <1>1 DEF Inv, CountInv

--------------------------------------------------------------------------------
(* The steps of making a job keep both counts.                             *)
LEMMA BeginCount == ASSUME Inv, TypeOK', Honest, GroupRun \/ Run PROVE CountInv'
<1> USE DEF GroupRun, Run, BeginRun
<1>a. Owner \in Threads
  BY DEF Threads
<1>1. HandsUntouched
  BY HandsStay DEF Inv, OwnerElsewhere
<1>2. /\ pc[Owner] = "user" /\ pc'[Owner] = "make"
      /\ \A p \in Threads : p # Owner => pc'[p] = pc[p]
      /\ UNCHANGED <<state, grouped, place, early, doubled, making, active>>
  BY <1>a DEF Inv, TypeOK, Goto, jobVars
<1>3. Orderly'
  BY <1>2 DEF Inv, CountInv, Orderly
<1>4. Pending' = Pending /\ Live' = Live /\ Leaving' = Leaving
  BY <1>1, <1>2 DEF HandsUntouched, Pending, Working, Live, Leaving, Uncounted
<1>5. made' = made + 1 /\ Coming = 0 /\ Coming' = 1 /\ Opening = 0
  BY <1>2 DEF Coming, Uncounted, Opening, Inv, MakerInv
<1>6. \/ job_count' = Increment(job_count) /\ Opening' = 1
      \/ job_count' = job_count /\ Opening' = 0
  BY DEF Opening
<1>7. job_count <= made /\ made + 1 <= MaxMakes
  BY CountTypes, MadeType, <1>5 DEF Inv, CountInv
<1>8. Increment(job_count) = job_count + 1
  BY <1>7, CountTypes DEF Inv, Increment
<1>9. job_count' = Cardinality(Pending') + Opening' /\ job_count' <= made'
  BY <1>4, <1>5, <1>6, <1>7, <1>8, CountTypes, CountsAreNat DEF Inv, CountInv
<1>10. active' + Coming' <= made'
  BY <1>2, <1>5, CountTypes DEF Inv, CountInv
<1> QED BY <1>2, <1>3, <1>4, <1>9, <1>10 DEF Inv, CountInv

LEMMA MakeCount ==
  ASSUME Inv, TypeOK', Honest, NEW j \in Jobs, MakeReady(j)
  PROVE  CountInv'
<1>a. Owner \in Threads
  BY DEF Threads
<1>1. HandsUntouched
  BY HandsStay DEF Inv, OwnerElsewhere
<1>2. /\ pc[Owner] \in {"make", "reclaim"} /\ pc'[Owner] = "clear_group"
      /\ \A p \in Threads : p # Owner => pc'[p] = pc[p]
      /\ UNCHANGED <<grouped, early, doubled, grouping, made, job_count, active>>
      /\ making' = j /\ state'[j] = "ready" /\ place[j] # "out" /\ place'[j] = "out"
      /\ \A k \in Jobs : k # j => state'[k] = state[k] /\ (place'[k] = "out" <=> place[k] = "out")
  BY <1>a, MakesOne DEF Inv, TypeOK
<1>3. Orderly'
  BY <1>2 DEF Inv, CountInv, Orderly
<1>4. state[j] # "ready" /\ \A p \in Threads : ~Holds(p, j)
  BY <1>2 DEF Inv, BlocksInv, Honest
<1>5. Pending' = Pending
  <2>1. ASSUME NEW k \in Jobs, k # j PROVE k \in Pending' <=> k \in Pending
    BY <1>1, <1>2, <2>1 DEF HandsUntouched, Pending, Working
  <2>2. j \notin Pending
    BY <1>4 DEF Pending, Working
  <2>3. j \notin Pending'
    BY <1>2 DEF Pending
  <2> QED BY <2>1, <2>2, <2>3 DEF Pending
<1>6. Live' = Live /\ Leaving' = Leaving
  BY <1>2 DEF Live, Leaving, Uncounted
<1> QED BY <1>2, <1>3, <1>5, <1>6, CountQuiet DEF Opening, Coming, Uncounted

LEMMA MakerQuietCount ==
  ASSUME Inv, TypeOK', Honest,
         \/ BeginReclaim \/ MakeFails \/ ClearGroup
         \/ SchedulePush \/ PushOverwrites \/ PushPublishes
  PROVE  CountInv'
<1> USE DEF BeginReclaim, MakeFails, ClearGroup, SchedulePush, PushOverwrites, PushPublishes
<1>a. Owner \in Threads /\ Null \notin Jobs
  BY RingAssumption DEF Threads
<1>1. HandsUntouched
  BY HandsStay DEF Inv, OwnerElsewhere
<1>2. /\ \/ pc[Owner] = "make" /\ pc'[Owner] = "reclaim" /\ making' = making
            /\ making \notin Jobs /\ grouped' = grouped
         \/ pc[Owner] = "reclaim" /\ pc'[Owner] \in {"user", "crashed"} /\ making' = making
            /\ making \notin Jobs /\ grouped' = grouped
         \/ pc[Owner] = "clear_group" /\ pc'[Owner] \in {"set_group", "schedule"}
            /\ making' = making /\ making \in Jobs /\ grouped' = [grouped EXCEPT ![making] = FALSE]
         \/ pc[Owner] = "push" /\ pc'[Owner] = "publish" /\ making' = making /\ making \in Jobs
            /\ grouped' = grouped
         \/ pc[Owner] \in {"push", "publish"} /\ pc'[Owner] = "user" /\ making' = Null
            /\ grouped' = grouped
      /\ \A p \in Threads : p # Owner => pc'[p] = pc[p]
      /\ UNCHANGED <<state, place, early, doubled, grouping, made, job_count, active>>
  BY <1>a DEF Inv, TypeOK, MakerInv, Goto, jobVars, mainVars
<1>3. Orderly'
  BY <1>2, <1>a DEF Inv, CountInv, Orderly
<1>4. Pending' = Pending
  BY <1>1, <1>2, <1>a DEF HandsUntouched, Pending, Working, Inv, TypeOK
<1>5. Live' = Live /\ Leaving' = Leaving
  BY <1>2, <1>a DEF Live, Leaving, Uncounted
<1> QED BY <1>2, <1>3, <1>4, <1>5, CountQuiet DEF Opening, Coming, Uncounted

LEMMA SetGroupCount == ASSUME Inv, TypeOK', Honest, SetGroup PROVE CountInv'
<1> USE DEF SetGroup
<1>a. Owner \in Threads
  BY DEF Threads
<1>1. HandsUntouched
  BY HandsStay DEF Inv, OwnerElsewhere
<1>2. /\ pc[Owner] = "set_group" /\ pc'[Owner] = "schedule"
      /\ \A p \in Threads : p # Owner => pc'[p] = pc[p]
      /\ making \in Jobs /\ grouping /\ ~grouping' /\ ~grouped[making]
      /\ grouped' = [grouped EXCEPT ![making] = TRUE]
      /\ UNCHANGED <<state, place, early, doubled, making, made, job_count, active>>
  BY <1>a DEF Inv, TypeOK, MakerInv, Goto
<1>3. Orderly' /\ state[making] = "ready"
  BY <1>2 DEF Inv, CountInv, Orderly
<1>4. Pending' = Pending \cup {making} /\ making \notin Pending
  <2>1. ASSUME NEW k \in Jobs, k # making PROVE k \in Pending' <=> k \in Pending
    <3>1. grouped'[k] = grouped[k]
      BY <1>2, <2>1 DEF Inv, TypeOK
    <3> QED BY <1>1, <1>2, <2>1, <3>1 DEF HandsUntouched, Pending, Working
  <2>2. making \notin Pending
    BY <1>2 DEF Pending
  <2>3. making \in Pending'
    <3>1. grouped'[making]
      BY <1>2 DEF Inv, TypeOK
    <3> QED BY <1>2, <1>3, <3>1 DEF Pending
  <2> QED BY <1>2, <2>1, <2>2, <2>3 DEF Pending
<1>5. Cardinality(Pending') = Cardinality(Pending) + 1
  BY <1>4, CountsAreNat, FS_AddElement
<1>6. Live' = Live /\ Leaving' = Leaving
  BY <1>2 DEF Live, Leaving, Uncounted
<1>7. Opening = 1 /\ Opening' = 0 /\ Coming' = Coming
  BY <1>2 DEF Opening, Coming, Uncounted
<1>8. job_count' = Cardinality(Pending') + Opening'
  BY <1>2, <1>5, <1>7, CountsAreNat DEF Inv, CountInv
<1> QED BY <1>2, <1>3, <1>6, <1>7, <1>8 DEF Inv, CountInv

LEMMA ScheduleCount == ASSUME Inv, TypeOK', Honest, ScheduleActive PROVE CountInv'
<1> USE DEF ScheduleActive
<1>a. Owner \in Threads
  BY DEF Threads
<1>1. HandsUntouched
  BY HandsStay DEF Inv, OwnerElsewhere
<1>2. /\ pc[Owner] = "schedule" /\ pc'[Owner] = "push" /\ making \in Jobs
      /\ \A p \in Threads : p # Owner => pc'[p] = pc[p]
      /\ UNCHANGED <<state, grouped, place, early, doubled, making, grouping, made, job_count>>
  BY <1>a DEF Inv, TypeOK, MakerInv, Goto, jobVars, mainVars
<1>3. Orderly' /\ state[making] = "ready"
  BY <1>2 DEF Inv, CountInv, Orderly
<1>4. Pending' = Pending /\ Leaving' = Leaving
  BY <1>1, <1>2 DEF HandsUntouched, Pending, Working, Leaving
<1>5. place[making] = "out"
  BY <1>2, <1>3 DEF Inv, BlocksInv, Honest
<1>6. Live' = Live \cup {making} /\ making \notin Live
  BY <1>2, <1>5 DEF Live, Uncounted
<1>7. Cardinality(Live') = Cardinality(Live) + 1
  BY <1>6, CountsAreNat, FS_AddElement
<1>8. Coming = 1 /\ Coming' = 0 /\ Opening' = Opening
  BY <1>2 DEF Opening, Coming, Uncounted
<1>9. active + 1 <= made /\ active = Cardinality(Live) + Cardinality(Leaving)
  BY <1>8 DEF Inv, CountInv
<1>10. active' = active + 1
  BY <1>9, CountTypes DEF Inv, Increment
<1>11. /\ active' = Cardinality(Live') + Cardinality(Leaving')
       /\ active' + Coming' <= made'
  BY <1>2, <1>4, <1>7, <1>8, <1>9, <1>10, CountTypes, CountsAreNat DEF Inv
<1> QED BY <1>2, <1>3, <1>4, <1>8, <1>11 DEF Inv, CountInv

--------------------------------------------------------------------------------
(* So do waiting, taking jobs and running them.                            *)
LEMMA TakeCount ==
  ASSUME Inv, TypeOK', Honest,
         \/ WaitForAll \/ (\E j \in Jobs : WaitForJob(j)) \/ WaitReturns \/ WaitHelps
         \/ PopJob \/ PopNothing
         \/ \E p \in Thieves : Steals(p)
         \/ \E p \in Threads : CheckReady(p) \/ DropUnready(p)
  PROVE  CountInv'
<1> USE DEF WaitForAll, WaitForJob, Wait, WaitReturns, WaitHelps, PopJob, PopNothing, Steals,
        StealJob, StealOverwritten, CheckReady, DropUnready
<1> DEFINE Quiet == {"user", "wait", "pop", "idle", "check", "start"}
<1>a. Owner \in Threads /\ \A p \in Thieves : p \in Threads
  BY DEF Threads
<1>1. HandsUntouched
  BY HandsStay DEF Inv, OwnerElsewhere
<1>2. /\ \A p \in Threads : pc'[p] # pc[p] => pc[p] \in Quiet /\ pc'[p] \in Quiet
      /\ UNCHANGED <<state, grouped, place, early, doubled, making, grouping, made, job_count,
                     active>>
  BY <1>a DEF Inv, TypeOK, Goto, Home, jobVars, mainVars
<1>3. Orderly'
  BY <1>2 DEF Inv, CountInv, Orderly
<1>4. Pending' = Pending
  BY <1>1, <1>2, <1>a DEF HandsUntouched, Pending, Working
<1>5. Live' = Live /\ Leaving' = Leaving /\ Coming' = Coming
  BY <1>2, <1>a DEF Live, Leaving, Uncounted, Coming
<1> QED BY <1>2, <1>3, <1>4, <1>5, CountQuiet, CountTypes, MadeType DEF Opening, Inv

LEMMA StartCount ==
  ASSUME Inv, TypeOK', Honest', NEW p \in Threads, Start(p)
  PROVE  CountInv'
<1>a. Owner \in Threads
  BY DEF Threads
<1>1. PICK j \in Jobs : /\ got[p] = <<j>> /\ state' = [state EXCEPT ![j] = "running"]
                        /\ early' = (early \/ j = making)
                        /\ doubled' = (doubled \/ state[j] # "ready")
  BY DEF Start
<1>2. /\ pc[p] = "start" /\ pc'[p] = "running"
      /\ \A q \in Threads : q # p => pc'[q] = pc[q]
      /\ UNCHANGED <<got, grouped, place, making, grouping, made, job_count, active>>
  BY DEF Start, Inv, TypeOK, Goto, queueVars, mainVars
<1>3. Honest /\ j # making /\ state[j] = "ready" /\ state'[j] = "running"
      /\ \A k \in Jobs : k # j => state'[k] = state[k]
  BY <1>1 DEF Honest, Inv, TypeOK
<1>4. \A q \in Threads, k \in Jobs :
        /\ Working(q, k)' <=> Working(q, k) \/ (q = p /\ k = j)
        /\ ~Working(p, k)
  BY <1>1, <1>2 DEF Working, Holds
<1>5. Orderly'
  BY <1>2, <1>3 DEF Inv, CountInv, Orderly
<1>6. Pending' = Pending
  <2>1. ASSUME NEW k \in Jobs, k # j PROVE k \in Pending' <=> k \in Pending
    BY <1>2, <1>3, <1>4, <1>a, <2>1 DEF Pending
  <2>2. /\ j \in Pending' <=> grouped[j]
        /\ j \in Pending <=> grouped[j]
    BY <1>2, <1>3, <1>4 DEF Pending
  <2> QED BY <2>1, <2>2 DEF Pending
<1>7. Live' = Live /\ Leaving' = Leaving /\ Coming' = Coming
  BY <1>2, <1>a DEF Live, Leaving, Uncounted, Coming
<1> QED BY <1>2, <1>3, <1>5, <1>6, <1>7, CountQuiet, CountTypes DEF Opening, Inv

LEMMA FinishCount ==
  ASSUME Inv, TypeOK', Honest, NEW p \in Threads, Finish(p)
  PROVE  CountInv'
<1>a. Owner \in Threads
  BY DEF Threads
<1>1. PICK j \in Jobs : got[p] = <<j>> /\ state' = [state EXCEPT ![j] = "completed"]
  BY DEF Finish
<1>2. /\ pc[p] = "running" /\ pc'[p] = "finished"
      /\ \A q \in Threads : q # p => pc'[q] = pc[q]
      /\ UNCHANGED <<got, grouped, place, early, doubled, making, grouping, made, job_count,
                     active>>
  BY DEF Finish, Inv, TypeOK, Goto, queueVars, mainVars
<1>3. Holds(p, j) /\ state[j] = "running" /\ state'[j] = "completed"
      /\ \A k \in Jobs : k # j => state'[k] = state[k]
  BY <1>1, <1>2 DEF Honest, Inv, TypeOK, BlocksInv, Holds
<1>4. \A q \in Threads, k \in Jobs : Working(q, k)' <=> Working(q, k)
  BY <1>2 DEF Working, Holds
<1>5. Orderly'
  BY <1>2, <1>3 DEF Inv, CountInv, Orderly
<1>6. Pending' = Pending
  BY <1>2, <1>3, <1>4, <1>a DEF Pending
<1>7. Live' = Live /\ Leaving' = Leaving /\ Coming' = Coming
  BY <1>2, <1>a DEF Live, Leaving, Uncounted, Coming
<1> QED BY <1>2, <1>5, <1>6, <1>7, CountQuiet, CountTypes DEF Opening, Inv

LEMMA GroupDecrementCount ==
  ASSUME Inv, TypeOK', Honest, NEW p \in Threads, GroupDecrement(p)
  PROVE  CountInv'
<1>a. Owner \in Threads
  BY DEF Threads
<1>1. PICK j \in Jobs : got[p] = <<j>> /\ grouped[j]
  BY DEF GroupDecrement, InGroup
<1>2. /\ pc[p] = "finished" /\ pc'[p] \in {"free", "group_clamp"}
      /\ pc'[p] = "group_clamp" => job_count = 0
      /\ job_count' = Decrement(job_count)
      /\ \A q \in Threads : q # p => pc'[q] = pc[q]
      /\ UNCHANGED <<got, state, grouped, place, early, doubled, making, grouping, made, active>>
  BY DEF GroupDecrement, Inv, TypeOK, Goto, Wrapped, queueVars, jobVars, mainVars
<1>3. Working(p, j) /\ state[j] = "completed" /\ \A q \in Threads : Working(q, j) => q = p
  BY <1>1, <1>2 DEF Honest, Inv, BlocksInv, Working, Holds
<1>4. j # making
  BY <1>3 DEF Inv, CountInv, Orderly
<1>5. \A q \in Threads, k \in Jobs : Working(q, k)' <=> Working(q, k) /\ q # p
  BY <1>2 DEF Working, Holds
<1>6. \A k \in Jobs : Working(p, k) => k = j
  BY <1>1 DEF Working, Holds
<1>7. Pending' = Pending \ {j} /\ j \in Pending
  <2>1. ASSUME NEW k \in Jobs, k # j PROVE k \in Pending' <=> k \in Pending
    BY <1>2, <1>5, <1>6, <1>a, <2>1 DEF Pending
  <2>2. j \in Pending /\ j \notin Pending'
    BY <1>1, <1>2, <1>3, <1>4, <1>5 DEF Pending
  <2> QED BY <2>1, <2>2 DEF Pending
<1>8. /\ Cardinality(Pending') = Cardinality(Pending) - 1
      /\ Cardinality(Pending) # 0
  BY <1>7, CountsAreNat, FS_RemoveElement, FS_EmptySet
<1>9. job_count # 0 /\ job_count' = job_count - 1
  <2>1. job_count # 0
    BY <1>8, CountsAreNat, CountTypes DEF Inv, CountInv
  <2> QED BY <1>2, <2>1 DEF Decrement
<1>10. Orderly'
  BY <1>2, <1>9 DEF Inv, CountInv, Orderly
<1>11. Live' = Live /\ Leaving' = Leaving /\ Coming' = Coming /\ Opening' = Opening
  BY <1>2, <1>a DEF Live, Leaving, Uncounted, Coming, Opening
<1>12. job_count' = Cardinality(Pending') + Opening' /\ job_count' <= made'
  BY <1>2, <1>8, <1>9, <1>11, CountsAreNat, CountTypes DEF Inv, CountInv
<1> QED BY <1>2, <1>10, <1>11, <1>12 DEF Inv, CountInv

LEMMA FreeCount ==
  ASSUME Inv, TypeOK', Honest, NEW p \in Threads, BeginFree(p)
  PROVE  CountInv'
<1>a. Owner \in Threads
  BY DEF Threads
<1>1. PICK j \in Jobs : got[p] = <<j>> /\ place' = [place EXCEPT ![j] = "listed"]
  BY DEF BeginFree, List
<1>2. /\ pc[p] = "free" \/ (pc[p] = "finished" /\ ~grouped[j])
      /\ pc'[p] = "freeing"
      /\ \A q \in Threads : q # p => pc'[q] = pc[q]
      /\ UNCHANGED <<got, state, grouped, early, doubled, making, grouping, made, job_count,
                     active>>
  BY <1>1 DEF BeginFree, InGroup, Inv, TypeOK, Goto, queueVars, mainVars
<1>3. Holds(p, j) /\ state[j] = "completed" /\ place[j] = "out"
  BY <1>1, <1>2 DEF Honest, Inv, BlocksInv, Holds
<1>4. j # making /\ \A k \in Jobs : k # j => place'[k] = place[k]
  BY <1>1, <1>3 DEF Inv, CountInv, Orderly, TypeOK
<1>5. \A q \in Threads, k \in Jobs :
        /\ Working(q, k)' => Working(q, k)
        /\ Working(q, k) => Working(q, k)' \/ (q = p /\ k = j /\ ~grouped[j])
  BY <1>1, <1>2 DEF Working, Holds
<1>6. Orderly'
  BY <1>2 DEF Inv, CountInv, Orderly
<1>7. Pending' = Pending
  <2>1. ASSUME NEW k \in Jobs PROVE k \in Pending' => k \in Pending
    BY <1>2, <1>5, <1>a DEF Pending
  <2>2. ASSUME NEW k \in Jobs, k \in Pending PROVE k \in Pending'
    <3>1. grouped[k] /\ ~(making = k /\ pc[Owner] = "clear_group")
      BY <2>2 DEF Pending
    <3>2. state[k] = "ready" \/ \E q \in Threads : Working(q, k)'
      BY <1>5, <2>2, <3>1 DEF Pending
    <3> QED BY <1>2, <1>a, <3>1, <3>2 DEF Pending
  <2> QED BY <2>1, <2>2 DEF Pending
<1>8. Live' = Live \ {j} /\ j \in Live
  BY <1>1, <1>2, <1>3, <1>4, <1>a DEF Live, Uncounted, Inv, TypeOK
<1>9. Leaving' = Leaving \cup {p} /\ p \notin Leaving
  BY <1>2 DEF Leaving
<1>10. /\ Cardinality(Live') = Cardinality(Live) - 1
       /\ Cardinality(Leaving') = Cardinality(Leaving) + 1
  BY <1>8, <1>9, CountsAreNat, FS_AddElement, FS_RemoveElement
<1>11. Coming' = Coming /\ Opening' = Opening
  BY <1>2, <1>a DEF Uncounted, Coming, Opening
<1>12. active' = Cardinality(Live') + Cardinality(Leaving')
  BY <1>2, <1>10, CountsAreNat DEF Inv, CountInv
<1> QED BY <1>2, <1>6, <1>7, <1>11, <1>12 DEF Inv, CountInv

LEMMA EndFreeCount ==
  ASSUME Inv, TypeOK', Honest, NEW p \in Threads, EndFree(p)
  PROVE  CountInv'
<1>a. Owner \in Threads
  BY DEF Threads
<1>1. HandsUntouched
  BY HandsStay DEF Inv
<1>2. /\ pc[p] = "freeing" /\ pc'[p] = "active_decrement"
      /\ \A q \in Threads : q # p => pc'[q] = pc[q]
      /\ UNCHANGED <<state, grouped, place, early, doubled, making, grouping, made, job_count,
                     active>>
  BY DEF EndFree, Inv, TypeOK, Goto, jobVars, mainVars
<1>3. Orderly'
  BY <1>2 DEF Inv, CountInv, Orderly
<1>4. Pending' = Pending
  BY <1>1, <1>2, <1>a DEF HandsUntouched, Pending, Working
<1>5. Live' = Live /\ Leaving' = Leaving /\ Coming' = Coming
  BY <1>2, <1>a DEF Live, Leaving, Uncounted, Coming
<1> QED BY <1>2, <1>3, <1>4, <1>5, CountQuiet, CountTypes, MadeType DEF Opening, Inv

LEMMA ActiveDecrementCount ==
  ASSUME Inv, TypeOK', Honest, NEW p \in Threads, ActiveDecrement(p)
  PROVE  CountInv'
<1>a. Owner \in Threads
  BY DEF Threads
<1>1. HandsUntouched
  BY HandsStay DEF Inv
<1>2. /\ pc[p] = "active_decrement" /\ pc'[p] \in {"wait", "idle", "active_clamp"}
      /\ pc'[p] = "active_clamp" => active = 0
      /\ active' = Decrement(active)
      /\ \A q \in Threads : q # p => pc'[q] = pc[q]
      /\ UNCHANGED <<state, grouped, place, early, doubled, making, grouping, made, job_count>>
  BY DEF ActiveDecrement, Inv, TypeOK, Goto, Home, Wrapped, jobVars, mainVars
<1>3. Leaving' = Leaving \ {p} /\ p \in Leaving
  BY <1>2 DEF Leaving
<1>4. Cardinality(Leaving') = Cardinality(Leaving) - 1 /\ Cardinality(Leaving) # 0
  BY <1>3, CountsAreNat, FS_RemoveElement, FS_EmptySet
<1>5. active # 0 /\ active' = active - 1
  <2>1. active # 0
    BY <1>4, CountsAreNat, CountTypes DEF Inv, CountInv
  <2> QED BY <1>2, <2>1 DEF Decrement
<1>6. Orderly'
  BY <1>2, <1>5 DEF Inv, CountInv, Orderly
<1>7. Pending' = Pending
  BY <1>1, <1>2, <1>a DEF HandsUntouched, Pending, Working
<1>8. Live' = Live /\ Coming' = Coming /\ Opening' = Opening
  BY <1>2, <1>a DEF Live, Uncounted, Coming, Opening
<1>9. active' = Cardinality(Live') + Cardinality(Leaving') /\ active' + Coming' <= made'
  BY <1>2, <1>4, <1>5, <1>8, CountsAreNat, CountTypes DEF Inv, CountInv
<1> QED BY <1>2, <1>6, <1>7, <1>8, <1>9 DEF Inv, CountInv

(* A decrement that wraps needs its repair only in a run that is not       *)
(* honest.                                                                 *)
LEMMA ClampCount ==
  ASSUME Inv, NEW p \in Threads, GroupClamp(p) \/ ActiveClamp(p)
  PROVE  ~Honest
BY DEF GroupClamp, ActiveClamp, Inv, CountInv, Orderly

(* Every step keeps both counts.                                           *)
LEMMA CountStep == ASSUME Inv, [Next]_vars PROVE CountInv'
<1> SUFFICES ASSUME Honest' PROVE CountInv'
  BY DEF CountInv
<1>a. TypeOK' /\ \A p \in Thieves : p \in Threads
  BY TypeStep DEF Inv, Threads
<1>b. Owner \in Threads
  BY DEF Threads
<1>1. CASE UNCHANGED vars
  BY <1>1 DEF vars, queueVars, jobVars, mainVars, Inv, CountInv, Orderly, Honest, Pending,
     Working, Holds, Opening, Live, Leaving, Coming
<1>2. CASE Next
  <2>1. Honest
    <3>1. ASSUME NEW p \in Threads, Start(p) PROVE Honest
      BY <3>1, Zenon DEF Start, Honest
    <3>2. ASSUME NEW p \in Threads, RunJob(p), ~Start(p) PROVE Honest
      BY <3>2 DEF Honest, RunJob, CheckReady, DropUnready, Finish, GroupDecrement, GroupClamp,
         BeginFree, EndFree, ActiveDecrement, ActiveClamp, jobVars
    <3>3. ASSUME OwnerElsewhere \/ \E p \in Thieves : Steals(p) PROVE Honest
      BY <3>3 DEF Honest, OwnerElsewhere, GroupRun, Run, BeginRun, WaitForAll, WaitForJob, Wait,
         MakeReady, Allocate, BeginReclaim, MakeFails, ClearGroup, SetGroup, ScheduleActive,
         SchedulePush, PushOverwrites, PushPublishes, WaitReturns, WaitHelps, PopJob, PopNothing,
         Steals, StealJob, StealOverwritten, jobVars
    <3> QED BY <1>2, <1>a, <1>b, <3>1, <3>2, <3>3
           DEF Next, UserStep, OwnerStep, OwnerElsewhere, Steals
  <2>2. ASSUME NEW p \in Threads, RunJob(p) PROVE CountInv'
    BY <2>1, <2>2, <1>a, TakeCount, StartCount, FinishCount, GroupDecrementCount, FreeCount,
       EndFreeCount, ActiveDecrementCount, ClampCount DEF RunJob
  <2>3. CASE UserStep
    BY <2>1, <2>3, <1>a, BeginCount, TakeCount DEF UserStep
  <2>4. CASE OwnerStep
    BY <2>1, <2>2, <2>4, <1>a, <1>b, MakeCount, MakerQuietCount, SetGroupCount, ScheduleCount,
       TakeCount DEF OwnerStep
  <2> QED BY <1>2, <2>1, <2>2, <2>3, <2>4, <1>a, TakeCount DEF Next, Steals
<1> QED BY <1>1, <1>2

(* Nothing is counted in the beginning.                                    *)
LEMMA CountInit == Init => CountInv
<1> SUFFICES ASSUME Init PROVE CountInv
  OBVIOUS
<1>a. Owner \in Threads /\ Null \notin Jobs
  BY RingAssumption DEF Threads
<1>1. Pending = {} /\ Live = {} /\ Leaving = {}
  <2>1. ASSUME NEW j \in Jobs PROVE ~grouped[j]
    BY DEF Init
  <2>3. ASSUME NEW j \in Jobs PROVE place[j] # "out"
    BY DEF Init
  <2>2. ASSUME NEW p \in Threads PROVE pc[p] \notin {"freeing", "active_decrement"}
    <3>1. pc[p] = "user" \/ pc[p] = "idle"
      BY DEF Init
    <3> QED BY <3>1
  <2> QED BY <2>1, <2>2, <2>3 DEF Pending, Live, Leaving
<1>2. Cardinality(Pending) = 0 /\ Cardinality(Live) = 0 /\ Cardinality(Leaving) = 0
  BY <1>1, FS_EmptySet
<1>3. Opening = 0 /\ Coming = 0 /\ Orderly
  BY <1>a DEF Init, Opening, Coming, Uncounted, Orderly
<1> QED BY <1>2, <1>3 DEF Init, CountInv

LEMMA Invariant == Spec => []Inv
<1>1. Init => Inv
  BY TypeInit, BlocksInit, CountInit DEF Inv
<1>2. Inv /\ [Next]_vars => Inv'
  BY TypeStep, MakerStep, BlocksStep, CountStep DEF Inv
<1> QED BY <1>1, <1>2, PTL DEF Spec

(* A worker that sees active_jobs_ = 0 has no work to miss.                *)
THEOREM ActiveIsExact == Spec => []ActiveCoversWork
<1>1. ASSUME Inv, active = 0, ~early, ~doubled,
             NEW j \in Jobs, state[j] \in {"ready", "running"}
      PROVE  making = j /\ pc[Owner] \in Uncounted
  <2>1. place[j] = "out"
    BY <1>1 DEF Inv, BlocksInv
  <2>2. Cardinality(Live) = 0
    BY <1>1, CountsAreNat DEF Inv, CountInv, Honest
  <2>3. Live = {}
    BY <2>2, CountsAreNat, FS_EmptySet
  <2> QED BY <2>1, <2>3 DEF Live
<1>2. Inv => ActiveCoversWork
  BY <1>1 DEF ActiveCoversWork, Uncounted
<1> QED BY <1>2, Invariant, PTL

(* wait_for_all waits for every job the group has run.                     *)
THEOREM WaitCoversGroup == Spec => GroupWaitCoversAll
<1>1. ASSUME Inv, WaitReturns, waiting = "group", ~early, ~doubled,
             NEW j \in Jobs, grouped[j]
      PROVE  state[j] = "completed"
  <2>1. job_count = 0 /\ pc[Owner] = "wait"
    BY <1>1 DEF WaitReturns, Satisfied
  <2>2. Cardinality(Pending) = 0
    BY <1>1, <2>1, CountsAreNat, CountTypes DEF Inv, CountInv, Honest
  <2>3. Pending = {}
    BY <2>2, CountsAreNat, FS_EmptySet
  <2>4. state[j] # "ready" /\ \A p \in Threads : ~Working(p, j)
    BY <1>1, <2>1, <2>3 DEF Pending
  <2>5. state[j] # "unknown"
    BY <1>1 DEF Inv, MakerInv
  <2>6. state[j] # "running"
    BY <1>1, <2>4 DEF Inv, BlocksInv, Working
  <2> QED BY <1>1, <2>4, <2>5, <2>6 DEF Inv, TypeOK
<1>2. Inv => [(WaitReturns /\ waiting = "group" /\ ~early /\ ~doubled) =>
                 \A j \in Jobs : grouped[j] => state[j] = "completed"]_vars
  BY <1>1
<1> QED BY <1>2, Invariant, PTL DEF GroupWaitCoversAll

--------------------------------------------------------------------------------
(* Until a block is recycled the ring has room for every push, although    *)
(* there are no more slots than blocks and empty pops add entries of their *)
(* own: an empty pop is made only once some job has left the queue.        *)

(* Blocks that were never made a job of are nowhere. *)
Used == {j \in Jobs : place[j] # "pool"}
Unseen(j) == (\A s \in Slots : ring[s] # j) /\ \A p \in Threads : got[p] # <<j>>

Pushing == IF making \in Jobs THEN 1 ELSE 0
Making == IF pc[Owner] = "make" THEN 1 ELSE 0
Outside == {"user", "make", "reclaim", "clear_group", "set_group", "schedule", "push",
            "publish", "crashed"}

(* Whoever waits, waits for a job that was made.                           *)
WaitsForSome ==
  /\ pc[Owner] \notin Outside => waiting = "group" \/ Used # {}
  /\ job_count # 0 => grouping \/ Used # {}
  /\ pc[Owner] = "pop" => Used # {}

Room ==
  /\ count + Pushing <= Cardinality(Used)
  /\ Cardinality(Used) + Making <= made
  /\ ~overrun /\ pc[Owner] \notin {"reclaim", "publish"}
  /\ \A p \in Thieves : former[p] = {}
  /\ \A j \in Jobs : place[j] = "pool" \/ making = j => Unseen(j)
  /\ \A j \in Jobs : place[j] = "pool" => state[j] = "unknown" /\ making # j
  /\ WaitsForSome

RoomInv == Fresh => Room

LEMMA UsedCounts ==
  /\ IsFiniteSet(Used) /\ Cardinality(Used) \in Nat
  /\ Cardinality(Used) <= Cardinality(Jobs) /\ Cardinality(Jobs) \in Nat
  /\ Used # {} => Cardinality(Used) >= 1
<1>1. Used \subseteq Jobs /\ IsFiniteSet(Jobs)
  BY GroupAssumption DEF Used
<1>2. IsFiniteSet(Used) /\ Cardinality(Used) \in Nat
  BY <1>1, FS_Subset, FS_CardinalityType
<1> QED BY <1>1, <1>2, FS_Subset, FS_CardinalityType, FS_EmptySet

(* No entry is ever more than the ring holds.                              *)
LEMMA RoomFits ==
  ASSUME TypeOK, Room
  PROVE  count \in 0 .. Capacity /\ (making \in Jobs => count < Capacity)
<1>1. Cardinality(Jobs) <= Capacity /\ Capacity \in Nat /\ count \in Nat
  BY GroupAssumption, RingAssumption DEF TypeOK
<1> QED BY <1>1, UsedCounts DEF Room, Pushing

(* A fresh block is left whenever one is asked for.                        *)
LEMMA RoomMakes ==
  ASSUME TypeOK, Room, Fresh, pc[Owner] = "make"
  PROVE  InPool # {}
<1>1. Cardinality(Used) + 1 <= made /\ made <= Cardinality(Jobs) /\ made \in Nat
  BY GroupAssumption DEF Room, Making, Fresh, TypeOK
<1>2. Used # Jobs
  BY <1>1, UsedCounts
<1> QED BY <1>2 DEF Used, InPool

(* The steps that touch neither the ring nor a fresh block.                *)
LEMMA RoomQuiet ==
  ASSUME TypeOK, Room, NEW p \in Threads, NEW label,
         label \notin {"make", "reclaim", "publish"}, pc' = [pc EXCEPT ![p] = label],
         UNCHANGED <<ring, count, making, made, former, overrun>>, Used' = Used,
         \A j \in Jobs : place'[j] = "pool" => place[j] = "pool" /\ state'[j] = state[j],
         got' = got \/ got' = [got EXCEPT ![p] = <<>>],
         WaitsForSome'
  PROVE  Room'
<1>a. Owner \in Threads /\ Cardinality(Used) \in Nat /\ made \in Nat
  BY UsedCounts, GroupAssumption DEF Threads, TypeOK
<1>1. pc'[Owner] = label \/ pc'[Owner] = pc[Owner]
  BY <1>a DEF TypeOK
<1>2. Cardinality(Used') + Making' <= made' /\ count' + Pushing' <= Cardinality(Used')
  BY <1>a, <1>1 DEF Room, Making, Pushing
<1>3. \A j \in Jobs : Unseen(j) => Unseen(j)'
  <2>1. \A q \in Threads : got'[q] = got[q] \/ got'[q] = <<>>
    BY DEF TypeOK
  <2>2. ASSUME NEW j \in Jobs, NEW q \in Threads, got'[q] = <<j>> PROVE got[q] = <<j>>
    <3>1. got'[q] # <<>>
      BY <2>2
    <3> QED BY <2>1, <2>2, <3>1
  <2> QED BY <2>2 DEF Unseen
<1> QED BY <1>1, <1>2, <1>3 DEF Room

(* A job nobody has seen is in nobody's hands.                             *)
LEMMA WaitsStep ==
  ASSUME TypeOK, MakerInv, Room, [Next]_vars, Used \subseteq Used'
  PROVE  WaitsForSome'
<1> SUFFICES ASSUME Used = {}, Used' = {} PROVE WaitsForSome'
  BY DEF WaitsForSome
<1>a. /\ Owner \in Threads /\ Null \notin Jobs
      /\ \A p \in Thieves : p \in Threads /\ p # Owner
  BY RingAssumption DEF Threads
<1>1. /\ \A j \in Jobs : state[j] = "unknown" /\ \A p \in Threads : got[p] # <<j>>
      /\ pc[Owner] \notin Outside => waiting = "group"
      /\ job_count = 0 \/ grouping
      /\ pc[Owner] # "pop"
  BY DEF Room, WaitsForSome, Used, Unseen
<1>2. CASE UNCHANGED vars
  BY <1>1, <1>2 DEF vars, mainVars, WaitsForSome
<1>3. CASE GroupRun \/ Run
  <2>1. pc[Owner] = "user" /\ pc'[Owner] = "make"
    BY <1>3, <1>a DEF GroupRun, Run, BeginRun, Goto, TypeOK
  <2>2. ~grouping
    BY <2>1 DEF MakerInv
  <2>3. grouping' \/ job_count' = job_count
    BY <1>3 DEF GroupRun, Run, BeginRun
  <2> QED BY <1>1, <2>1, <2>2, <2>3 DEF WaitsForSome, Outside
<1>4. CASE WaitForAll \/ \E j \in Jobs : WaitForJob(j)
  BY <1>1, <1>4, <1>a DEF WaitForAll, WaitForJob, Wait, Goto, TypeOK, WaitsForSome
<1>5. ASSUME NEW j \in Jobs, MakeReady(j) PROVE FALSE
  BY <1>5, MakesOne DEF Used
<1>6. making \notin Jobs
  BY <1>1 DEF MakerInv
<1>7. CASE BeginReclaim \/ MakeFails
  BY <1>1, <1>7, <1>a
     DEF BeginReclaim, MakeFails, Goto, TypeOK, WaitsForSome, Outside, mainVars, Room
<1>8. CASE ClearGroup \/ SetGroup \/ ScheduleActive \/ SchedulePush \/ PushOverwrites
           \/ PushPublishes
  BY <1>6, <1>8 DEF ClearGroup, SetGroup, ScheduleActive, SchedulePush, PushOverwrites,
     PushPublishes, MakerInv
<1>9. CASE WaitReturns \/ WaitHelps \/ PopJob \/ PopNothing
  <2>1. CASE WaitReturns
    BY <1>1, <2>1, <1>a DEF WaitReturns, Goto, TypeOK, WaitsForSome, Outside
  <2>2. CASE WaitHelps
    <3>1. waiting = "group" /\ ~grouping
      BY <1>1, <2>2 DEF WaitHelps, Outside, MakerInv
    <3> QED BY <1>1, <2>2, <3>1 DEF WaitHelps, Satisfied
  <2> QED BY <1>1, <1>9, <2>1, <2>2 DEF PopJob, PopNothing
<1>10. ASSUME NEW p \in Thieves, Steals(p) PROVE WaitsForSome'
  BY <1>1, <1>10, <1>a
     DEF Steals, StealJob, StealOverwritten, Goto, TypeOK, WaitsForSome, mainVars
<1>11. ASSUME NEW p \in Threads, RunJob(p) PROVE WaitsForSome'
  <2>1. pc[p] \notin OwnersOwn /\ (pc'[Owner] # pc[Owner] => p = Owner /\ pc'[Owner] # "pop")
    BY <1>11, <1>a DEF TypeOK, RunJob, CheckReady, DropUnready, Start, Finish, GroupDecrement,
       GroupClamp, BeginFree, EndFree, ActiveDecrement, ActiveClamp, Goto, Home, OwnersOwn
  <2>2. job_count' = job_count \/ job_count' = 0
    BY <1>1, <1>11 DEF RunJob, CheckReady, DropUnready, Start, Finish, GroupDecrement, InGroup,
       GroupClamp, BeginFree, EndFree, ActiveDecrement, ActiveClamp
  <2>3. waiting' = waiting /\ grouping' = grouping
    BY <1>11 DEF RunJob, CheckReady, DropUnready, Start, Finish, GroupDecrement,
       GroupClamp, BeginFree, EndFree, ActiveDecrement, ActiveClamp, mainVars
  <2> QED BY <1>1, <2>1, <2>2, <2>3 DEF WaitsForSome, OwnersOwn, Outside
<1> QED
  BY <1>2, <1>3, <1>4, <1>5, <1>7, <1>8, <1>9, <1>10, <1>11, <1>a
     DEF Next, UserStep, OwnerStep, Steals

(* A thread works only on blocks that a job was made of.                   *)
LEMMA RoomRunJob ==
  ASSUME TypeOK, MakerInv, Room, NEW p \in Threads, RunJob(p)
  PROVE  Room'
<1>1. /\ UNCHANGED <<ring, count, making, made, former, overrun>>
      /\ got' = got \/ got' = [got EXCEPT ![p] = <<>>]
  BY DEF RunJob, CheckReady, DropUnready, Start, Finish, GroupDecrement, GroupClamp, BeginFree,
     EndFree, ActiveDecrement, ActiveClamp, Begin, queueVars, ringVars, mainVars
<1>2. PICK label : pc' = [pc EXCEPT ![p] = label] /\ label \notin {"make", "reclaim", "publish"}
  BY DEF RunJob, CheckReady, DropUnready, Start, Finish, GroupDecrement, GroupClamp, BeginFree,
     EndFree, ActiveDecrement, ActiveClamp, Goto, Home
<1>3. ASSUME NEW j \in Jobs
      PROVE  /\ place'[j] = "pool" <=> place[j] = "pool"
             /\ place[j] = "pool" => state'[j] = state[j]
  <2>1. \/ UNCHANGED <<state, place>>
        \/ \E k \in Jobs : /\ got[p] = <<k>>
                           /\ \/ place' = place /\ \E x : state' = [state EXCEPT ![k] = x]
                              \/ place' = [place EXCEPT ![k] = "listed"] /\ state' = state
    BY DEF RunJob, CheckReady, DropUnready, Start, Finish, GroupDecrement, GroupClamp, BeginFree,
       List, EndFree, ActiveDecrement, ActiveClamp, jobVars
  <2>2. CASE UNCHANGED <<state, place>>
    BY <2>2
  <2>3. ASSUME NEW k \in Jobs, got[p] = <<k>>,
               \/ place' = place /\ \E x : state' = [state EXCEPT ![k] = x]
               \/ place' = [place EXCEPT ![k] = "listed"] /\ state' = state
        PROVE  /\ place'[j] = "pool" <=> place[j] = "pool"
               /\ place[j] = "pool" => state'[j] = state[j]
    <3>1. place[k] # "pool"
      BY <2>3 DEF Room, Unseen
    <3> QED BY <2>3, <3>1 DEF TypeOK
  <2> QED BY <2>1, <2>2, <2>3
<1>4. Used' = Used
  BY <1>3 DEF Used
<1>5. [Next]_vars
  BY DEF Next, OwnerStep, Threads
<1>6. WaitsForSome'
  BY <1>4, <1>5, WaitsStep
<1> QED BY <1>1, <1>2, <1>3, <1>4, <1>6, RoomQuiet

(* An entry that is taken was in the ring.                                 *)
LEMMA RoomTake ==
  ASSUME TypeOK, Room, NEW p \in Threads, NEW label,
         label \notin {"make", "reclaim", "publish"}, pc' = [pc EXCEPT ![p] = label],
         NEW s \in Slots, got' = [got EXCEPT ![p] = <<ring[s]>>],
         ring' = ring, count' = count - 1, former' = former \/ FrontMoves,
         UNCHANGED <<state, place, making, made, overrun>>,
         WaitsForSome'
  PROVE  Room'
<1>a. /\ Owner \in Threads /\ Cardinality(Used) \in Nat /\ made \in Nat /\ count \in Nat
      /\ Used' = Used
  BY UsedCounts, GroupAssumption DEF Threads, TypeOK, Used
<1>1. pc'[Owner] = label \/ pc'[Owner] = pc[Owner]
  BY <1>a DEF TypeOK
<1>2. Cardinality(Used') + Making' <= made' /\ count' + Pushing' <= Cardinality(Used')
  BY <1>a, <1>1 DEF Room, Making, Pushing
<1>3. ASSUME NEW j \in Jobs, Unseen(j) PROVE Unseen(j)'
  <2>1. \A q \in Threads : got'[q] = IF q = p THEN <<ring[s]>> ELSE got[q]
    BY DEF TypeOK
  <2>2. \A q \in Threads : got'[q] # <<j>>
    BY <1>3, <2>1 DEF Unseen
  <2> QED BY <1>3, <2>2 DEF Unseen
<1>4. \A q \in Thieves : former'[q] = {}
  BY DEF Room, FrontMoves
<1> QED BY <1>1, <1>2, <1>3, <1>4, <1>a DEF Room

(* Jobs are only ever made, and what was exposed once was exposed.         *)
LEMMA NeverFresher ==
  ASSUME [Next]_vars
  PROVE  (made' = made \/ made' = made + 1) /\ (exposed => exposed')
<1>1. made' = made \/ made' = made + 1
  BY DEF Next, UserStep, OwnerStep, RunJob, GroupRun, Run, BeginRun, MakeReady, Allocate,
     BeginReclaim, MakeFails, ClearGroup, SetGroup, ScheduleActive, SchedulePush,
     PushOverwrites, PushPublishes, WaitForAll, WaitForJob, Wait, WaitReturns, WaitHelps,
     PopJob, PopNothing, StealJob, StealOverwritten, CheckReady, DropUnready, Start, Finish,
     GroupDecrement, GroupClamp, BeginFree, EndFree, ActiveDecrement, ActiveClamp, mainVars, vars
<1>2. PopNothing => (exposed => exposed')
  BY Zenon DEF PopNothing
<1>3. ASSUME ~PopNothing PROVE UNCHANGED exposed
  BY <1>3 DEF Next, UserStep, OwnerStep, RunJob, GroupRun, Run, BeginRun, MakeReady, Allocate,
     BeginReclaim, MakeFails, ClearGroup, SetGroup, ScheduleActive, SchedulePush,
     PushOverwrites, PushPublishes, WaitForAll, WaitForJob, Wait, WaitReturns, WaitHelps,
     PopJob, StealJob, StealOverwritten, CheckReady, DropUnready, Start, Finish,
     GroupDecrement, GroupClamp, BeginFree, EndFree, ActiveDecrement, ActiveClamp, ringVars, vars
<1> QED BY <1>1, <1>2, <1>3

LEMMA RoomStep ==
  ASSUME TypeOK, MakerInv, RoomInv, [Next]_vars
  PROVE  RoomInv'
<1>a. made \in Nat /\ made' \in Nat /\ made' >= made /\ Cardinality(Jobs) \in Nat
  <2>1. made \in Nat /\ Cardinality(Jobs) \in Nat
    BY UsedCounts, GroupAssumption DEF TypeOK
  <2> QED BY <2>1, NeverFresher
<1> SUFFICES ASSUME Fresh' PROVE Room'
  BY DEF RoomInv
<1>1. Room /\ Fresh
  BY <1>a DEF RoomInv, Fresh
<1>b. /\ Owner \in Threads /\ Null \notin Jobs /\ Cardinality(Used) \in Nat
      /\ count \in 0 .. Capacity /\ Capacity \in Nat \ {0} /\ front \in Slots
      /\ \A p \in Thieves : p \in Threads
  BY <1>1, UsedCounts, RoomFits, RingAssumption DEF Threads, TypeOK
<1>2. ASSUME Used' = Used PROVE WaitsForSome'
  BY <1>1, <1>2, WaitsStep
<1>3. UNCHANGED place => Used' = Used
  BY DEF Used
<1>4. CASE UNCHANGED vars
  BY <1>1, <1>4 DEF vars, queueVars, ringVars, jobVars, mainVars, Room, Used, Unseen, Pushing,
     Making, WaitsForSome
<1>5. CASE GroupRun \/ Run
  <2>1. /\ pc[Owner] = "user" /\ pc' = [pc EXCEPT ![Owner] = "make"] /\ made' = made + 1
        /\ UNCHANGED <<ring, count, got, state, place, making, former, overrun>>
    BY <1>5 DEF GroupRun, Run, BeginRun, Goto, queueVars, ringVars, jobVars
  <2>2. WaitsForSome' /\ Used' = Used
    BY <1>2, <1>3, <2>1
  <2>3. pc'[Owner] = "make"
    BY <1>b, <2>1 DEF TypeOK
  <2>4. Cardinality(Used') + Making' <= made' /\ count' + Pushing' <= Cardinality(Used')
    BY <1>1, <1>a, <1>b, <2>1, <2>2, <2>3 DEF Room, Making, Pushing
  <2>5. \A j \in Jobs : Unseen(j)' <=> Unseen(j)
    BY <2>1 DEF Unseen
  <2> QED BY <1>1, <2>1, <2>2, <2>3, <2>4, <2>5 DEF Room
<1>6. ASSUME NEW j \in Jobs, MakeReady(j) PROVE Room'
  <2>1. pc[Owner] = "make" /\ making \notin Jobs
    BY <1>1, <1>6 DEF MakeReady, Room, MakerInv
  <2>2. /\ place[j] = "pool" /\ place' = [place EXCEPT ![j] = "out"]
        /\ state' = [state EXCEPT ![j] = "ready"] /\ making' = j
        /\ pc' = [pc EXCEPT ![Owner] = "clear_group"]
        /\ UNCHANGED <<ring, count, got, made, former, overrun>>
    <3>1. Allocate(j, {})
      BY <2>1, <1>6 DEF MakeReady
    <3> QED BY <3>1 DEF Allocate, InPool, Goto, queueVars, ringVars, TypeOK
  <2>3. Used' = Used \cup {j} /\ j \notin Used
    BY <2>2 DEF Used, TypeOK
  <2>4. Cardinality(Used') = Cardinality(Used) + 1
    BY <2>3, UsedCounts, FS_AddElement
  <2>5. pc'[Owner] = "clear_group"
    BY <1>b, <2>2 DEF TypeOK
  <2>6. Cardinality(Used') + Making' <= made' /\ count' + Pushing' <= Cardinality(Used')
    BY <1>1, <1>a, <1>b, <2>1, <2>2, <2>4, <2>5 DEF Room, Making, Pushing
  <2>7. \A k \in Jobs : Unseen(k)' <=> Unseen(k)
    BY <2>2 DEF Unseen
  <2>8. WaitsForSome'
    BY <2>3 DEF WaitsForSome
  <2>9. \A k \in Jobs : place'[k] = "pool" => k # j /\ place[k] = "pool" /\ state'[k] = state[k]
    BY <2>2 DEF TypeOK
  <2> QED BY <1>1, <2>2, <2>5, <2>6, <2>7, <2>8, <2>9 DEF Room
<1>7. CASE BeginReclaim \/ MakeFails \/ PushPublishes
  BY <1>1, <1>7, RoomMakes DEF Room, BeginReclaim, MakeFails, PushPublishes
<1>8. CASE PushOverwrites
  BY <1>1, <1>8, <1>b, RoomFits DEF PushOverwrites, MakerInv
<1>9. CASE SchedulePush
  <2>1. making \in Jobs
    BY <1>9 DEF SchedulePush, MakerInv
  <2>2. /\ pc' = [pc EXCEPT ![Owner] = "user"] /\ making' = Null
        /\ ring' = [ring EXCEPT ![At(count)] = making] /\ count' = count + 1
        /\ got' = [got EXCEPT ![Owner] = <<>>]
        /\ UNCHANGED <<state, place, made, former, overrun>>
    BY <1>9 DEF SchedulePush, Push, Goto, jobVars, ringVars
  <2>3. WaitsForSome' /\ Used' = Used
    BY <1>2, <1>3, <2>2
  <2>4. pc'[Owner] = "user"
    BY <1>b, <2>2 DEF TypeOK
  <2>5. Cardinality(Used') + Making' <= made' /\ count' + Pushing' <= Cardinality(Used')
    BY <1>1, <1>a, <1>b, <2>1, <2>2, <2>3, <2>4 DEF Room, Making, Pushing
  <2>6. ASSUME NEW k \in Jobs, k # making, Unseen(k) PROVE Unseen(k)'
    <3>1. \A s \in Slots : ring'[s] = ring[s] \/ ring'[s] = making
      BY <2>2 DEF TypeOK
    <3>2. ASSUME NEW q \in Threads, got'[q] = <<k>> PROVE FALSE
      <4>1. got'[q] # <<>>
        BY <3>2
      <4>2. got'[q] = <<>> \/ got'[q] = got[q]
        BY <2>2 DEF TypeOK
      <4> QED BY <2>6, <3>2, <4>1, <4>2 DEF Unseen
    <3> QED BY <2>6, <3>1, <3>2 DEF Unseen
  <2> QED BY <1>1, <1>b, <2>2, <2>3, <2>4, <2>5, <2>6 DEF Room
<1>10. CASE PopJob
  <2>1. /\ pc' = [pc EXCEPT ![Owner] = "check"]
        /\ UNCHANGED <<state, place, making, made, overrun>>
    BY <1>10 DEF PopJob, Goto, jobVars, mainVars
  <2>2. WaitsForSome'
    BY <1>2, <1>3, <2>1
  <2>3. \E s \in Slots : got' = [got EXCEPT ![Owner] = <<ring[s]>>]
    <3>1. CASE PopNewest
      <4>1. At(count - 1) \in Slots
        BY <1>b, <3>1 DEF At, Slots, PopNewest
      <4> QED BY <3>1, <4>1 DEF PopNewest
    <3>2. CASE TakeOldest(Owner)
      BY <1>b, <3>2 DEF TakeOldest
    <3> QED BY <1>10, <3>1, <3>2 DEF PopJob
  <2>4. ring' = ring /\ count' = count - 1 /\ (former' = former \/ FrontMoves)
    BY <1>10 DEF PopJob, PopNewest, TakeOldest
  <2> QED BY <1>1, <1>b, <2>1, <2>2, <2>3, <2>4, RoomTake
<1>11. CASE PopNothing
  <2>1. /\ pc[Owner] = "pop" /\ pc' = [pc EXCEPT ![Owner] = "wait"] /\ count = 0 /\ count' = 1
        /\ UNCHANGED <<ring, got, state, place, making, made, former, overrun>>
    BY <1>11 DEF PopNothing, Phantom, Goto, jobVars, mainVars
  <2>2. WaitsForSome' /\ Used' = Used
    BY <1>2, <1>3, <2>1
  <2>3. making \notin Jobs /\ Cardinality(Used) >= 1 /\ pc'[Owner] = "wait"
    BY <1>1, <1>b, <2>1, UsedCounts DEF Room, WaitsForSome, MakerInv, TypeOK
  <2>4. Cardinality(Used') + Making' <= made' /\ count' + Pushing' <= Cardinality(Used')
    BY <1>1, <1>a, <1>b, <2>1, <2>2, <2>3 DEF Room, Making, Pushing
  <2>5. \A j \in Jobs : Unseen(j)' <=> Unseen(j)
    BY <2>1 DEF Unseen
  <2> QED BY <1>1, <2>1, <2>2, <2>3, <2>4, <2>5 DEF Room
<1>12. ASSUME NEW p \in Thieves, Steals(p) PROVE Room'
  <2>1. StealJob(p)
    BY <1>1, <1>12 DEF Steals, StealOverwritten, Room
  <2>2. /\ pc' = [pc EXCEPT ![p] = "check"] /\ got' = [got EXCEPT ![p] = <<ring[front]>>]
        /\ ring' = ring /\ count' = count - 1 /\ FrontMoves
        /\ UNCHANGED <<state, place, making, made, overrun>>
    BY <2>1 DEF StealJob, Steal, TakeOldest, Goto, jobVars, mainVars
  <2>3. WaitsForSome'
    BY <1>2, <1>3, <2>2
  <2> QED BY <1>1, <1>b, <2>2, <2>3, RoomTake
<1>13. CASE ClearGroup \/ SetGroup \/ ScheduleActive \/ WaitForAll
            \/ (\E j \in Jobs : WaitForJob(j)) \/ WaitReturns \/ WaitHelps
  <2>1. /\ UNCHANGED <<ring, count, got, state, place, making, made, former, overrun>>
        /\ \E label \in {"user", "set_group", "schedule", "push", "wait", "pop"} :
             pc' = [pc EXCEPT ![Owner] = label]
    BY <1>13 DEF ClearGroup, SetGroup, ScheduleActive, WaitForAll, WaitForJob, Wait,
       WaitReturns, WaitHelps, Goto, queueVars, ringVars, jobVars, mainVars
  <2>2. WaitsForSome' /\ Used' = Used
    BY <1>2, <1>3, <2>1
  <2> QED BY <1>1, <1>b, <2>1, <2>2, RoomQuiet
<1>14. ASSUME NEW p \in Threads, RunJob(p) PROVE Room'
  BY <1>1, <1>14, RoomRunJob
<1> QED
  BY <1>4, <1>5, <1>6, <1>7, <1>8, <1>9, <1>10, <1>11, <1>12, <1>13, <1>14, <1>b
     DEF Next, UserStep, OwnerStep, Steals

LEMMA RoomInit == Init => RoomInv
<1> SUFFICES ASSUME Init PROVE Room
  BY DEF RoomInv
<1>a. Owner \in Threads /\ Null \notin Jobs
  BY RingAssumption DEF Threads
<1>1. Used = {} /\ Cardinality(Used) = 0
  <2>1. Used = {}
    BY DEF Init, Used
  <2> QED BY <2>1, FS_EmptySet
<1>2. ASSUME NEW j \in Jobs PROVE Unseen(j)
  <2>1. ASSUME NEW q \in Threads, got[q] = <<j>> PROVE FALSE
    <3>1. got[q] = <<>>
      BY DEF Init, QueueInit
    <3>2. <<j>> # <<>>
      OBVIOUS
    <3> QED BY <2>1, <3>1, <3>2
  <2>2. \A s \in Slots : ring[s] # j
    BY <1>a DEF Init, QueueInit
  <2> QED BY <2>1, <2>2 DEF Unseen
<1>3. /\ \A j \in Jobs : state[j] = "unknown" /\ making # j
      /\ pc[Owner] = "user" /\ \A p \in Thieves : former[p] = {}
      /\ count = 0 /\ made = 0 /\ making \notin Jobs /\ job_count = 0 /\ ~overrun
  BY <1>a DEF Init, QueueInit
<1> QED BY <1>1, <1>2, <1>3 DEF Room, Pushing, Making, WaitsForSome, Outside

LEMMA RoomInvariant == Spec => []RoomInv
<1>1. TypeOK /\ MakerInv /\ BlocksInv /\ RoomInv /\ [Next]_vars => RoomInv'
  BY RoomStep
<1> QED BY <1>1, RoomInit, BlocksInvariant, PTL DEF Spec

(* No push overwrites an entry before a block has been recycled, though    *)
(* there may be as many blocks as slots and empty pops add entries.        *)
THEOREM FreshRingHasRoom == Spec => [](Fresh => ~overrun)
<1>1. RoomInv => (Fresh => ~overrun)
  BY DEF RoomInv, Room
<1> QED BY <1>1, RoomInvariant, PTL

--------------------------------------------------------------------------------
(* Until a block is recycled, and until an empty pop exposes a job that a  *)
(* thread is about to mark running, a ready job is in one place: in one    *)
(* entry of the queue, or in the hands of one thread.                      *)

(* A thread has taken j and not marked it running. *)
Taken(p, j) == got[p] = <<j>> /\ pc[p] \in {"check", "start"}

OnePlace(j) ==
  /\ \A i, k \in 0 .. (count - 1) : ring[At(i)] = j /\ ring[At(k)] = j => i = k
  /\ \A p, q \in Threads : Taken(p, j) /\ Taken(q, j) => p = q
  /\ \A i \in 0 .. (count - 1), p \in Threads : ~(ring[At(i)] = j /\ Taken(p, j))

Once ==
  /\ ~doubled /\ ~early
  /\ making \in Jobs => state[making] = "ready"
  /\ \A j \in Jobs : state[j] = "ready" => OnePlace(j)
  /\ \A p \in Threads : pc[p] = "start" => \E j \in Jobs : got[p] = <<j>> /\ state[j] = "ready"

OnceInv == Fresh /\ ~exposed => Once

(* The slots of a ring.                                                    *)
LEMMA Division ==
  ASSUME NEW x \in Int
  PROVE  /\ x \div Capacity \in Int /\ x % Capacity \in 0 .. (Capacity - 1)
         /\ x = Capacity * (x \div Capacity) + (x % Capacity)
<1>1. Capacity \in Nat \ {0}
  BY RingAssumption
<1>2. x \div Capacity \in Int /\ x % Capacity \in 0 .. (Capacity - 1)
  BY <1>1
<1>3. x = Capacity * (x \div Capacity) + (x % Capacity)
  BY <1>1
<1> QED BY <1>2, <1>3

LEMMA SmallRemainder ==
  ASSUME NEW x \in Nat, x < 2 * Capacity
  PROVE  x % Capacity = IF x < Capacity THEN x ELSE x - Capacity
<1>1. /\ Capacity \in Nat \ {0}
      /\ x \div Capacity \in Int /\ x % Capacity \in 0 .. (Capacity - 1)
      /\ x = Capacity * (x \div Capacity) + (x % Capacity)
  BY Division, RingAssumption
<1> DEFINE q == x \div Capacity
           r == x % Capacity
<1>2. q \in Int /\ r \in 0 .. (Capacity - 1) /\ x = Capacity * q + r
  BY <1>1
<1> HIDE DEF q, r
<1>3. CASE q <= -1
  BY <1>1, <1>2, <1>3
<1>4. CASE q = 0
  BY <1>1, <1>2, <1>4 DEF r
<1>5. CASE q = 1
  BY <1>1, <1>2, <1>5 DEF r
<1>6. CASE q >= 2
  BY <1>1, <1>2, <1>6
<1> QED BY <1>2, <1>3, <1>4, <1>5, <1>6

LEMMA Entries ==
  ASSUME front \in Slots
  PROVE  /\ At(0) = front
         /\ \A i \in 0 .. (Capacity - 1) : At(i) \in Slots
         /\ \A i, k \in 0 .. (Capacity - 1) : At(i) = At(k) => i = k
         /\ \A i \in 0 .. (Capacity - 1) : front' = At(1) => At(i)' = At(i + 1)
<1> USE DEF Slots
<1>1. Capacity \in Nat \ {0} /\ front \in Nat /\ front < Capacity
  BY RingAssumption
<1>2. \A i \in 0 .. (Capacity - 1) :
        At(i) = IF front + i < Capacity THEN front + i ELSE front + i - Capacity
  BY <1>1, SmallRemainder DEF At
<1>3. ASSUME NEW i \in 0 .. (Capacity - 1), front' = At(1) PROVE At(i)' = At(i + 1)
  <2>1. front' = IF front + 1 < Capacity THEN front + 1 ELSE 0
    BY <1>1, <1>3, SmallRemainder DEF At
  <2>2. At(i)' = IF front' + i < Capacity THEN front' + i ELSE front' + i - Capacity
    BY <1>1, <2>1, SmallRemainder DEF At
  <2>3. front + (i + 1) < 2 * Capacity /\ front + (i + 1) \in Nat
    BY <1>1
  <2>4. At(i + 1) = IF front + (i + 1) < Capacity THEN front + (i + 1)
                                                  ELSE front + (i + 1) - Capacity
    BY <1>1, <2>3, SmallRemainder DEF At
  <2> QED BY <1>1, <2>1, <2>2, <2>4
<1> QED BY <1>1, <1>2, <1>3

(* Steps that leave the queue alone and take no entry.  A job whose state  *)
(* changes is in nobody else's hands, and not the one being made.          *)
LEMMA OnceQuiet ==
  ASSUME TypeOK, Once, NEW p \in Threads, NEW label,
         label \notin {"check", "start"},
         pc' = [pc EXCEPT ![p] = label],
         UNCHANGED <<ring, front, count, making>>, ~doubled', ~early',
         got' = got \/ got' = [got EXCEPT ![p] = <<>>],
         \A j \in Jobs :
           \/ state'[j] = state[j]
           \/ /\ state'[j] # "ready" /\ making # j
              /\ \A q \in Threads : q # p => ~(pc[q] = "start" /\ got[q] = <<j>>)
  PROVE  Once'
<1>1. \A q \in Threads :
        /\ q # p => pc'[q] = pc[q] /\ got'[q] = got[q]
        /\ got'[q] = got[q] \/ got'[q] = <<>>
        /\ pc'[p] = label
  BY DEF TypeOK
<1>2. \A q \in Threads, j \in Jobs :
        /\ got'[q] = <<j>> => got[q] = <<j>>
        /\ Taken(q, j)' => q # p /\ Taken(q, j)
  BY <1>1 DEF Taken
<1>5. \A i : At(i)' = At(i)
  BY DEF At
<1>6. \A j \in Jobs : OnePlace(j) => OnePlace(j)'
  BY <1>2, <1>5 DEF OnePlace
<1>7. \A q \in Threads : pc'[q] = "start" =>
        \E j \in Jobs : got'[q] = <<j>> /\ state'[j] = "ready"
  <2> SUFFICES ASSUME NEW q \in Threads, pc'[q] = "start"
               PROVE  \E j \in Jobs : got'[q] = <<j>> /\ state'[j] = "ready"
    OBVIOUS
  <2>1. q # p /\ pc[q] = "start" /\ got'[q] = got[q]
    BY <1>1
  <2>2. PICK j \in Jobs : got[q] = <<j>> /\ state[j] = "ready"
    BY <2>1 DEF Once
  <2>3. state'[j] = state[j]
    BY <2>1, <2>2
  <2> QED BY <2>1, <2>2, <2>3
<1> QED BY <1>6, <1>7 DEF Once

(* A block that has just been made a job of is in no place yet.            *)
LEMMA OnceMake ==
  ASSUME TypeOK, Room, Once, NEW j \in Jobs, MakeReady(j)
  PROVE  Once'
<1>a. Owner \in Threads
  BY DEF Threads
<1>1. /\ place[j] = "pool" /\ state' = [state EXCEPT ![j] = "ready"] /\ making' = j
      /\ pc[Owner] = "make" /\ pc' = [pc EXCEPT ![Owner] = "clear_group"]
      /\ UNCHANGED <<ring, front, count, got, early, doubled>>
  <2>1. pc[Owner] = "make" /\ Allocate(j, {})
    BY DEF MakeReady, Room
  <2> QED BY <2>1 DEF Allocate, InPool, Goto, queueVars
<1>2. \A q \in Threads : pc'[q] = IF q = Owner THEN "clear_group" ELSE pc[q]
  BY <1>1 DEF TypeOK
<1>3. Unseen(j)
  BY <1>1 DEF Room
<1>4. \A q \in Threads, k \in Jobs : Taken(q, k)' <=> Taken(q, k)
  BY <1>1, <1>2, <1>a DEF Taken
<1>5. \A i : At(i)' = At(i)
  BY <1>1 DEF At
<1>6. \A k \in Jobs : OnePlace(k)' <=> OnePlace(k)
  BY <1>1, <1>4, <1>5 DEF OnePlace
<1>7. OnePlace(j)
  <2>1. \A i \in 0 .. (count - 1) : ring[At(i)] # j
    <3>1. \A i \in 0 .. (count - 1) : At(i) \in Slots
      BY RoomFits, Entries, RingAssumption DEF TypeOK
    <3> QED BY <1>3, <3>1 DEF Unseen
  <2>2. \A q \in Threads : ~Taken(q, j)
    BY <1>3 DEF Unseen, Taken
  <2> QED BY <2>1, <2>2 DEF OnePlace
<1>8. \A k \in Jobs : state'[k] = "ready" => OnePlace(k)'
  BY <1>1, <1>6, <1>7 DEF Once, TypeOK
<1>9. \A q \in Threads : pc'[q] = "start" =>
         \E k \in Jobs : got'[q] = <<k>> /\ state'[k] = "ready"
  BY <1>1, <1>2 DEF Once, TypeOK
<1> QED BY <1>1, <1>8, <1>9 DEF Once, TypeOK

(* A job that is pushed was nowhere before. *)
LEMMA OncePush ==
  ASSUME TypeOK, MakerInv, Room, Once, NEW j \in Jobs, making = j, SchedulePush
  PROVE  Once'
<1>a. /\ Owner \in Threads /\ Null \notin Jobs /\ Capacity \in Nat
      /\ count \in 0 .. (Capacity - 1)
  BY RingAssumption DEF Threads, TypeOK, SchedulePush, Push
<1>1. /\ pc[Owner] = "push" /\ pc' = [pc EXCEPT ![Owner] = "user"] /\ making' = Null
      /\ ring' = [ring EXCEPT ![At(count)] = j] /\ count' = count + 1 /\ front' = front
      /\ got' = [got EXCEPT ![Owner] = <<>>]
      /\ UNCHANGED <<state, early, doubled>>
  BY DEF SchedulePush, Push, Goto, jobVars
<1>2. j \in Jobs /\ state[j] = "ready" /\ Unseen(j)
  BY <1>1 DEF Room, Once
<1>3. \A i : At(i)' = At(i)
  BY <1>1 DEF At
<1>4. \A i \in 0 .. (count - 1) : ring'[At(i)] = ring[At(i)] /\ ring[At(i)] # j
  <2>1. \A i \in 0 .. (count - 1) : At(i) \in Slots /\ At(i) # At(count)
    BY <1>a, Entries DEF TypeOK
  <2> QED BY <1>1, <1>2, <2>1 DEF TypeOK, Unseen
<1>5. \A q \in Threads : /\ q # Owner => got'[q] = got[q] /\ pc'[q] = pc[q]
                         /\ pc'[Owner] = "user" /\ got'[Owner] = <<>>
  BY <1>1, <1>a DEF TypeOK
<1>6. \A q \in Threads, k \in Jobs : Taken(q, k)' => Taken(q, k) /\ k # j
  BY <1>2, <1>5 DEF Taken, Unseen
<1>7. ring'[At(count)] = j
  BY <1>1, <1>a, Entries DEF TypeOK
<1>8. OnePlace(j)'
  <2>1. \A i \in 0 .. (count' - 1) : (ring[At(i)])' = j => i = count
    BY <1>1, <1>3, <1>4, <1>a
  <2>2. \A q \in Threads : ~(got'[q] = <<j>> /\ pc'[q] \in {"check", "start"})
    BY <1>2, <1>6 DEF Taken
  <2>3. \A i, k \in 0 .. (count' - 1) : (ring[At(i)])' = j /\ (ring[At(k)])' = j => i = k
    BY <2>1
  <2> QED BY <2>3, <2>2 DEF OnePlace, Taken
<1>9. ASSUME NEW k \in Jobs, k # j, OnePlace(k) PROVE OnePlace(k)'
  <2>1. \A i \in 0 .. (count' - 1) : ring'[At(i)'] = k =>
          i \in 0 .. (count - 1) /\ ring[At(i)] = k
    BY <1>1, <1>3, <1>4, <1>7, <1>9, <1>a
  <2> QED BY <1>6, <1>9, <2>1 DEF OnePlace
<1>10. \A k \in Jobs : state'[k] = "ready" => OnePlace(k)'
  BY <1>1, <1>8, <1>9 DEF Once
<1>11. \A q \in Threads : pc'[q] = "start" =>
         \E k \in Jobs : got'[q] = <<k>> /\ state'[k] = "ready"
  BY <1>1, <1>5 DEF Once
<1> QED BY <1>a, <1>1, <1>10, <1>11 DEF Once

(* An entry that is taken, at either end, moves from the queue into one    *)
(* thread's hands.                                                         *)
LEMMA OnceTake ==
  ASSUME TypeOK, Room, Once, NEW p \in Threads, NEW e \in 0 .. (count - 1),
         pc[p] \notin {"check", "start"}, pc' = [pc EXCEPT ![p] = "check"],
         got' = [got EXCEPT ![p] = <<ring[At(e)]>>], ring' = ring, count' = count - 1,
         \/ e = count - 1 /\ front' = front
         \/ e = 0 /\ front' = At(1),
         UNCHANGED <<state, making, early, doubled>>
  PROVE  Once'
<1>a. /\ Owner \in Threads /\ Capacity \in Nat \ {0} /\ count \in 0 .. Capacity
  BY RoomFits, RingAssumption DEF Threads
<1>1. \A q \in Threads :
        /\ q # p => got'[q] = got[q] /\ pc'[q] = pc[q]
        /\ pc'[p] = "check" /\ got'[p] = <<ring[At(e)]>>
  BY DEF TypeOK
<1> DEFINE Old(i) == IF e = 0 /\ front' = At(1) THEN i + 1 ELSE i
<1>2. \A i \in 0 .. (count' - 1) :
        Old(i) \in 0 .. (count - 1) /\ Old(i) # e /\ At(i)' = At(Old(i))
  <2> TAKE i \in 0 .. (count' - 1)
  <2>1. i \in 0 .. (Capacity - 1) /\ i + 1 \in 0 .. (count - 1) /\ i \in 0 .. (count - 1)
    BY <1>a
  <2>2. CASE e = 0 /\ front' = At(1)
    <3>1. At(i)' = At(i + 1)
      BY <2>1, <2>2, Entries DEF TypeOK
    <3> QED BY <2>1, <2>2, <3>1
  <2>3. CASE ~(e = 0 /\ front' = At(1))
    <3>1. e = count - 1 /\ front' = front
      BY <2>3
    <3>2. At(i)' = At(i)
      BY <3>1 DEF At
    <3> QED BY <1>a, <2>1, <2>3, <3>1, <3>2
  <2> QED BY <2>2, <2>3
<1>3. \A i, k \in 0 .. (count' - 1) : Old(i) = Old(k) => i = k
  BY <1>a
<1> HIDE DEF Old
<1>4. ASSUME NEW j \in Jobs, OnePlace(j) PROVE OnePlace(j)'
  <2>1. \A i \in 0 .. (count' - 1) : (ring[At(i)])' = ring[At(Old(i))]
    BY <1>2
  <2>2. ASSUME NEW q \in Threads, Taken(q, j)'
        PROVE  \/ q # p /\ Taken(q, j)
               \/ q = p /\ ring[At(e)] = j
    BY <1>1, <2>2 DEF Taken
  <2>3. \A q \in Threads, i \in 0 .. (count - 1) : ~(ring[At(i)] = j /\ Taken(q, j))
    BY <1>4 DEF OnePlace
  <2>4. \A i, k \in 0 .. (count - 1) : ring[At(i)] = j /\ ring[At(k)] = j => i = k
    BY <1>4 DEF OnePlace
  <2>5. \A i, k \in 0 .. (count' - 1) : (ring[At(i)])' = j /\ (ring[At(k)])' = j => i = k
    BY <1>2, <1>3, <2>1, <2>4
  <2>6. \A q, r \in Threads : Taken(q, j)' /\ Taken(r, j)' => q = r
    <3>1. \A q, r \in Threads : Taken(q, j) /\ Taken(r, j) => q = r
      BY <1>4 DEF OnePlace
    <3> QED BY <2>2, <2>3, <3>1
  <2>7. ASSUME NEW q \in Threads, NEW i \in 0 .. (count' - 1),
               (ring[At(i)])' = j, Taken(q, j)'
        PROVE  FALSE
    BY <1>2, <2>1, <2>2, <2>3, <2>4, <2>7
  <2> QED BY <2>5, <2>6, <2>7 DEF OnePlace
<1>5. \A q \in Threads : pc'[q] = "start" =>
         \E k \in Jobs : got'[q] = <<k>> /\ state'[k] = "ready"
  BY <1>1 DEF Once
<1> QED BY <1>4, <1>5 DEF Once

(* An empty pop exposes the slot where the next push goes.                 *)
LEMMA OncePhantom ==
  ASSUME TypeOK, Once, PopNothing, ~exposed'
  PROVE  Once'
<1>a. /\ Owner \in Threads /\ Capacity \in Nat \ {0}
  BY RingAssumption DEF Threads
<1>1. /\ pc[Owner] = "pop" /\ pc' = [pc EXCEPT ![Owner] = "wait"]
      /\ count = 0 /\ count' = 1
      /\ UNCHANGED <<ring, front, got, state, making, early, doubled>>
  BY DEF PopNothing, Phantom, Goto, jobVars, mainVars
<1>2. \A q \in Threads : pc[q] \in {"check", "start"} => got[q] # <<ring[front]>>
  BY DEF PopNothing, Stale
<1>3. \A q \in Threads : /\ q # Owner => pc'[q] = pc[q]
                         /\ pc'[Owner] = "wait"
  BY <1>1, <1>a DEF TypeOK
<1>4. At(0)' = front
  BY <1>1, Entries DEF At, TypeOK
<1>5. \A q \in Threads, j \in Jobs : Taken(q, j)' => Taken(q, j) /\ ring[front] # j
  BY <1>1, <1>2, <1>3 DEF Taken
<1>6. ASSUME NEW j \in Jobs, OnePlace(j) PROVE OnePlace(j)'
  <2>1. \A i, k \in 0 .. (count' - 1) : i = k /\ i = 0
    BY <1>1
  <2>2. \A i \in 0 .. (count' - 1) : (ring[At(i)])' = ring[front]
    BY <1>1, <1>4, <2>1
  <2>3. \A q, r \in Threads : Taken(q, j)' /\ Taken(r, j)' => q = r
    BY <1>5, <1>6 DEF OnePlace
  <2>4. \A i \in 0 .. (count' - 1), q \in Threads : ~((ring[At(i)])' = j /\ Taken(q, j)')
    BY <1>5, <2>2
  <2> QED BY <2>1, <2>3, <2>4 DEF OnePlace
<1>7. \A q \in Threads : pc'[q] = "start" =>
        \E k \in Jobs : got'[q] = <<k>> /\ state'[k] = "ready"
  BY <1>1, <1>3 DEF Once
<1> QED BY <1>1, <1>6, <1>7 DEF Once

(* A thread that found its job ready is about to run it. *)
LEMMA OnceCheck ==
  ASSUME TypeOK, Once, NEW p \in Threads, CheckReady(p)
  PROVE  Once'
<1>1. /\ pc[p] = "check" /\ pc' = [pc EXCEPT ![p] = "start"]
      /\ UNCHANGED <<ring, front, count, got, state, making, early, doubled>>
  BY DEF CheckReady, Goto, queueVars, jobVars, mainVars
<1>2. \A q \in Threads : (q # p => pc'[q] = pc[q]) /\ pc'[p] = "start"
  BY <1>1 DEF TypeOK
<1>3. \A q \in Threads, j \in Jobs : Taken(q, j)' <=> Taken(q, j)
  BY <1>1, <1>2 DEF Taken
<1>4. \A i : At(i)' = At(i)
  BY <1>1 DEF At
<1>5. \A j \in Jobs : OnePlace(j)' <=> OnePlace(j)
  BY <1>1, <1>3, <1>4 DEF OnePlace
<1>6. \A q \in Threads : pc'[q] = "start" =>
        \E j \in Jobs : got'[q] = <<j>> /\ state'[j] = "ready"
  BY <1>1, <1>2 DEF Once, CheckReady, Ready
<1> QED BY <1>1, <1>5, <1>6 DEF Once

(* A job that is entered is ready, was pushed, and is in no other hands. *)
LEMMA OnceStart ==
  ASSUME TypeOK, Room, Once, NEW p \in Threads, Start(p)
  PROVE  Once'
<1>1. PICK j \in Jobs : /\ got[p] = <<j>>
                       /\ state' = [state EXCEPT ![j] = "running"]
                       /\ early' = (early \/ j = making)
                       /\ doubled' = (doubled \/ state[j] # "ready")
  BY Zenon DEF Start
<1>2. /\ pc[p] = "start" /\ pc' = [pc EXCEPT ![p] = "running"]
      /\ UNCHANGED <<ring, front, count, got, making>>
  BY DEF Start, Goto, queueVars, mainVars
<1>3. state[j] = "ready" /\ making # j /\ OnePlace(j)
  BY <1>1, <1>2 DEF Once, Room, Unseen
<1>4. ~doubled' /\ ~early'
  BY <1>1, <1>3, Zenon DEF Once
<1>6. \A q \in Threads : q # p => ~(pc[q] = "start" /\ got[q] = <<j>>)
  BY <1>1, <1>2, <1>3 DEF OnePlace, Taken
<1>7. \A k \in Jobs : \/ state'[k] = state[k]
                      \/ k = j /\ state'[k] = "running"
  BY <1>1 DEF TypeOK
<1>8. \A k \in Jobs :
        \/ state'[k] = state[k]
        \/ /\ state'[k] # "ready" /\ making # k
           /\ \A q \in Threads : q # p => ~(pc[q] = "start" /\ got[q] = <<k>>)
  BY <1>3, <1>6, <1>7
<1> QED BY <1>2, <1>4, <1>8, OnceQuiet

(* What neither gives nor takes an entry, nor changes what is ready. *)
LEMMA OnceElsewhere ==
  ASSUME TypeOK, Once,
         \/ GroupRun \/ Run \/ ClearGroup \/ SetGroup \/ ScheduleActive
         \/ WaitForAll \/ \E j \in Jobs : WaitForJob(j)
         \/ WaitReturns \/ WaitHelps
  PROVE  Once'
<1>1. /\ UNCHANGED <<ring, front, count, got, state, making, early, doubled>>
      /\ \E label \in {"make", "user", "set_group", "schedule", "push", "wait", "pop"} :
           pc' = [pc EXCEPT ![Owner] = label]
  BY DEF GroupRun, Run, BeginRun, ClearGroup, SetGroup, ScheduleActive, WaitForAll, WaitForJob,
     Wait, WaitReturns, WaitHelps, Goto, queueVars, jobVars, mainVars
<1>2. ~doubled' /\ ~early' /\ Owner \in Threads
  BY <1>1 DEF Once, Threads
<1> QED BY <1>1, <1>2, OnceQuiet

LEMMA OnceRunJob ==
  ASSUME TypeOK, BlocksInv, Room, Once, NEW p \in Threads, RunJob(p)
  PROVE  Once'
<1>1. CASE CheckReady(p)
  BY <1>1, OnceCheck
<1>2. CASE Start(p)
  BY <1>2, OnceStart
<1>3. CASE DropUnready(p) \/ ActiveDecrement(p)
  <2>1. /\ UNCHANGED <<ring, front, count, state, making, early, doubled>>
        /\ got' = [got EXCEPT ![p] = <<>>]
        /\ \E label \in {"wait", "idle", "active_clamp"} : pc' = [pc EXCEPT ![p] = label]
    BY <1>3 DEF DropUnready, ActiveDecrement, Begin, Goto, Home, jobVars, mainVars
  <2>2. ~doubled' /\ ~early'
    BY <2>1 DEF Once
  <2> QED BY <2>1, <2>2, OnceQuiet
<1>4. CASE GroupDecrement(p) \/ GroupClamp(p) \/ BeginFree(p) \/ EndFree(p) \/ ActiveClamp(p)
  <2>1. /\ UNCHANGED <<ring, front, count, got, state, making, early, doubled>>
        /\ \E label \in {"wait", "idle", "group_clamp", "free", "freeing", "active_decrement"} :
             pc' = [pc EXCEPT ![p] = label]
    BY <1>4 DEF GroupDecrement, GroupClamp, BeginFree, EndFree, ActiveClamp, Goto, Home, queueVars,
       jobVars, mainVars
  <2>2. ~doubled' /\ ~early'
    BY <2>1 DEF Once
  <2> QED BY <2>1, <2>2, OnceQuiet
<1>5. CASE Finish(p)
  <2>1. PICK j \in Jobs : got[p] = <<j>> /\ state' = [state EXCEPT ![j] = "completed"]
    BY <1>5 DEF Finish
  <2>2. /\ pc[p] = "running" /\ pc' = [pc EXCEPT ![p] = "finished"]
        /\ UNCHANGED <<ring, front, count, got, making, early, doubled>>
    BY <1>5 DEF Finish, Goto, queueVars, mainVars
  <2>3. state[j] = "running"
    BY <2>1, <2>2 DEF BlocksInv, Holds, Once
  <2>4. making # j /\ \A q \in Threads : ~(pc[q] = "start" /\ got[q] = <<j>>)
    BY <2>3 DEF Once
  <2>5. ~doubled' /\ ~early'
    BY <2>2 DEF Once
  <2>6. \A k \in Jobs :
          \/ state'[k] = state[k]
          \/ /\ state'[k] # "ready" /\ making # k
             /\ \A q \in Threads : q # p => ~(pc[q] = "start" /\ got[q] = <<k>>)
    BY <2>1, <2>4 DEF TypeOK
  <2> QED BY <2>2, <2>5, <2>6, OnceQuiet
<1> QED BY <1>1, <1>2, <1>3, <1>4, <1>5 DEF RunJob

LEMMA OncePopSteal ==
  /\ TypeOK /\ Room /\ Once /\ PopJob => Once'
  /\ \A p \in Thieves : TypeOK /\ Room /\ Once /\ StealJob(p) => Once'
<1>a. Owner \in Threads /\ Thieves \subseteq Threads /\ Owner \notin Thieves
  BY RingAssumption DEF Threads
<1>1. ASSUME TypeOK, Room, Once, NEW p \in Threads, TakeOldest(p), pc[p] \in {"pop", "idle"},
             pc' = [pc EXCEPT ![p] = "check"],
             UNCHANGED <<state, making, early, doubled>>
      PROVE  Once'
  <2>1. At(0) = front /\ 0 \in 0 .. (count - 1)
    BY <1>1, Entries DEF TypeOK, TakeOldest
  <2>2. /\ got' = [got EXCEPT ![p] = <<ring[At(0)]>>] /\ ring' = ring
        /\ count' = count - 1 /\ front' = At(1)
    BY <1>1, <2>1 DEF TakeOldest
  <2> QED BY <1>1, <2>1, <2>2, OnceTake
<1>2. ASSUME TypeOK, Room, Once, PopJob PROVE Once'
  <2>1. /\ pc[Owner] = "pop" /\ pc' = [pc EXCEPT ![Owner] = "check"]
        /\ UNCHANGED <<state, making, early, doubled>>
    BY <1>2 DEF PopJob, Goto, jobVars, mainVars
  <2>2. CASE TakeOldest(Owner)
    BY <1>1, <1>2, <1>a, <2>1, <2>2
  <2>3. CASE PopNewest
    <3>1. count - 1 \in 0 .. (count - 1)
      BY <1>2, <2>3 DEF PopNewest, TypeOK
    <3> QED BY <1>2, <1>a, <2>1, <2>3, <3>1, OnceTake DEF PopNewest
  <2> QED BY <1>2, <2>2, <2>3 DEF PopJob
<1>3. ASSUME TypeOK, Room, Once, NEW p \in Thieves, StealJob(p) PROVE Once'
  <2>1. /\ pc[p] = "idle" /\ pc' = [pc EXCEPT ![p] = "check"] /\ TakeOldest(p)
        /\ UNCHANGED <<state, making, early, doubled>>
    BY <1>3 DEF StealJob, Steal, Goto, jobVars, mainVars
  <2> QED BY <1>1, <1>3, <1>a, <2>1
<1> QED BY <1>2, <1>3

LEMMA OnceStep ==
  ASSUME TypeOK, MakerInv, BlocksInv, RoomInv, OnceInv, [Next]_vars
  PROVE  OnceInv'
<1>a. (Fresh' => Fresh) /\ (exposed => exposed')
  <2>1. made \in Nat /\ Cardinality(Jobs) \in Nat
    BY UsedCounts, GroupAssumption DEF TypeOK
  <2> QED BY <2>1, NeverFresher DEF Fresh
<1> SUFFICES ASSUME Fresh', ~exposed' PROVE Once'
  BY DEF OnceInv
<1>1. Room /\ Once /\ Fresh
  BY <1>a DEF RoomInv, OnceInv
<1>2. CASE UNCHANGED vars
  BY <1>1, <1>2 DEF vars, queueVars, jobVars, mainVars, Once, OnePlace, Taken, At
<1>3. CASE UserStep
  BY <1>1, <1>3, OnceElsewhere DEF UserStep
<1>4. ASSUME SchedulePush PROVE Once'
  <2>1. making \in Jobs
    BY <1>4 DEF SchedulePush, MakerInv
  <2> QED BY <1>1, <1>4, <2>1, OncePush
<1>5. Owner \in Threads /\ Thieves \subseteq Threads /\ Capacity \in Nat
  BY RingAssumption DEF Threads
<1>6. ~BeginReclaim /\ ~MakeFails /\ ~PushPublishes /\ ~PushOverwrites
  <2>1. ~BeginReclaim /\ ~MakeFails /\ ~PushPublishes
    BY <1>1, RoomMakes DEF Room, BeginReclaim, MakeFails, PushPublishes
  <2>2. ~PushOverwrites
    BY <1>1, <1>5, RoomFits DEF PushOverwrites, MakerInv
  <2> QED BY <2>1, <2>2
<1>7. CASE OwnerStep
  BY <1>1, <1>4, <1>5, <1>6, <1>7, OnceMake, OnceElsewhere, OncePopSteal, OncePhantom, OnceRunJob
     DEF OwnerStep
<1>8. ASSUME NEW p \in Thieves, StealJob(p) \/ StealOverwritten(p) \/ RunJob(p) PROVE Once'
  <2>1. ~StealOverwritten(p)
    BY <1>1 DEF StealOverwritten, Room
  <2> QED BY <1>1, <1>5, <1>8, <2>1, OncePopSteal, OnceRunJob
<1> QED BY <1>2, <1>3, <1>7, <1>8 DEF Next

LEMMA OnceInit == Init => OnceInv
<1> SUFFICES ASSUME Init PROVE Once
  BY DEF OnceInv
<1>a. Owner \in Threads /\ Null \notin Jobs
  BY RingAssumption DEF Threads
<1>1. ASSUME NEW j \in Jobs PROVE state[j] # "ready"
  <2>1. state[j] = "unknown"
    BY DEF Init
  <2> QED BY <2>1
<1>2. ASSUME NEW p \in Threads PROVE pc[p] # "start"
  <2>1. pc[p] \in {"user", "idle"}
    BY DEF Init
  <2> QED BY <2>1
<1> QED BY <1>a, <1>1, <1>2 DEF Init, Once

LEMMA OnceInvariant == Spec => []OnceInv
<1>1. TypeOK /\ MakerInv /\ BlocksInv /\ RoomInv /\ OnceInv /\ [Next]_vars => OnceInv'
  BY OnceStep
<1> QED BY <1>1, OnceInit, BlocksInvariant, RoomInvariant, PTL DEF Spec

(* As long as no block has been recycled a job runs twice, or before it    *)
(* was pushed, only if an empty pop put it back into the queue between a   *)
(* thread's taking it and its marking it running.                          *)
THEOREM RunsAtMostOnce == Spec => []AtMostOnce
<1>1. OnceInv => AtMostOnce
  BY DEF OnceInv, Once, AtMostOnce
<1> QED BY <1>1, OnceInvariant, PTL

(* Nothing else makes wait_for_all return before every job of the group is *)
(* done, as long as no block has been recycled.                            *)
THEOREM FreshWaitsCoverGroup ==
  Spec => [][(WaitReturns /\ waiting = "group" /\ Fresh /\ ~exposed) =>
               \A j \in Jobs : grouped[j] => state[j] = "completed"]_vars
<1>1. OnceInv /\ [(WaitReturns /\ waiting = "group" /\ ~early /\ ~doubled) =>
                     \A j \in Jobs : grouped[j] => state[j] = "completed"]_vars
      => [(WaitReturns /\ waiting = "group" /\ Fresh /\ ~exposed) =>
            \A j \in Jobs : grouped[j] => state[j] = "completed"]_vars
  BY DEF OnceInv, Once
<1> QED BY <1>1, OnceInvariant, WaitCoversGroup, PTL DEF GroupWaitCoversAll

(* And nothing else sends a worker to sleep while a job that was scheduled *)
(* is left.                                                                *)
THEOREM FreshActiveIsExact ==
  Spec => [](active = 0 /\ Fresh /\ ~exposed =>
               \A j \in Jobs : state[j] \in {"ready", "running"} =>
                 making = j /\ pc[Owner] \in {"clear_group", "set_group", "schedule"})
<1>1. OnceInv /\ ActiveCoversWork =>
        (active = 0 /\ Fresh /\ ~exposed =>
           \A j \in Jobs : state[j] \in {"ready", "running"} =>
             making = j /\ pc[Owner] \in {"clear_group", "set_group", "schedule"})
  BY DEF OnceInv, Once, ActiveCoversWork
<1> QED BY <1>1, OnceInvariant, ActiveIsExact, PTL
===============================================================================
