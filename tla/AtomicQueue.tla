------------------------------ MODULE AtomicQueue ------------------------------
(***************************************************************************)
(* What FixedWorkStealingQueue promises: a ring whose operations take      *)
(* effect at one instant.  The owner adds and removes at the back, thieves *)
(* remove at the front, and every entry leaves the ring into the hands of  *)
(* exactly one thread.                                                     *)
(*                                                                         *)
(* Phantom is part of the promise because it is part of the code: a pop    *)
(* that finds nothing adds an entry whose content is whatever that slot of *)
(* the ring held before.                                                   *)
(***************************************************************************)
EXTENDS Integers

CONSTANTS Jobs,      \* the jobs that may be pushed
          Null,      \* nullptr, the content of a slot that was never written
          Owner,     \* the thread that owns the queue
          Thieves,   \* the threads that steal from it
          Capacity   \* the number of slots

ASSUME RingAssumption ==
  /\ Null \notin Jobs
  /\ Owner \notin Thieves
  /\ Capacity \in Nat \ {0}

VARIABLES ring,    \* ring[i]: the content of slot i
          front,   \* the slot of the oldest entry
          count,   \* the number of entries
          got      \* got[p]: <<content>> if p's last call took an entry, else <<>>

queueVars == <<ring, front, count, got>>

Threads == {Owner} \cup Thieves
Contents == Jobs \cup {Null}
Slots == 0 .. (Capacity - 1)

(* Mutant: the index is not wrapped. *)
AtUnwrapped(n) == front + n

At(n) == (front + n) % Capacity

QueueInit ==
  /\ ring = [i \in Slots |-> Null]
  /\ front = 0
  /\ count = 0
  /\ got = [p \in Threads |-> <<>>]

(* A thread gives up the result of its last call. *)
Begin(p) ==
  /\ got' = [got EXCEPT ![p] = <<>>]
  /\ UNCHANGED <<ring, front, count>>

Push(j) ==
  /\ count < Capacity
  /\ ring' = [ring EXCEPT ![At(count)] = j]
  /\ count' = count + 1
  /\ got' = [got EXCEPT ![Owner] = <<>>]
  /\ UNCHANGED front

PopNewest ==
  /\ count > 1
  /\ got' = [got EXCEPT ![Owner] = <<ring[At(count - 1)]>>]
  /\ count' = count - 1
  /\ UNCHANGED <<ring, front>>

TakeOldest(p) ==
  /\ count > 0
  /\ got' = [got EXCEPT ![p] = <<ring[front]>>]
  /\ front' = At(1)
  /\ count' = count - 1
  /\ UNCHANGED ring

(* The last entry is taken from the front even by the owner. *)
Pop == PopNewest \/ (count = 1 /\ TakeOldest(Owner))

Steal(p) == TakeOldest(p)

Phantom ==
  /\ count = 0
  /\ count' = 1
  /\ UNCHANGED <<ring, front, got>>

QueueNext ==
  \/ \E p \in Threads : Begin(p)
  \/ \E j \in Jobs : Push(j)
  \/ Pop
  \/ \E p \in Thieves : Steal(p)
  \/ Phantom

QueueSpec == QueueInit /\ [][QueueNext]_queueVars

================================================================================
