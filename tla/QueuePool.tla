------------------------------ MODULE QueuePool ------------------------------
(***************************************************************************)
(* The memory of a worker's queue: the Pool of stl_pool.cpp, through the   *)
(* PooledAllocator, under the two vectors of srmwqueue.  A vector doubles  *)
(* its array when it is full; an array of one element comes from the pool, *)
(* a longer one from the heap.  What a request is and who pushes it is the *)
(* subject of TrxWorker: here a vector is its length and its array.        *)
(*                                                                         *)
(* ~trx_worker_t empties the guards of the queue and of the pool by hand,  *)
(* since the pool, the member declared last, would be destroyed first.     *)
(***************************************************************************)
EXTENDS Naturals, Sequences, FiniteSets

CONSTANTS
  PoolSize,   \* REQUESTS_PER_WORKER_POOL_SZ
  MaxLength   \* bound: the longest a vector gets

QueuePoolAssumption ==
  /\ PoolSize \in Nat
  /\ MaxLength \in Nat \ {0}

Vectors == {"writers", "readers"}
Blocks == 0 .. PoolSize - 1
None == [from |-> "none", block |-> 0, size |-> 0]
Heap(n) == [from |-> "heap", block |-> 0, size |-> n]

VARIABLES
  slots,     \* m_slots: all of it, used or not
  used,      \* m_used
  overflow,  \* m_overflow
  array,     \* array[v]: the array of vector v
  length,    \* length[v]: its elements
  queue,     \* whether the queue is there
  pool       \* whether the pool is there

vars == <<slots, used, overflow, array, length, queue, pool>>

Arrays == [from : {"none", "pool", "heap", "overflow"}, block : Nat, size : Nat]

TypeOK ==
  /\ slots \in Seq(Blocks) /\ Len(slots) = PoolSize
  /\ used \in 0 .. PoolSize /\ overflow \in Nat
  /\ array \in [Vectors -> Arrays] /\ length \in [Vectors -> 0 .. MaxLength]
  /\ queue \in BOOLEAN /\ pool \in BOOLEAN

\* Pool::Pool() and srmwqueue().
Init ==
  /\ slots = [i \in 1 .. PoolSize |-> i - 1]
  /\ used = 0 /\ overflow = 0
  /\ array = [v \in Vectors |-> None]
  /\ length = [v \in Vectors |-> 0]
  /\ queue = TRUE /\ pool = TRUE

\* Pool::Allocate(): from the storage, or from the heap when that is used up.
Allocated ==
  IF used < PoolSize THEN [from |-> "pool", block |-> slots[used + 1], size |-> 1]
                     ELSE [from |-> "overflow", block |-> 0, size |-> 1]

\* Mutant of SlotsAfter: m_slots[m_used--], which puts a block one slot too high.
SlotsAfterHigh(s, u, a) ==
  IF a.from = "pool" /\ u < PoolSize THEN [s EXCEPT ![u + 1] = a.block] ELSE s

\* Pool::Deallocate() of an array: what it makes of m_slots and m_used.  A block goes back
\* to the top of the slots.
SlotsAfter(s, u, a) == IF a.from = "pool" THEN [s EXCEPT ![u] = a.block] ELSE s
UsedAfter(u, a) == IF a.from = "pool" THEN u - 1 ELSE u
Overflowing(a) == IF a.from = "overflow" THEN 1 ELSE 0

\* push(): a full vector is given an array of twice its size, the elements move, and the
\* old array is deallocated after the new one is allocated.
Push(v) ==
  /\ queue /\ length[v] < MaxLength
  /\ length' = [length EXCEPT ![v] = @ + 1]
  /\ IF length[v] < array[v].size
       THEN UNCHANGED <<slots, used, overflow, array>>
       ELSE IF array[v].size = 0
       THEN /\ array' = [array EXCEPT ![v] = Allocated]
            /\ IF used < PoolSize THEN used' = used + 1 /\ UNCHANGED overflow
                                  ELSE overflow' = overflow + 1 /\ UNCHANGED used
            /\ UNCHANGED slots
       ELSE /\ array' = [array EXCEPT ![v] = Heap(2 * array[v].size)]
            /\ slots' = SlotsAfter(slots, used, array[v])
            /\ used' = UsedAfter(used, array[v])
            /\ overflow' = overflow - Overflowing(array[v])
  /\ UNCHANGED <<queue, pool>>

\* The end of wait_for_input(): the readers' elements are erased, which keeps the array,
\* and the vectors are swapped with their arrays.
Swap ==
  /\ queue
  /\ array' = [writers |-> array["readers"], readers |-> array["writers"]]
  /\ length' = [writers |-> 0, readers |-> length["writers"]]
  /\ UNCHANGED <<slots, used, overflow, queue, pool>>

\* _pqueue = NULL: the guards of the queue delete the readers' vector first.
DeleteQueue ==
  /\ queue
  /\ queue' = FALSE
  /\ LET first  == array["readers"]
         second == array["writers"]
     IN /\ slots' = SlotsAfter(SlotsAfter(slots, used, first), UsedAfter(used, first), second)
        /\ used' = UsedAfter(UsedAfter(used, first), second)
        /\ overflow' = overflow - Overflowing(first) - Overflowing(second)
  /\ array' = [v \in Vectors |-> None]
  /\ length' = [v \in Vectors |-> 0]
  /\ UNCHANGED pool

\* _actionpool = NULL: ~Pool().
DeletePool ==
  /\ pool /\ ~queue
  /\ pool' = FALSE
  /\ UNCHANGED <<slots, used, overflow, array, length, queue>>

Next == (\E v \in {"writers"} : Push(v)) \/ Swap \/ DeleteQueue \/ DeletePool

Spec == Init /\ [][Next]_vars

-----------------------------------------------------------------------------
Held == {v \in Vectors : array[v].from = "pool"}
FreeBlocks == {slots[i] : i \in used + 1 .. PoolSize}

\* Every block of the storage is in one place: the array of one vector or one free slot.
\* The pool that counts them is there as long as a vector holds one, and has none
\* outstanding when it goes.
BlocksInOnePlace ==
  /\ \A v, w \in Held : v # w => array[v].block # array[w].block
  /\ \A i, j \in used + 1 .. PoolSize : slots[i] = slots[j] => i = j
  /\ FreeBlocks \cup {array[v].block : v \in Held} = Blocks
  /\ FreeBlocks \cap {array[v].block : v \in Held} = {}
  /\ ~pool => used = 0 /\ overflow = 0

=============================================================================
