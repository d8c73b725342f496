----------------------------- MODULE ThreadPool -----------------------------
(***************************************************************************)
(* thread_pool and the wrappers of pthread around it (thread.cpp): at most *)
(* _max_active threads of a pool run at a time.  A thread that is about to *)
(* block in a mutex or a condition leaves the pool first and asks to be    *)
(* admitted again when it is woken up, at which time it holds the mutex.   *)
(*                                                                         *)
(* start() and stop() run under the lock of the pool and are one step.     *)
(* What the threads do with the wrappers is a small monitor: one thread    *)
(* opens a gate and the others wait until it is open, or until they time   *)
(* out.                                                                    *)
(***************************************************************************)
EXTENDS Naturals, FiniteSets

CONSTANTS
  Threads,    \* the threads of the pool
  Opener,     \* the one that opens the gate
  MaxActive   \* _max_active

Free == "free"

ThreadPoolAssumption ==
  /\ IsFiniteSet(Threads) /\ Free \notin Threads
  /\ Opener \in Threads
  /\ MaxActive \in Nat \ {0}

VARIABLES
  place,   \* place[t]: where thread t is
  goal,    \* goal[t]: where it goes once the pool admits it
  active,  \* _active
  mutex,   \* the mutex of the monitor: who holds it
  gate,    \* whether the gate is open
  expired  \* the threads whose wait has timed out

vars == <<place, goal, active, mutex, gate, expired>>

Inside == {"work", "critical", "finish"}
Places == Inside \cup {"start", "asleep", "blocked", "leaving", "waiting", "reacquire", "done"}

TypeOK ==
  /\ place \in [Threads -> Places]
  /\ goal \in [Threads -> {"work", "critical"}]
  /\ active \in Nat
  /\ mutex \in Threads \cup {Free}
  /\ gate \in BOOLEAN
  /\ expired \subseteq Threads

Init ==
  /\ place = [t \in Threads |-> "start"]
  /\ goal = [t \in Threads |-> "work"]
  /\ active = 0
  /\ mutex = Free
  /\ gate = FALSE
  /\ expired = {}

\* Mutant of Start: a full pool admits one more.
StartOneMore(t) ==
  /\ place[t] = "start"
  /\ IF active > MaxActive
       THEN place' = [place EXCEPT ![t] = "asleep"] /\ UNCHANGED active
       ELSE place' = [place EXCEPT ![t] = goal[t]] /\ active' = active + 1
  /\ UNCHANGED <<goal, mutex, gate, expired>>

\* thread_pool::start(): a full pool makes the thread wait in _cond; it looks again when
\* it is woken up.
Start(t) ==
  /\ place[t] = "start"
  /\ IF active = MaxActive
       THEN place' = [place EXCEPT ![t] = "asleep"] /\ UNCHANGED active
       ELSE place' = [place EXCEPT ![t] = goal[t]] /\ active' = active + 1
  /\ UNCHANGED <<goal, mutex, gate, expired>>

\* thread_pool::stop() of a thread that goes on to a place: signals one that waits.
Stop(t, to) ==
  /\ active' = active - 1
  /\ LET asleep == {u \in Threads : place[u] = "asleep"}
     IN \/ /\ asleep = {}
           /\ place' = [place EXCEPT ![t] = to]
        \/ \E u \in asleep : place' = [place EXCEPT ![t] = to, ![u] = "start"]

\* pthread_cond_wait may return without a signal.
WakeUp(t) ==
  /\ place[t] = "asleep"
  /\ place' = [place EXCEPT ![t] = "start"]
  /\ UNCHANGED <<goal, active, mutex, gate, expired>>

\* thread_mutex_lock(): one of the attempts to take the mutex without waiting succeeds...
TryLock(t) ==
  /\ place[t] = "work" /\ mutex = Free
  /\ mutex' = t
  /\ place' = [place EXCEPT ![t] = "critical"]
  /\ UNCHANGED <<goal, active, gate, expired>>

\* Mutant of LeaveToLock: a thread waits for the mutex without leaving the pool.
BlockInside(t) ==
  /\ place[t] = "work" /\ mutex # Free
  /\ place' = [place EXCEPT ![t] = "blocked"]
  /\ UNCHANGED <<goal, active, mutex, gate, expired>>

\* ... or all fail and the thread leaves the pool to wait for it.
LeaveToLock(t) ==
  /\ place[t] = "work" /\ mutex # Free
  /\ Stop(t, "blocked")
  /\ UNCHANGED <<goal, mutex, gate, expired>>

\* pthread_mutex_lock returns, in thread_mutex_lock() or at the end of
\* pthread_cond_wait; pool->start() follows, with the mutex held.
Acquire(t) ==
  /\ place[t] \in {"blocked", "reacquire"} /\ mutex = Free
  /\ mutex' = t
  /\ place' = [place EXCEPT ![t] = "start"]
  /\ goal' = [goal EXCEPT ![t] = "critical"]
  /\ UNCHANGED <<active, gate, expired>>

\* thread_cond_wait() while the gate is closed: the thread leaves the pool, ...
LeaveToWait(t) ==
  /\ place[t] = "critical" /\ t # Opener /\ ~gate /\ t \notin expired
  /\ Stop(t, "leaving")
  /\ UNCHANGED <<goal, mutex, gate, expired>>

\* ... and pthread_cond_wait releases the mutex.
Wait(t) ==
  /\ place[t] = "leaving"
  /\ mutex' = Free
  /\ place' = [place EXCEPT ![t] = "waiting"]
  /\ UNCHANGED <<goal, active, gate, expired>>

\* The opener opens the gate: thread_cond_broadcast() and thread_mutex_unlock().
Open ==
  /\ place[Opener] = "critical"
  /\ gate' = TRUE
  /\ mutex' = Free
  /\ place' = [t \in Threads |->
       IF t = Opener THEN "finish" ELSE IF place[t] = "waiting" THEN "reacquire" ELSE place[t]]
  /\ UNCHANGED <<goal, active, expired>>

\* A thread that finds the gate open, or whose wait has timed out, unlocks.
Unlock(t) ==
  /\ place[t] = "critical" /\ t # Opener
  /\ gate \/ t \in expired
  /\ mutex' = Free
  /\ place' = [place EXCEPT ![t] = "finish"]
  /\ UNCHANGED <<goal, active, gate, expired>>

\* ETIMEDOUT, at any time: the variant with milliseconds passes them as an absolute time.
TimeOut(t) ==
  /\ place[t] = "waiting"
  /\ place' = [place EXCEPT ![t] = "reacquire"]
  /\ expired' = expired \cup {t}
  /\ UNCHANGED <<goal, active, mutex, gate>>

\* The end of start_thread() and thread_t::run().
Finish(t) ==
  /\ place[t] = "finish"
  /\ Stop(t, "done")
  /\ UNCHANGED <<goal, mutex, gate, expired>>

Step(t) ==
  \/ Start(t) \/ TryLock(t) \/ LeaveToLock(t) \/ Acquire(t)
  \/ LeaveToWait(t) \/ Wait(t) \/ Unlock(t) \/ Finish(t)
  \/ t = Opener /\ Open

Next == \E t \in Threads : Step(t) \/ WakeUp(t) \/ TimeOut(t)

\* A thread that can run does; nothing wakes it up but a signal or a broadcast.
Fairness == \A t \in Threads : WF_vars(Step(t))

Spec == Init /\ [][Next]_vars
FairSpec == Spec /\ Fairness

-----------------------------------------------------------------------------
\* The pool counts the threads that run, and they are at most _max_active: the assertion
\* of start(), whoever takes the slot a signal was meant for.
PoolIsBounded ==
  /\ active = Cardinality({t \in Threads : place[t] \in Inside})
  /\ active <= MaxActive

AllDone == \A t \in Threads : place[t] = "done"

\* All threads end: none sleeps while a slot is free, and a thread that holds the mutex
\* and waits for a slot never waits for one whose holder waits for the mutex.
ThreadsEnd == <>AllDone

=============================================================================
