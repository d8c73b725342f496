--------------------------- MODULE TrxWorkerProofs ---------------------------
(***************************************************************************)
(* Theorems about TrxWorker, for every number of clients, batch size, spin *)
(* count and kind of run: type correctness, the marking of a sleeping      *)
(* worker, the soundness of the swap of the queue's vectors; that the two  *)
(* vectors are one FIFO queue, a wait means that its batch was served, the *)
(* slots of a condex_pair are not shared, nothing is left behind, and the  *)
(* whole implements BatchService.                                          *)
(***************************************************************************)
EXTENDS TrxWorker, TLAPS, SequenceTheorems

(***************************************************************************)
(* The inductive invariants.                                               *)
(***************************************************************************)
\* Types, and the facts about labels that the actions' types need.
BatchInv ==
  \A c \in Clients :
    /\ cpc[c] = "submit" => left[c] > 0
    /\ cpc[c] = "check" => TimeBound

TypeInv ==
  /\ TypeOK
  /\ BatchInv
  /\ wpc \in {"serve", "notify"} => req # <<>>

\* Where the main thread is tells how far the worker and the clients can be.
PhaseInv ==
  /\ mpc = "start" <=> control = "PAUSED"
  /\ mpc = "start" => wpc = "unborn" /\ ws = "UNDEF"
  /\ control = "STOPPED" <=> mpc \in {"stopcheck", "stopsignal", "stopjoin", "end"}
  /\ mpc \in {"start", "run"} => \A c \in Clients : cpc[c] = "unborn"
  /\ mpc \notin {"start", "run", "measuring", "join"} =>
       \A c \in Clients : cpc[c] \in {"unborn", "exited"}
  /\ wpc \in {"finish", "stopped", "exited"} => control = "STOPPED"

\* The counters of _notify agree except between a wait and its signal.
CountInv ==
  /\ wpc = "wait" => notify.signals \in {notify.waits, notify.waits + 1}
  /\ wpc = "blocked" => notify.waits \in {notify.signals, notify.signals + 1}
  /\ wpc \notin {"wait", "blocked"} /\ control # "STOPPED" =>
       notify.signals = notify.waits
  /\ wpc \in {"setloop", "cancontinue", "canloop", "sleep"} =>
       notify.signals = notify.waits /\ ws # "SLEEP"

\* The mark SLEEP and the signals on their way.
MarkInv ==
  /\ \A c, d \in Clients : cpc[c] = "signal" /\ cpc[d] = "signal" => c = d
  /\ \A c \in Clients : cpc[c] = "signal" => Asleep /\ ws # "SLEEP"
  /\ Asleep /\ (\A c \in Clients : cpc[c] # "signal") => ws = "SLEEP"
  /\ ws = "SLEEP" /\ (control = "ACTIVE" \/ mpc \in {"stopcheck", "stopsignal"}) => Asleep
  /\ mpc = "stopsignal" => ws = "SLEEP"

\* _empty tells the truth about the writers' vector, and the worker looks at it only
\* when it has read the readers' vector to its end.
QueueInv ==
  /\ empty <=> writers = <<>>
  /\ wpc \in {"empty", "control", "finish", "cancontinue", "canloop", "sleep", "wait",
             "blocked", "swap"} => readers = <<>>
  /\ wpc = "swap" => ~empty

IInv == TypeInv /\ PhaseInv /\ CountInv /\ MarkInv /\ QueueInv

-----------------------------------------------------------------------------
(***************************************************************************)
(* Lemmas about the operators.                                             *)
(***************************************************************************)
\* A client's share of the transactions is a natural number.
LEMMA ShareType == TrxsPerThread \in Nat
  BY ConstantsAssumption DEF TrxsPerThread

\* The next batch of a client has a natural number of requests, as long as the client
\* did not submit more than its share.
LEMMA BatchLenType ==
  ASSUME NEW n \in Nat, TimeBound \/ n <= TrxsPerThread
  PROVE  BatchLen(n) \in Nat
  BY ShareType, ConstantsAssumption DEF BatchLen

\* The operators on condexes and pairs of condexes return values of their types.
LEMMA CondexTypes ==
  ASSUME NEW x \in Condexes
  PROVE  Signal(x) \in Condexes /\ StartWait(x) \in Condexes
  BY DEF Condexes, Signal, StartWait

LEMMA CondexPairTypes ==
  ASSUME NEW p \in CondexPairs
  PROVE  /\ PleaseTakeOne(p) \in CondexPairs
         /\ TakeOne(p) \in CondexPairs
         /\ TakenSlot(p) \in Slots
         /\ \A s \in Slots : SignalSlot(p, s) \in CondexPairs
         /\ StartPairWait(p) \in CondexPairs
  <1>1. /\ p.wait \in [Slots -> Condexes]
        /\ p.requested \in Nat /\ p.wanted \in Nat /\ p.waited \in Nat
    BY DEF CondexPairs
  <1>2. PleaseTakeOne(p) \in CondexPairs /\ TakeOne(p) \in CondexPairs
    BY <1>1 DEF CondexPairs, PleaseTakeOne, TakeOne
  <1>3. TakenSlot(p) \in Slots
    BY <1>1 DEF TakenSlot, Slots
  <1>4. ASSUME NEW s \in Slots PROVE SignalSlot(p, s) \in CondexPairs
    <2>1. Signal(p.wait[s]) \in Condexes
      BY <1>1, CondexTypes
    <2>2. [p.wait EXCEPT ![s] = Signal(p.wait[s])] \in [Slots -> Condexes]
      BY <1>1, <2>1
    <2> QED BY <2>2 DEF CondexPairs, SignalSlot
  <1>5. StartPairWait(p) \in CondexPairs
    <2>1. p.waited % 2 \in Slots
      BY <1>1 DEF Slots
    <2>2. StartWait(p.wait[p.waited % 2]) \in Condexes
      BY <1>1, <2>1, CondexTypes
    <2>3. [p.wait EXCEPT ![p.waited % 2] = StartWait(p.wait[p.waited % 2])]
            \in [Slots -> Condexes]
      BY <1>1, <2>2
    <2>4. WaitOnSlot(p, p.waited % 2) \in CondexPairs
      BY <2>3 DEF CondexPairs, WaitOnSlot
    <2> QED BY <2>4 DEF CondexPairs, StartPairWait
  <1> QED BY <1>2, <1>3, <1>4, <1>5

\* What the head and the tail of a vector of requests are.
LEMMA HeadRequest ==
  ASSUME NEW q \in Seq(Requests), q # <<>>
  PROVE  /\ Head(q) \in Requests
         /\ Head(q).client \in Clients
         /\ Head(q).notify \in Slots \cup {NoCondex}
         /\ Tail(q) \in Seq(Requests)
         /\ <<Head(q)>> \in Seq(Requests)
         /\ <<Head(q)>> # <<>>
  <1>1. Head(q) \in Requests /\ Tail(q) \in Seq(Requests)
    BY HeadTailProperties
  <1>2. Head(q).client \in Clients /\ Head(q).notify \in Slots \cup {NoCondex}
    BY <1>1 DEF Requests
  <1> QED BY <1>1, <1>2

\* The start of a batch, and what follows an enqueued request, keep the clients'
\* labels and counts of their types.
LEMMA StartBatchType ==
  ASSUME TypeOK, BatchInv, NEW c \in Clients, BatchLen(cnt[c]) \in Nat, StartBatch(c)
  PROVE  cpc' \in [Clients -> ClientLabels] /\ left' \in [Clients -> Nat] /\ BatchInv'
  <1>1. left' \in [Clients -> Nat] /\ cpc' \in [Clients -> ClientLabels]
    BY DEF StartBatch, TypeOK, ClientLabels
  <1>2. ASSUME NEW d \in Clients
        PROVE  (cpc'[d] = "submit" => left'[d] > 0) /\ (cpc'[d] = "check" => TimeBound)
    BY <1>1 DEF StartBatch, TypeOK, BatchInv
  <1> QED BY <1>1, <1>2 DEF BatchInv, TimeBound

LEMMA AfterEnqueueType ==
  ASSUME TypeOK, BatchInv, NEW c \in Clients, AfterEnqueue(c)
  PROVE  cpc' \in [Clients -> ClientLabels] /\ left' \in [Clients -> Nat] /\ BatchInv'
  <1>1. CASE left[c] > 0
    BY <1>1 DEF AfterEnqueue, TypeOK, ClientLabels, BatchInv, TimeBound
  <1>2. CASE ~(left[c] > 0) /\ TimeBound /\ pair[c].requested = 1
    <2>1. StartBatch(c)
      BY <1>2 DEF AfterEnqueue
    <2>2. BatchLen(cnt[c]) \in Nat
      BY <1>2, BatchLenType DEF TypeOK
    <2> QED BY <2>1, <2>2, StartBatchType
  <1>3. CASE ~(left[c] > 0) /\ ~(TimeBound /\ pair[c].requested = 1)
    BY <1>3 DEF AfterEnqueue, TypeOK, ClientLabels, BatchInv, TimeBound
  <1> QED BY <1>1, <1>2, <1>3

\* Both move only the client they are about, to "submit" or to "wait".
LEMMA NextLabel ==
  ASSUME TypeOK, NEW c \in Clients, StartBatch(c) \/ AfterEnqueue(c)
  PROVE  /\ cpc'[c] \in {"submit", "wait"}
         /\ \A d \in Clients \ {c} : cpc'[d] = cpc[d]
  BY DEF StartBatch, AfterEnqueue, TypeOK

-----------------------------------------------------------------------------
(***************************************************************************)
(* Type correctness.                                                       *)
(***************************************************************************)
\* The worker's actions preserve the types.
LEMMA WorkerTypes ==
  ASSUME TypeInv, Worker
  PROVE  TypeInv'
  <1> USE DEF queueVars, workerVars, clientVars, mainVars
  <1>1. CASE WorkSwitch
    BY <1>1 DEF WorkSwitch, TypeInv, TypeOK, BatchInv, TimeBound, WorkerLabels
  <1>2. CASE ActiveLoop
    BY <1>2 DEF ActiveLoop, TypeInv, TypeOK, BatchInv, TimeBound, WorkerLabels
  <1>3. CASE SetLoop
    BY <1>3, CondexTypes DEF SetLoop, WorkerSetWs, TypeInv, TypeOK, BatchInv, TimeBound, WorkerLabels
  <1>4. CASE Pop
    <2>1. CASE readers # <<>>
      <3>1. readers \in Seq(Requests)
        BY DEF TypeInv, TypeOK
      <3>2. Tail(readers) \in Seq(Requests) /\ <<Head(readers)>> \in Seq(Requests)
            /\ <<Head(readers)>> # <<>>
        BY <2>1, <3>1, HeadRequest
      <3> QED
        BY <1>4, <2>1, <3>2 DEF Pop, TypeInv, TypeOK, BatchInv, TimeBound, WorkerLabels
    <2>2. CASE readers = <<>>
      BY <1>4, <2>2 DEF Pop, TypeInv, TypeOK, BatchInv, TimeBound, WorkerLabels
    <2> QED BY <2>1, <2>2
  <1>5. CASE CheckEmpty
    BY <1>5 DEF CheckEmpty, TypeInv, TypeOK, BatchInv, TimeBound, WorkerLabels
  <1>6. CASE CheckControl
    BY <1>6 DEF CheckControl, TypeInv, TypeOK, BatchInv, TimeBound, WorkerLabels
  <1>7. CASE SetFinished
    BY <1>7, CondexTypes DEF SetFinished, WorkerSetWs, TypeInv, TypeOK, BatchInv, TimeBound, WorkerLabels
  <1>8. CASE CanContinue
    BY <1>8 DEF CanContinue, SpinOrSleep, TypeInv, TypeOK, BatchInv, TimeBound, WorkerLabels
  <1>9. CASE CondexSleep
    BY <1>9 DEF CondexSleep, TypeInv, TypeOK, BatchInv, TimeBound, WorkerLabels
  <1>10. CASE CondexWait
    BY <1>10, CondexTypes DEF CondexWait, TypeInv, TypeOK, BatchInv, TimeBound, WorkerLabels
  <1>11. CASE CondexWake
    BY <1>11 DEF CondexWake, TypeInv, TypeOK, BatchInv, TimeBound, WorkerLabels
  <1>12. CASE SwapVectors
    BY <1>12 DEF SwapVectors, TypeInv, TypeOK, BatchInv, TimeBound, WorkerLabels
  <1>13. CASE ServeAction
    <2>1. Head(req).client \in Clients
      BY <1>13, HeadRequest DEF ServeAction, TypeInv, TypeOK
    <2>2. served' \in [Clients -> Nat]
      BY <1>13, <2>1 DEF ServeAction, TypeInv, TypeOK
    <2> QED
      BY <1>13, <2>2 DEF ServeAction, TypeInv, TypeOK, BatchInv, TimeBound, WorkerLabels
  <1>14. CASE NotifyClient
    <2> DEFINE r == Head(req)
    <2>1. r.client \in Clients /\ r.notify \in Slots \cup {NoCondex}
      BY <1>14, HeadRequest DEF NotifyClient, TypeInv, TypeOK
    <2>2. pair' \in [Clients -> CondexPairs]
      <3>1. pair \in [Clients -> CondexPairs]
        BY DEF TypeInv, TypeOK
      <3>2. CASE r.notify = NoCondex
        BY <1>14, <3>1, <3>2 DEF NotifyClient
      <3>3. CASE r.notify # NoCondex
        <4>1. SignalSlot(pair[r.client], r.notify) \in CondexPairs
          BY <2>1, <3>1, <3>3, CondexPairTypes
        <4> QED BY <1>14, <3>1, <3>3, <4>1 DEF NotifyClient
      <3> QED BY <3>2, <3>3
    <2>3. req' \in Seq(Requests)
      BY <1>14 DEF NotifyClient
    <2> HIDE DEF r
    <2> QED
      BY <1>14, <2>2, <2>3 DEF NotifyClient, TypeInv, TypeOK, BatchInv, TimeBound, WorkerLabels
  <1>15. CASE WorkStopped
    BY <1>15 DEF WorkStopped, PreStop, TypeInv, TypeOK, BatchInv, TimeBound, WorkerLabels
  <1>16. CASE CanContinueLoop
    BY <1>16 DEF CanContinueLoop, SpinOrSleep, TypeInv, TypeOK, BatchInv, TimeBound, WorkerLabels
  <1> QED BY <1>1, <1>2, <1>3, <1>4, <1>5, <1>6, <1>7, <1>8, <1>9, <1>10, <1>11, <1>12, <1>13, <1>14, <1>15, <1>16 DEF Worker

\* The clients' actions preserve the types.
LEMMA ClientTypes ==
  ASSUME TypeInv, NEW c \in Clients, Client(c)
  PROVE  TypeInv'
  <1> USE DEF queueVars, workerVars, clientVars, mainVars
  <1>1. CASE Push(c)
    <2> DEFINE p == IF left[c] = 1 THEN PleaseTakeOne(pair[c]) ELSE pair[c]
               r == [client |-> c, id |-> cnt[c],
                     notify |-> IF CanTakeOne(p) THEN TakenSlot(p) ELSE NoCondex]
    <2>1. p \in CondexPairs
      BY CondexPairTypes DEF TypeInv, TypeOK
    <2>2. r \in Requests
      BY <2>1, CondexPairTypes DEF TypeInv, TypeOK, Requests
    <2>3. writers' = Append(writers, r)
          /\ pair' = [pair EXCEPT ![c] = IF CanTakeOne(p) THEN TakeOne(p) ELSE p]
      BY <1>1 DEF Push
    <2>4. writers' \in Seq(Requests)
      BY <2>2, <2>3, AppendProperties DEF TypeInv, TypeOK
    <2>5. pair' \in [Clients -> CondexPairs]
      BY <2>1, <2>3, CondexPairTypes DEF TypeInv, TypeOK
    <2>6. left[c] \in Nat /\ left[c] > 0
      BY <1>1 DEF Push, TypeInv, TypeOK, BatchInv
    <2>7. left' \in [Clients -> Nat] /\ cnt' \in [Clients -> Nat]
      BY <1>1, <2>6 DEF Push, TypeInv, TypeOK
    <2>8. cpc' \in [Clients -> ClientLabels] /\ BatchInv'
      BY <1>1, <2>7 DEF Push, TypeInv, TypeOK, BatchInv, TimeBound, ClientLabels
    <2>9. empty' \in BOOLEAN
      BY <1>1 DEF Push
    <2> QED
      BY <1>1, <2>4, <2>5, <2>7, <2>8, <2>9 DEF Push, TypeInv, TypeOK
  <1>2. CASE ClientSetWs(c)
    BY <1>2, AfterEnqueueType, CondexTypes DEF ClientSetWs, TypeInv, TypeOK, BatchInv, TimeBound, ClientLabels
  <1>3. CASE ClientSignal(c)
    BY <1>3, AfterEnqueueType, CondexTypes DEF ClientSignal, TypeInv, TypeOK, BatchInv, TimeBound, ClientLabels
  <1>4. CASE BatchWait(c)
    BY <1>4, CondexPairTypes DEF BatchWait, TypeInv, TypeOK, BatchInv, TimeBound, ClientLabels
  <1>5. CASE BatchDone(c)
    <2>1. CASE ~TimeBound /\ cnt[c] < TrxsPerThread
      <3>1. BatchLen(cnt[c]) \in Nat
        BY <2>1, BatchLenType, ShareType DEF TypeInv, TypeOK
      <3>2. StartBatch(c)
        BY <1>5, <2>1 DEF BatchDone
      <3> QED
        BY <1>5, <3>1, <3>2, StartBatchType DEF BatchDone, TypeInv, TypeOK
    <2>2. CASE TimeBound
      BY <1>5, <2>2 DEF BatchDone, TypeInv, TypeOK, BatchInv, TimeBound, ClientLabels
    <2>3. CASE ~TimeBound /\ ~(cnt[c] < TrxsPerThread)
      BY <1>5, <2>3 DEF BatchDone, TypeInv, TypeOK, BatchInv, TimeBound, ClientLabels
    <2> QED BY <2>1, <2>2, <2>3
  <1>6. CASE ExitLoop(c)
    BY <1>6 DEF ExitLoop, TypeInv, TypeOK, BatchInv, TimeBound, ClientLabels
  <1>7. CASE ReplaceBatch(c)
    BY <1>7, StartBatchType, BatchLenType DEF ReplaceBatch, TypeInv, TypeOK, BatchInv, TimeBound, ClientLabels
  <1> QED BY <1>1, <1>2, <1>3, <1>4, <1>5, <1>6, <1>7 DEF Client

\* The main thread's actions preserve the types.
LEMMA MainTypes ==
  ASSUME TypeInv, Main
  PROVE  TypeInv'
  <1> USE DEF queueVars, workerVars, clientVars, mainVars
  <1>1. CASE StartWorker
    BY <1>1 DEF StartWorker, TypeInv, TypeOK, BatchInv, TimeBound, MainLabels, WorkerLabels
  <1>2. CASE RunBenchmark
    <2>1. BatchLen(0) \in Nat
      BY BatchLenType, ShareType
    <2> QED
      BY <1>2, <2>1 DEF RunBenchmark, TypeInv, TypeOK, BatchInv, TimeBound, MainLabels, ClientLabels
  <1>3. CASE SkipBenchmark
    BY <1>3 DEF SkipBenchmark, TypeInv, TypeOK, BatchInv, TimeBound, MainLabels
  <1>4. CASE EndMeasurement
    BY <1>4 DEF EndMeasurement, TypeInv, TypeOK, BatchInv, TimeBound, MainLabels
  <1>5. CASE JoinClients
    BY <1>5 DEF JoinClients, TypeInv, TypeOK, BatchInv, TimeBound, MainLabels
  <1>6. CASE SetStopped
    BY <1>6 DEF SetStopped, TypeInv, TypeOK, BatchInv, TimeBound, MainLabels
  <1>7. CASE StopCheck
    BY <1>7 DEF StopCheck, TypeInv, TypeOK, BatchInv, TimeBound, MainLabels
  <1>8. CASE StopSignal
    BY <1>8, CondexTypes DEF StopSignal, TypeInv, TypeOK, BatchInv, TimeBound, MainLabels
  <1>9. CASE JoinWorker
    BY <1>9 DEF JoinWorker, TypeInv, TypeOK, BatchInv, TimeBound, MainLabels
  <1> QED BY <1>1, <1>2, <1>3, <1>4, <1>5, <1>6, <1>7, <1>8, <1>9 DEF Main

-----------------------------------------------------------------------------
(***************************************************************************)
(* The phases of the main thread.                                          *)
(***************************************************************************)

\* The worker's actions preserve the phases.
LEMMA WorkerPhases ==
  ASSUME TypeInv, PhaseInv, Worker
  PROVE  PhaseInv'
  <1> USE DEF queueVars, workerVars, clientVars, mainVars
  <1>1. CASE WorkSwitch
    BY <1>1
    DEF WorkSwitch, PhaseInv, TypeInv, TypeOK
  <1>2. CASE ActiveLoop
    BY <1>2
    DEF ActiveLoop, PhaseInv, TypeInv, TypeOK
  <1>3. CASE SetLoop
    BY <1>3
    DEF SetLoop, WorkerSetWs, PhaseInv, TypeInv, TypeOK
  <1>4. CASE Pop
    BY <1>4
    DEF Pop, PhaseInv, TypeInv, TypeOK
  <1>5. CASE CheckEmpty
    BY <1>5
    DEF CheckEmpty, PhaseInv, TypeInv, TypeOK
  <1>6. CASE CheckControl
    BY <1>6
    DEF CheckControl, PhaseInv, TypeInv, TypeOK
  <1>7. CASE SetFinished
    BY <1>7
    DEF SetFinished, WorkerSetWs, PhaseInv, TypeInv, TypeOK
  <1>8. CASE CanContinue
    BY <1>8
    DEF CanContinue, SpinOrSleep, PhaseInv, TypeInv, TypeOK
  <1>9. CASE CondexSleep
    BY <1>9
    DEF CondexSleep, PhaseInv, TypeInv, TypeOK
  <1>10. CASE CondexWait
    BY <1>10
    DEF CondexWait, PhaseInv, TypeInv, TypeOK
  <1>11. CASE CondexWake
    BY <1>11
    DEF CondexWake, PhaseInv, TypeInv, TypeOK
  <1>12. CASE SwapVectors
    BY <1>12
    DEF SwapVectors, PhaseInv, TypeInv, TypeOK
  <1>13. CASE ServeAction
    BY <1>13
    DEF ServeAction, PhaseInv, TypeInv, TypeOK
  <1>14. CASE NotifyClient
    BY <1>14
    DEF NotifyClient, PhaseInv, TypeInv, TypeOK
  <1>15. CASE WorkStopped
    BY <1>15
    DEF WorkStopped, PreStop, PhaseInv, TypeInv, TypeOK
  <1>16. CASE CanContinueLoop
    BY <1>16
    DEF CanContinueLoop, SpinOrSleep, PhaseInv, TypeInv, TypeOK
  <1> QED BY <1>1, <1>2, <1>3, <1>4, <1>5, <1>6, <1>7, <1>8, <1>9, <1>10, <1>11, <1>12, <1>13, <1>14, <1>15, <1>16 DEF Worker

\* The clients' actions preserve the phases.
LEMMA ClientPhases ==
  ASSUME TypeInv, PhaseInv, NEW c \in Clients, Client(c)
  PROVE  PhaseInv'
  <1> USE DEF queueVars, workerVars, clientVars, mainVars
  <1>1. CASE Push(c)
    BY <1>1
    DEF Push, PhaseInv, TypeInv, TypeOK
  <1>2. CASE ClientSetWs(c)
    BY <1>2
    DEF ClientSetWs, AfterEnqueue, StartBatch, PhaseInv, TypeInv, TypeOK
  <1>3. CASE ClientSignal(c)
    BY <1>3
    DEF ClientSignal, AfterEnqueue, StartBatch, PhaseInv, TypeInv, TypeOK
  <1>4. CASE BatchWait(c)
    BY <1>4
    DEF BatchWait, PhaseInv, TypeInv, TypeOK
  <1>5. CASE BatchDone(c)
    BY <1>5
    DEF BatchDone, AfterEnqueue, StartBatch, PhaseInv, TypeInv, TypeOK
  <1>6. CASE ExitLoop(c)
    BY <1>6
    DEF ExitLoop, PhaseInv, TypeInv, TypeOK
  <1>7. CASE ReplaceBatch(c)
    BY <1>7
    DEF ReplaceBatch, AfterEnqueue, StartBatch, PhaseInv, TypeInv, TypeOK
  <1> QED BY <1>1, <1>2, <1>3, <1>4, <1>5, <1>6, <1>7 DEF Client

\* The main thread's actions preserve the phases.
LEMMA MainPhases ==
  ASSUME TypeInv, PhaseInv, Main
  PROVE  PhaseInv'
  <1> USE DEF queueVars, workerVars, clientVars, mainVars
  <1>1. CASE StartWorker
    BY <1>1
    DEF StartWorker, PhaseInv, TypeInv, TypeOK
  <1>2. CASE RunBenchmark
    BY <1>2
    DEF RunBenchmark, PhaseInv, TypeInv, TypeOK
  <1>3. CASE SkipBenchmark
    BY <1>3
    DEF SkipBenchmark, PhaseInv, TypeInv, TypeOK
  <1>4. CASE EndMeasurement
    BY <1>4
    DEF EndMeasurement, PhaseInv, TypeInv, TypeOK
  <1>5. CASE JoinClients
    BY <1>5
    DEF JoinClients, PhaseInv, TypeInv, TypeOK
  <1>6. CASE SetStopped
    BY <1>6
    DEF SetStopped, PhaseInv, TypeInv, TypeOK
  <1>7. CASE StopCheck
    BY <1>7
    DEF StopCheck, PhaseInv, TypeInv, TypeOK
  <1>8. CASE StopSignal
    BY <1>8
    DEF StopSignal, PhaseInv, TypeInv, TypeOK
  <1>9. CASE JoinWorker
    BY <1>9
    DEF JoinWorker, PhaseInv, TypeInv, TypeOK
  <1> QED BY <1>1, <1>2, <1>3, <1>4, <1>5, <1>6, <1>7, <1>8, <1>9 DEF Main

-----------------------------------------------------------------------------
(***************************************************************************)
(* The mark of a sleeping worker.                                          *)
(***************************************************************************)

\* The worker's actions preserve the mark.
LEMMA WorkerMarks ==
  ASSUME TypeInv, PhaseInv, CountInv, MarkInv, Worker
  PROVE  CountInv' /\ MarkInv'
  <1> USE DEF queueVars, workerVars, clientVars, mainVars
  <1>1. CASE WorkSwitch
    BY <1>1
    DEF WorkSwitch, CountInv, MarkInv, PhaseInv, TypeInv, TypeOK, Asleep, MayReturn, Condexes
  <1>2. CASE ActiveLoop
    BY <1>2
    DEF ActiveLoop, CountInv, MarkInv, PhaseInv, TypeInv, TypeOK, Asleep, MayReturn, Condexes
  <1>3. CASE SetLoop
    BY <1>3
    DEF SetLoop, WorkerSetWs, Signal, CountInv, MarkInv, PhaseInv, TypeInv, TypeOK, Asleep, MayReturn, Condexes
  <1>4. CASE Pop
    BY <1>4
    DEF Pop, CountInv, MarkInv, PhaseInv, TypeInv, TypeOK, Asleep, MayReturn, Condexes
  <1>5. CASE CheckEmpty
    BY <1>5
    DEF CheckEmpty, CountInv, MarkInv, PhaseInv, TypeInv, TypeOK, Asleep, MayReturn, Condexes
  <1>6. CASE CheckControl
    BY <1>6
    DEF CheckControl, CountInv, MarkInv, PhaseInv, TypeInv, TypeOK, Asleep, MayReturn, Condexes
  <1>7. CASE SetFinished
    BY <1>7
    DEF SetFinished, WorkerSetWs, Signal, CountInv, MarkInv, PhaseInv, TypeInv, TypeOK, Asleep, MayReturn, Condexes
  <1>8. CASE CanContinue
    BY <1>8
    DEF CanContinue, SpinOrSleep, CountInv, MarkInv, PhaseInv, TypeInv, TypeOK, Asleep, MayReturn, Condexes
  <1>9. CASE CondexSleep
    BY <1>9
    DEF CondexSleep, CountInv, MarkInv, PhaseInv, TypeInv, TypeOK, Asleep, MayReturn, Condexes
  <1>10. CASE CondexWait
    BY <1>10
    DEF CondexWait, StartWait, CountInv, MarkInv, PhaseInv, TypeInv, TypeOK, Asleep, MayReturn, Condexes
  <1>11. CASE CondexWake
    BY <1>11
    DEF CondexWake, CountInv, MarkInv, PhaseInv, TypeInv, TypeOK, Asleep, MayReturn, Condexes
  <1>12. CASE SwapVectors
    BY <1>12
    DEF SwapVectors, CountInv, MarkInv, PhaseInv, TypeInv, TypeOK, Asleep, MayReturn, Condexes
  <1>13. CASE ServeAction
    BY <1>13
    DEF ServeAction, CountInv, MarkInv, PhaseInv, TypeInv, TypeOK, Asleep, MayReturn, Condexes
  <1>14. CASE NotifyClient
    BY <1>14
    DEF NotifyClient, CountInv, MarkInv, PhaseInv, TypeInv, TypeOK, Asleep, MayReturn, Condexes
  <1>15. CASE WorkStopped
    BY <1>15
    DEF WorkStopped, PreStop, CountInv, MarkInv, PhaseInv, TypeInv, TypeOK, Asleep, MayReturn, Condexes
  <1>16. CASE CanContinueLoop
    BY <1>16
    DEF CanContinueLoop, SpinOrSleep, CountInv, MarkInv, PhaseInv, TypeInv, TypeOK, Asleep, MayReturn, Condexes
  <1> QED BY <1>1, <1>2, <1>3, <1>4, <1>5, <1>6, <1>7, <1>8, <1>9, <1>10, <1>11, <1>12, <1>13, <1>14, <1>15, <1>16 DEF Worker

\* The clients' actions preserve the mark.
LEMMA ClientMarks ==
  ASSUME TypeInv, PhaseInv, CountInv, MarkInv, NEW c \in Clients, Client(c)
  PROVE  CountInv' /\ MarkInv'
  <1> USE DEF queueVars, workerVars, clientVars, mainVars
  <1>1. CASE Push(c)
    BY <1>1
    DEF Push, CountInv, MarkInv, PhaseInv, TypeInv, TypeOK, Asleep, MayReturn, Condexes
  <1>2. CASE ClientSetWs(c)
    <2>1. notify \in Condexes /\ notify' = notify /\ wpc' = wpc /\ ws' = "INPUT_Q"
          /\ UNCHANGED <<control, mpc>> /\ control = "ACTIVE" /\ mpc # "stopsignal"
      BY <1>2 DEF ClientSetWs, PhaseInv, TypeInv, TypeOK
    <2>2. Asleep' <=> Asleep
      BY <2>1 DEF Asleep, MayReturn
    <2>3. \A d \in Clients \ {c} : cpc'[d] = cpc[d]
      BY <1>2, NextLabel DEF ClientSetWs, TypeInv, TypeOK
    <2>4. CASE ws = "SLEEP"
      <3>1. cpc'[c] = "signal" /\ Asleep
        BY <1>2, <2>1, <2>4 DEF ClientSetWs, MarkInv, TypeInv, TypeOK
      <3>2. \A d \in Clients : cpc'[d] = "signal" <=> d = c
        BY <2>3, <2>4, <3>1 DEF MarkInv
      <3>3. CountInv'
        BY <2>1 DEF CountInv
      <3> QED BY <2>1, <2>2, <3>1, <3>2, <3>3 DEF MarkInv
    <2>5. CASE ws # "SLEEP"
      <3>1. cpc'[c] # "signal"
        BY <1>2, <2>5, NextLabel DEF ClientSetWs, TypeInv
      <3>2. \A d \in Clients : cpc'[d] = "signal" <=> cpc[d] = "signal"
        BY <1>2, <2>3, <3>1 DEF ClientSetWs
      <3>3. CountInv'
        BY <2>1 DEF CountInv
      <3> QED BY <2>1, <2>2, <2>5, <3>2, <3>3 DEF MarkInv
    <2> QED BY <2>4, <2>5
  <1>3. CASE ClientSignal(c)
    <2>1. Asleep /\ ws # "SLEEP" /\ cpc[c] = "signal" /\ notify \in Condexes
          /\ control = "ACTIVE" /\ notify' = Signal(notify)
          /\ UNCHANGED <<control, ws, wpc, mpc>>
      BY <1>3 DEF ClientSignal, MarkInv, PhaseInv, TypeInv, TypeOK
    <2>2. \A d \in Clients : cpc'[d] # "signal"
      BY <1>3, <2>1, NextLabel DEF ClientSignal, MarkInv, TypeInv
    <2>3. ~Asleep' /\ CountInv'
      BY <2>1 DEF CountInv, Asleep, MayReturn, Signal, Condexes
    <2> QED BY <2>1, <2>2, <2>3 DEF MarkInv
  <1>4. CASE BatchWait(c)
    BY <1>4
    DEF BatchWait, CountInv, MarkInv, PhaseInv, TypeInv, TypeOK, Asleep, MayReturn, Condexes
  <1>5. CASE BatchDone(c)
    <2>1. cpc[c] = "blocked" /\ cpc'[c] # "signal"
          /\ \A d \in Clients \ {c} : cpc'[d] = cpc[d]
      BY <1>5, NextLabel DEF BatchDone, TypeInv, TypeOK
    <2>2. UNCHANGED <<control, ws, notify, wpc, mpc>>
      BY <1>5 DEF BatchDone
    <2>3. Asleep' <=> Asleep
      BY <2>2 DEF Asleep, MayReturn
    <2> QED BY <2>1, <2>2, <2>3 DEF CountInv, MarkInv
  <1>6. CASE ExitLoop(c)
    BY <1>6
    DEF ExitLoop, CountInv, MarkInv, PhaseInv, TypeInv, TypeOK, Asleep, MayReturn, Condexes
  <1>7. CASE ReplaceBatch(c)
    BY <1>7
    DEF ReplaceBatch, AfterEnqueue, StartBatch, CountInv, MarkInv, PhaseInv, TypeInv, TypeOK, Asleep, MayReturn, Condexes
  <1> QED BY <1>1, <1>2, <1>3, <1>4, <1>5, <1>6, <1>7 DEF Client

\* The main thread's actions preserve the mark.
LEMMA MainMarks ==
  ASSUME TypeInv, PhaseInv, CountInv, MarkInv, Main
  PROVE  CountInv' /\ MarkInv'
  <1> USE DEF queueVars, workerVars, clientVars, mainVars
  <1>1. CASE StartWorker
    BY <1>1
    DEF StartWorker, CountInv, MarkInv, PhaseInv, TypeInv, TypeOK, Asleep, MayReturn, Condexes
  <1>2. CASE RunBenchmark
    BY <1>2
    DEF RunBenchmark, CountInv, MarkInv, PhaseInv, TypeInv, TypeOK, Asleep, MayReturn, Condexes
  <1>3. CASE SkipBenchmark
    BY <1>3
    DEF SkipBenchmark, CountInv, MarkInv, PhaseInv, TypeInv, TypeOK, Asleep, MayReturn, Condexes
  <1>4. CASE EndMeasurement
    BY <1>4
    DEF EndMeasurement, CountInv, MarkInv, PhaseInv, TypeInv, TypeOK, Asleep, MayReturn, Condexes
  <1>5. CASE JoinClients
    BY <1>5
    DEF JoinClients, CountInv, MarkInv, PhaseInv, TypeInv, TypeOK, Asleep, MayReturn, Condexes
  <1>6. CASE SetStopped
    BY <1>6
    DEF SetStopped, CountInv, MarkInv, PhaseInv, TypeInv, TypeOK, Asleep, MayReturn, Condexes
  <1>7. CASE StopCheck
    BY <1>7
    DEF StopCheck, CountInv, MarkInv, PhaseInv, TypeInv, TypeOK, Asleep, MayReturn, Condexes
  <1>8. CASE StopSignal
    BY <1>8
    DEF StopSignal, Signal, CountInv, MarkInv, PhaseInv, TypeInv, TypeOK, Asleep, MayReturn, Condexes
  <1>9. CASE JoinWorker
    BY <1>9
    DEF JoinWorker, CountInv, MarkInv, PhaseInv, TypeInv, TypeOK, Asleep, MayReturn, Condexes
  <1> QED BY <1>1, <1>2, <1>3, <1>4, <1>5, <1>6, <1>7, <1>8, <1>9 DEF Main

-----------------------------------------------------------------------------
(***************************************************************************)
(* The queue's two vectors.                                                *)
(***************************************************************************)

\* The worker's actions preserve the invariant of the queue.
LEMMA WorkerQueues ==
  ASSUME TypeInv, QueueInv, Worker
  PROVE  QueueInv'
  <1> USE DEF queueVars, workerVars, clientVars, mainVars
  <1>1. CASE WorkSwitch
    BY <1>1
    DEF WorkSwitch, QueueInv, TypeInv, TypeOK
  <1>2. CASE ActiveLoop
    BY <1>2
    DEF ActiveLoop, QueueInv, TypeInv, TypeOK
  <1>3. CASE SetLoop
    BY <1>3
    DEF SetLoop, QueueInv, TypeInv, TypeOK
  <1>4. CASE Pop
    BY <1>4
    DEF Pop, QueueInv, TypeInv, TypeOK
  <1>5. CASE CheckEmpty
    BY <1>5
    DEF CheckEmpty, QueueInv, TypeInv, TypeOK
  <1>6. CASE CheckControl
    BY <1>6
    DEF CheckControl, QueueInv, TypeInv, TypeOK
  <1>7. CASE SetFinished
    BY <1>7
    DEF SetFinished, QueueInv, TypeInv, TypeOK
  <1>8. CASE CanContinue
    BY <1>8
    DEF CanContinue, SpinOrSleep, QueueInv, TypeInv, TypeOK
  <1>9. CASE CondexSleep
    BY <1>9
    DEF CondexSleep, QueueInv, TypeInv, TypeOK
  <1>10. CASE CondexWait
    BY <1>10
    DEF CondexWait, QueueInv, TypeInv, TypeOK
  <1>11. CASE CondexWake
    BY <1>11
    DEF CondexWake, QueueInv, TypeInv, TypeOK
  <1>12. CASE SwapVectors
    BY <1>12
    DEF SwapVectors, QueueInv, TypeInv, TypeOK
  <1>13. CASE ServeAction
    BY <1>13
    DEF ServeAction, QueueInv, TypeInv, TypeOK
  <1>14. CASE NotifyClient
    BY <1>14
    DEF NotifyClient, QueueInv, TypeInv, TypeOK
  <1>15. CASE WorkStopped
    BY <1>15
    DEF WorkStopped, PreStop, QueueInv, TypeInv, TypeOK
  <1>16. CASE CanContinueLoop
    BY <1>16
    DEF CanContinueLoop, SpinOrSleep, QueueInv, TypeInv, TypeOK
  <1> QED BY <1>1, <1>2, <1>3, <1>4, <1>5, <1>6, <1>7, <1>8, <1>9, <1>10, <1>11, <1>12, <1>13, <1>14, <1>15, <1>16 DEF Worker

\* The clients' actions preserve it.
LEMMA ClientQueues ==
  ASSUME TypeInv, QueueInv, NEW c \in Clients, Client(c)
  PROVE  QueueInv'
  <1> USE DEF queueVars, workerVars, clientVars, mainVars
  <1>1. CASE Push(c)
    BY <1>1, AppendProperties
    DEF Push, QueueInv, TypeInv, TypeOK
  <1>2. CASE ClientSetWs(c)
    BY <1>2
    DEF ClientSetWs, QueueInv, TypeInv, TypeOK
  <1>3. CASE ClientSignal(c)
    BY <1>3
    DEF ClientSignal, QueueInv, TypeInv, TypeOK
  <1>4. CASE BatchWait(c)
    BY <1>4
    DEF BatchWait, QueueInv, TypeInv, TypeOK
  <1>5. CASE BatchDone(c)
    BY <1>5
    DEF BatchDone, QueueInv, TypeInv, TypeOK
  <1>6. CASE ExitLoop(c)
    BY <1>6
    DEF ExitLoop, QueueInv, TypeInv, TypeOK
  <1>7. CASE ReplaceBatch(c)
    BY <1>7
    DEF ReplaceBatch, QueueInv, TypeInv, TypeOK
  <1> QED BY <1>1, <1>2, <1>3, <1>4, <1>5, <1>6, <1>7 DEF Client

\* The main thread's actions preserve it.
LEMMA MainQueues ==
  ASSUME TypeInv, QueueInv, Main
  PROVE  QueueInv'
  <1> USE DEF queueVars, workerVars, clientVars, mainVars
  <1>1. CASE StartWorker
    BY <1>1
    DEF StartWorker, QueueInv, TypeInv, TypeOK
  <1>2. CASE RunBenchmark
    BY <1>2
    DEF RunBenchmark, QueueInv, TypeInv, TypeOK
  <1>3. CASE SkipBenchmark
    BY <1>3
    DEF SkipBenchmark, QueueInv, TypeInv, TypeOK
  <1>4. CASE EndMeasurement
    BY <1>4
    DEF EndMeasurement, QueueInv, TypeInv, TypeOK
  <1>5. CASE JoinClients
    BY <1>5
    DEF JoinClients, QueueInv, TypeInv, TypeOK
  <1>6. CASE SetStopped
    BY <1>6
    DEF SetStopped, QueueInv, TypeInv, TypeOK
  <1>7. CASE StopCheck
    BY <1>7
    DEF StopCheck, QueueInv, TypeInv, TypeOK
  <1>8. CASE StopSignal
    BY <1>8
    DEF StopSignal, QueueInv, TypeInv, TypeOK
  <1>9. CASE JoinWorker
    BY <1>9
    DEF JoinWorker, QueueInv, TypeInv, TypeOK
  <1> QED BY <1>1, <1>2, <1>3, <1>4, <1>5, <1>6, <1>7, <1>8, <1>9 DEF Main

-----------------------------------------------------------------------------
(***************************************************************************)
(* The invariants hold, and what follows from them.                        *)
(***************************************************************************)
\* IInv is an inductive invariant of the specification.
THEOREM Inductive == Spec => []IInv
  <1>1. Init => TypeInv
    BY DEF Init, TypeInv, TypeOK, BatchInv, WorkerLabels, ClientLabels, MainLabels,
           Condexes, NewCondex, CondexPairs, NewCondexPair
  <1>2. Init => PhaseInv /\ CountInv /\ MarkInv /\ QueueInv
    BY DEF Init, PhaseInv, CountInv, MarkInv, QueueInv, Asleep, NewCondex
  <1>3. IInv /\ [Next]_vars => IInv'
    <2> SUFFICES ASSUME IInv, [Next]_vars PROVE IInv'
      OBVIOUS
    <2> USE DEF IInv
    <2>1. CASE Worker
      BY <2>1, WorkerTypes, WorkerPhases, WorkerMarks, WorkerQueues
    <2>2. ASSUME NEW c \in Clients, Client(c) PROVE IInv'
      BY <2>2, ClientTypes, ClientPhases, ClientMarks, ClientQueues
    <2>3. CASE Main
      BY <2>3, MainTypes, MainPhases, MainMarks, MainQueues
    <2>4. CASE UNCHANGED vars
      <3> USE <2>4 DEF vars, queueVars, workerVars, clientVars, mainVars
      <3>1. TypeInv'
        BY DEF TypeInv, TypeOK, BatchInv, TimeBound
      <3>2. PhaseInv' /\ QueueInv'
        BY DEF PhaseInv, QueueInv
      <3>3. CountInv' /\ MarkInv'
        BY DEF CountInv, MarkInv, Asleep, MayReturn
      <3> QED BY <3>1, <3>2, <3>3
    <2> QED BY <2>1, <2>2, <2>3, <2>4 DEF Next
  <1> QED BY <1>1, <1>2, <1>3, PTL DEF Spec, IInv

\* Every variable keeps its type in every reachable state.
THEOREM TypeCorrect == Spec => []TypeOK
  BY Inductive, PTL DEF IInv, TypeInv

\* A worker asleep is marked SLEEP or one client is about to signal it, and nobody
\* signals a worker that is not asleep (set_ws, condex_sleep, stop).
THEOREM SleeperMarked == Spec => []SleeperIsMarked
  <1>1. IInv => SleeperIsMarked
    BY DEF IInv, MarkInv, SleeperIsMarked
  <1> QED BY <1>1, Inductive, PTL

\* The swap of the two vectors always yields a request and never drops one
\* (wait_for_input, pop).
THEOREM SwapSound == Spec => []SwapFindsWork
  <1>1. IInv => SwapFindsWork
    BY DEF IInv, QueueInv, SwapFindsWork
  <1> QED BY <1>1, Inductive, PTL

-----------------------------------------------------------------------------
(***************************************************************************)
(* The queue, the batches and the refinement: the inductive invariant.     *)
(***************************************************************************)
\* q is a FIFO queue of requests: it holds, in order, the ones of each client c from
\* the done[c]-th to the sent[c]-th.
Fifo(q, done, sent) ==
  /\ \A c \in Clients : done[c] <= sent[c]
  /\ \A i \in DOMAIN q : done[q[i].client] <= q[i].id /\ q[i].id < sent[q[i].client]
  /\ \A i, j \in DOMAIN q : i < j /\ q[i].client = q[j].client => q[i].id < q[j].id
  /\ \A c \in Clients : \A n \in done[c] .. sent[c] - 1 :
       \E i \in DOMAIN q : q[i].client = c /\ q[i].id = n

\* The requests of q that carry a condex are those that end a batch, and the k-th batch
\* of a client has slot k - 1 modulo 2 of its pair.
Marked(q, pairs) ==
  \A i \in DOMAIN q : LET last == pairs[q[i].client].requested IN
    /\ q[i].notify # NoCondex =>
         \E k \in 1 .. last : q[i].id + 1 = FirstBatches(k) /\ q[i].notify = (k - 1) % 2
    /\ \A k \in 1 .. last : q[i].id + 1 = FirstBatches(k) => q[i].notify # NoCondex

\* The signals and the waits of a pair alternate between its slots.
Alternating(p) ==
  /\ p.wanted = p.requested
  /\ p.wait[0].signals - p.wait[1].signals \in {0, 1}
  /\ p.wait[0].waits - p.wait[1].waits \in {0, 1}
  /\ p.waited = p.wait[0].waits + p.wait[1].waits

\* The batches of a client of which the last request was run.
Completed(c) == SignalsOf(c) + (IF Announcing(c) THEN 1 ELSE 0)

\* The request in hand; the signal it is about to send is the next one of its client.
HandInv ==
  /\ wpc \in {"serve", "notify"} => Len(req) = 1
  /\ wpc = "notify" /\ Head(req).notify # NoCondex =>
       Head(req).notify = SignalsOf(Head(req).client) % 2

FifoInv == Fifo(Pending, served, cnt)
MarkedInv == Marked(Pending, pair)
PairInv == \A c \in Clients : Alternating(pair[c])

\* How many batches a client has submitted and not waited for, by where it is.  A client
\* without a share of the transactions waits for a batch that nobody submits.
RoundOf(c) ==
  LET requested == pair[c].requested
      behind == pair[c].requested - pair[c].waited
      shareless == ~TimeBound /\ TrxsPerThread = 0 /\ requested = 0
  IN
  /\ cpc[c] = "unborn" => requested = 0 /\ behind = 0 /\ cnt[c] = 0
  /\ left[c] > 0 => behind = IF TimeBound /\ requested > 0 THEN 1 ELSE 0
  /\ cpc[c] \in {"setws", "signal"} /\ left[c] = 0 =>
       behind = IF TimeBound /\ requested # 1 THEN 2 ELSE 1
  /\ cpc[c] = "wait" =>
       \/ behind = IF TimeBound /\ ~leaving[c] THEN 2 ELSE 1
       \/ shareless /\ pair[c].waited = 0
  /\ cpc[c] = "blocked" =>
       /\ pair[c].waited > 0
       /\ \/ behind = IF TimeBound /\ ~leaving[c] THEN 1 ELSE 0
          \/ shareless /\ pair[c].waited = 1
  /\ cpc[c] = "check" => behind = 1
  /\ cpc[c] = "exited" => behind = 0
  /\ leaving[c] => TimeBound /\ cpc[c] \in {"wait", "blocked", "exited"}

\* How far a client is in the batch it submits.
ProgressOf(c) ==
  LET requested == pair[c].requested IN
  /\ left[c] > 0 =>
       /\ cpc[c] \in {"submit", "setws", "signal"}
       /\ FirstBatches(requested) <= cnt[c]
       /\ cnt[c] + left[c] = FirstBatches(requested + 1)
  /\ left[c] = 0 => cnt[c] = FirstBatches(requested)
  /\ \A j, k \in 0 .. requested : j < k => FirstBatches(j) < FirstBatches(k)
  /\ ~TimeBound => cnt[c] <= TrxsPerThread

\* The requests run are the completed batches and a part of the next one, and no wait
\* has returned before its batch was announced.
LedgerOf(c) ==
  /\ Returned(c) <= SignalsOf(c)
  /\ Completed(c) <= pair[c].requested
  /\ FirstBatches(Completed(c)) <= served[c]
  /\ \A k \in Completed(c) + 1 .. pair[c].requested : served[c] < FirstBatches(k)

RoundInv == \A c \in Clients : RoundOf(c)
ProgressInv == \A c \in Clients : ProgressOf(c)
LedgerInv == \A c \in Clients : LedgerOf(c)

BatchesInv ==
  HandInv /\ FifoInv /\ MarkedInv /\ PairInv /\ RoundInv /\ ProgressInv /\ LedgerInv

FullInv == IInv /\ BatchesInv

-----------------------------------------------------------------------------
(***************************************************************************)
(* Lemmas about sequences of requests.                                     *)
(***************************************************************************)
\* What the elements of an extended and of a shortened queue are.
LEMMA QueueAppend ==
  ASSUME NEW q \in Seq(Requests), NEW r \in Requests
  PROVE  /\ Append(q, r) \in Seq(Requests)
         /\ DOMAIN Append(q, r) = DOMAIN q \cup {Len(q) + 1}
         /\ Len(q) + 1 \notin DOMAIN q
         /\ Append(q, r)[Len(q) + 1] = r
         /\ \A i \in DOMAIN q : i \in Nat /\ i < Len(q) + 1 /\ Append(q, r)[i] = q[i]
  <1>1. Len(q) \in Nat /\ DOMAIN q = 1 .. Len(q)
    BY LenProperties
  <1>2. /\ Append(q, r) \in Seq(Requests)
        /\ Len(Append(q, r)) = Len(q) + 1
        /\ \A i \in 1 .. Len(q) : Append(q, r)[i] = q[i]
        /\ Append(q, r)[Len(q) + 1] = r
    BY AppendProperties
  <1>3. DOMAIN Append(q, r) = 1 .. Len(q) + 1
    BY <1>2, LenProperties
  <1> QED BY <1>1, <1>2, <1>3

LEMMA QueueTail ==
  ASSUME NEW q \in Seq(Requests), q # <<>>
  PROVE  /\ Tail(q) \in Seq(Requests)
         /\ Head(q) = q[1] /\ 1 \in DOMAIN q
         /\ DOMAIN Tail(q) = {i \in Nat \ {0} : i + 1 \in DOMAIN q}
         /\ \A i \in DOMAIN Tail(q) : i + 1 \in DOMAIN q /\ Tail(q)[i] = q[i + 1]
         /\ \A i \in DOMAIN q : i = 1 \/ i - 1 \in DOMAIN Tail(q)
  <1>1. Len(q) \in Nat \ {0} /\ DOMAIN q = 1 .. Len(q)
    BY LenProperties, EmptySeq
  <1>2. /\ Tail(q) \in Seq(Requests)
        /\ Len(Tail(q)) = Len(q) - 1
        /\ \A i \in 1 .. Len(Tail(q)) : Tail(q)[i] = q[i + 1]
    BY HeadTailProperties
  <1>3. DOMAIN Tail(q) = 1 .. Len(q) - 1
    BY <1>2, LenProperties
  <1>4. Head(q) = q[1]
    BY <1>1
  <1> QED BY <1>1, <1>2, <1>3, <1>4

\* An element of a queue is a request.
LEMMA QueueElement ==
  ASSUME NEW q \in Seq(Requests), NEW i \in DOMAIN q
  PROVE  /\ q[i] \in Requests
         /\ q[i].client \in Clients /\ q[i].id \in Nat /\ q[i].notify \in Slots \cup {NoCondex}
         /\ i \in Nat \ {0}
  <1>1. q[i] \in Requests /\ i \in Nat \ {0}
    BY LenProperties, ElementOfSeq
  <1> QED BY <1>1 DEF Requests

\* A client's next request at the end of the queue keeps it a FIFO queue.
LEMMA FifoAppend ==
  ASSUME NEW q \in Seq(Requests), NEW done \in [Clients -> Nat], NEW sent \in [Clients -> Nat],
         Fifo(q, done, sent), NEW r \in Requests, r.id = sent[r.client]
  PROVE  Fifo(Append(q, r), done, [sent EXCEPT ![r.client] = @ + 1])
  <1> DEFINE c == r.client
             Q == Append(q, r)
             more == [sent EXCEPT ![c] = @ + 1]
  <1>0. c \in Clients
    BY DEF Requests
  <1>1. \A d \in Clients : more[d] = IF d = c THEN sent[d] + 1 ELSE sent[d]
    BY <1>0
  <1>2. \A d \in Clients : done[d] <= more[d]
    BY <1>1 DEF Fifo
  <1>3. ASSUME NEW i \in DOMAIN Q
        PROVE  done[Q[i].client] <= Q[i].id /\ Q[i].id < more[Q[i].client]
    <2>1. CASE i = Len(q) + 1
      BY <2>1, <1>0, <1>1, QueueAppend DEF Fifo
    <2>2. CASE i \in DOMAIN q
      <3>1. Q[i] = q[i] /\ q[i].client \in Clients /\ q[i].id \in Nat
        BY <2>2, QueueAppend, QueueElement
      <3> QED BY <2>2, <3>1, <1>1 DEF Fifo
    <2> QED BY <2>1, <2>2, <1>3, QueueAppend
  <1>4. ASSUME NEW i \in DOMAIN Q, NEW j \in DOMAIN Q, i < j, Q[i].client = Q[j].client
        PROVE  Q[i].id < Q[j].id
    <2>1. i \in DOMAIN q
      <3>1. j \in Nat /\ j <= Len(q) + 1 /\ i \in Nat
        BY QueueAppend, LenProperties
      <3> QED BY <1>4, <3>1, QueueAppend
    <2>2. Q[i] = q[i] /\ q[i].client \in Clients /\ q[i].id < sent[q[i].client]
      BY <2>1, QueueAppend, QueueElement DEF Fifo
    <2>3. CASE j = Len(q) + 1
      BY <1>4, <2>2, <2>3, QueueAppend
    <2>4. CASE j \in DOMAIN q
      BY SMTT(60), <1>4, <2>1, <2>2, <2>4, QueueAppend DEF Fifo
    <2> QED BY <2>3, <2>4, QueueAppend
  <1>5. ASSUME NEW d \in Clients, NEW n \in done[d] .. more[d] - 1
        PROVE  \E i \in DOMAIN Q : Q[i].client = d /\ Q[i].id = n
    <2>1. CASE n < sent[d]
      <3>1. n \in done[d] .. sent[d] - 1
        BY <2>1
      <3>2. PICK i \in DOMAIN q : q[i].client = d /\ q[i].id = n
        BY <3>1 DEF Fifo
      <3> QED BY <3>2, QueueAppend
    <2>2. CASE ~(n < sent[d])
      <3>1. d = c /\ n = sent[c]
        BY <2>2, <1>1
      <3>2. Q[Len(q) + 1] = r /\ Len(q) + 1 \in DOMAIN Q
        BY QueueAppend
      <3> QED BY <3>1, <3>2
    <2> HIDE DEF Q, more
    <2> QED BY <2>1, <2>2
  <1> HIDE DEF Q, more
  <1>6. Fifo(Q, done, more)
    BY <1>2, <1>3, <1>4, <1>5 DEF Fifo
  <1> QED BY <1>6 DEF Q, more

\* The head of a FIFO queue is the next request of its client, and the queue without it
\* is a FIFO queue.
LEMMA FifoTail ==
  ASSUME NEW q \in Seq(Requests), NEW done \in [Clients -> Nat], NEW sent \in [Clients -> Nat],
         Fifo(q, done, sent), q # <<>>
  PROVE  /\ Head(q).id = done[Head(q).client]
         /\ Fifo(Tail(q), [done EXCEPT ![Head(q).client] = @ + 1], sent)
  <1> DEFINE c == q[1].client
             Q == Tail(q)
             more == [done EXCEPT ![c] = @ + 1]
  <1>1. Head(q) = q[1] /\ 1 \in DOMAIN q /\ c \in Clients /\ q[1].id \in Nat
    BY QueueTail, QueueElement
  <1>2. q[1].id = done[c]
    <2>1. done[c] <= q[1].id /\ q[1].id < sent[c]
      BY <1>1 DEF Fifo
    <2>2. done[c] \in done[c] .. sent[c] - 1
      BY <1>1, <2>1
    <2>3. PICK i \in DOMAIN q : q[i].client = c /\ q[i].id = done[c]
      BY SMTT(60), <1>1, <2>2 DEF Fifo
    <2>4. i = 1 \/ 1 < i
      BY QueueElement
    <2>5. 1 < i => q[1].id < q[i].id
      BY <1>1, <2>3 DEF Fifo
    <2> QED BY <2>1, <2>3, <2>4, <2>5, <1>1
  <1>3. \A d \in Clients : more[d] = IF d = c THEN done[d] + 1 ELSE done[d]
    BY <1>1
  <1>4. \A d \in Clients : more[d] <= sent[d]
    BY <1>1, <1>2, <1>3 DEF Fifo
  <1>5. ASSUME NEW i \in DOMAIN Q
        PROVE  more[Q[i].client] <= Q[i].id /\ Q[i].id < sent[Q[i].client]
    <2>1. i + 1 \in DOMAIN q /\ Q[i] = q[i + 1] /\ i \in Nat \ {0} /\ 1 < i + 1
      BY QueueTail
    <2>2. q[i + 1].client \in Clients /\ q[i + 1].id \in Nat
      BY <2>1, QueueElement
    <2>3. q[i + 1].client = c => q[1].id < q[i + 1].id
      BY <1>1, <2>1 DEF Fifo
    <2>4. done[q[i + 1].client] <= q[i + 1].id /\ q[i + 1].id < sent[q[i + 1].client]
      BY <2>1 DEF Fifo
    <2> HIDE DEF Q, c, more
    <2> QED BY <1>1, <1>2, <1>3, <2>1, <2>2, <2>3, <2>4
  <1>6. ASSUME NEW i \in DOMAIN Q, NEW j \in DOMAIN Q, i < j, Q[i].client = Q[j].client
        PROVE  Q[i].id < Q[j].id
    <2>1. /\ i + 1 \in DOMAIN q /\ Q[i] = q[i + 1] /\ i \in Nat
          /\ j + 1 \in DOMAIN q /\ Q[j] = q[j + 1] /\ j \in Nat
      BY QueueTail
    <2> QED BY <1>6, <2>1 DEF Fifo
  <1>7. ASSUME NEW d \in Clients, NEW n \in more[d] .. sent[d] - 1
        PROVE  \E i \in DOMAIN Q : Q[i].client = d /\ Q[i].id = n
    <2>1. n \in done[d] .. sent[d] - 1 /\ (d = c => n # q[1].id)
      BY <1>1, <1>2, <1>3
    <2>2. PICK i \in DOMAIN q : q[i].client = d /\ q[i].id = n
      BY <2>1 DEF Fifo
    <2>3. i # 1
      BY <2>1, <2>2
    <2>4. i - 1 \in DOMAIN Q /\ i \in Nat \ {0}
      BY <2>3, QueueTail, QueueElement
    <2>5. Q[i - 1] = q[i]
      BY <2>4, QueueTail
    <2> QED BY <2>2, <2>4, <2>5
  <1> HIDE DEF Q, more
  <1>8. Fifo(Q, more, sent)
    BY <1>4, <1>5, <1>6, <1>7 DEF Fifo
  <1> QED BY <1>1, <1>2, <1>8 DEF Q, more

\* The marks do not depend on more than the requested batches, and hold for less of the queue.
LEMMA MarkedSame ==
  ASSUME NEW q \in Seq(Requests), NEW old, NEW new,
         Marked(q, old), \A c \in Clients : new[c].requested = old[c].requested
  PROVE  Marked(q, new)
  <1>1. \A i \in DOMAIN q : q[i].client \in Clients
    BY QueueElement
  <1> QED BY <1>1 DEF Marked

LEMMA MarkedTail ==
  ASSUME NEW q \in Seq(Requests), NEW pairs, Marked(q, pairs), q # <<>>
  PROVE  Marked(Tail(q), pairs)
  BY QueueTail DEF Marked

LEMMA MarkedAppend ==
  ASSUME NEW q \in Seq(Requests), NEW r \in Requests,
         NEW old \in [Clients -> CondexPairs], NEW new \in [Clients -> CondexPairs],
         Marked(q, old),
         \A c \in Clients : old[c].requested <= new[c].requested,
         \A i \in DOMAIN q :
           \A k \in old[q[i].client].requested + 1 .. new[q[i].client].requested :
             q[i].id + 1 # FirstBatches(k),
         r.notify # NoCondex =>
           \E k \in 1 .. new[r.client].requested :
             r.id + 1 = FirstBatches(k) /\ r.notify = (k - 1) % 2,
         \A k \in 1 .. new[r.client].requested :
           r.id + 1 = FirstBatches(k) => r.notify # NoCondex
  PROVE  Marked(Append(q, r), new)
  <1> DEFINE Q == Append(q, r)
  <1>1. ASSUME NEW i \in DOMAIN q
        PROVE  /\ q[i].notify # NoCondex =>
                    \E k \in 1 .. new[q[i].client].requested :
                      q[i].id + 1 = FirstBatches(k) /\ q[i].notify = (k - 1) % 2
               /\ \A k \in 1 .. new[q[i].client].requested :
                    q[i].id + 1 = FirstBatches(k) => q[i].notify # NoCondex
    <2> DEFINE c == q[i].client
    <2>1. c \in Clients
      BY QueueElement
    <2>2. old[c].requested \in Nat /\ new[c].requested \in Nat
          /\ old[c].requested <= new[c].requested
      BY <2>1 DEF CondexPairs
    <2>3. \A k \in 1 .. new[c].requested :
            k \in 1 .. old[c].requested \/ k \in old[c].requested + 1 .. new[c].requested
      BY <2>2
    <2>4. \A k \in 1 .. old[c].requested : k \in 1 .. new[c].requested
      BY <2>2
    <2> HIDE DEF c
    <2> QED BY <2>3, <2>4 DEF Marked, c
  <1>2. \A i \in DOMAIN Q : (i \in DOMAIN q /\ Q[i] = q[i]) \/ Q[i] = r
    BY QueueAppend
  <1> HIDE DEF Q
  <1>3. Marked(Q, new)
    BY <1>1, <1>2 DEF Marked
  <1> QED BY <1>3 DEF Q

-----------------------------------------------------------------------------
(***************************************************************************)
(* Lemmas about batches and pairs of condexes.                             *)
(***************************************************************************)
\* The first n batches end where the next one begins.
LEMMA BatchesType == \A n \in Nat : FirstBatches(n) \in Nat
  BY ShareType, ConstantsAssumption DEF FirstBatches

LEMMA BatchesStart == FirstBatches(0) = 0
  BY ShareType, ConstantsAssumption DEF FirstBatches

LEMMA NextBatch ==
  ASSUME NEW n \in Nat
  PROVE  FirstBatches(n) + BatchLen(FirstBatches(n)) = FirstBatches(n + 1)
  BY ShareType, ConstantsAssumption DEF FirstBatches, BatchLen

LEMMA BatchesBound ==
  ASSUME NEW n \in Nat, ~TimeBound
  PROVE  FirstBatches(n) <= TrxsPerThread
  BY ShareType, ConstantsAssumption DEF FirstBatches

\* A client that has not submitted its share has a batch to submit.
LEMMA BatchHasRequests ==
  ASSUME NEW n \in Nat, TimeBound \/ n < TrxsPerThread
  PROVE  BatchLen(n) \in Nat \ {0}
  BY ShareType, ConstantsAssumption DEF BatchLen

\* What the fields of a pair are.
LEMMA PairFields ==
  ASSUME NEW p \in CondexPairs
  PROVE  /\ p.requested \in Nat /\ p.wanted \in Nat /\ p.waited \in Nat
         /\ p.wait[0].signals \in Nat /\ p.wait[1].signals \in Nat
         /\ p.wait[0].waits \in Nat /\ p.wait[1].waits \in Nat
  BY DEF CondexPairs, Condexes, Slots

\* Two counters that alternate differ if and only if their sum is odd.
LEMMA Parity ==
  ASSUME NEW a \in Nat, NEW b \in Nat, a - b \in {0, 1}
  PROVE  (a + b) % 2 = IF a = b THEN 0 ELSE 1
  <1>1. CASE a = b
    BY <1>1
  <1>2. CASE a = b + 1
    BY <1>2
  <1> QED BY <1>1, <1>2

\* please_take_one() and take_one() take the next slot, and without the first the second
\* takes none.
LEMMA PairTake ==
  ASSUME NEW p \in CondexPairs, Alternating(p)
  PROVE  /\ ~CanTakeOne(p)
         /\ CanTakeOne(PleaseTakeOne(p))
         /\ TakenSlot(PleaseTakeOne(p)) = p.requested % 2
         /\ Alternating(TakeOne(PleaseTakeOne(p)))
         /\ TakeOne(PleaseTakeOne(p)).requested = p.requested + 1
         /\ TakeOne(PleaseTakeOne(p)).waited = p.waited
         /\ TakeOne(PleaseTakeOne(p)).wait = p.wait
  BY PairFields DEF CondexPairs, Alternating, CanTakeOne, TakeOne, TakenSlot, PleaseTakeOne

\* A signal of the next slot keeps the signals alternating.
LEMMA PairSignal ==
  ASSUME NEW p \in CondexPairs, Alternating(p), NEW s,
         s = IF p.wait[0].signals = p.wait[1].signals THEN 0 ELSE 1
  PROVE  LET q == SignalSlot(p, s) IN
         /\ Alternating(q)
         /\ q.wait[0].signals + q.wait[1].signals = p.wait[0].signals + p.wait[1].signals + 1
         /\ q.requested = p.requested /\ q.waited = p.waited
  <1> DEFINE q == SignalSlot(p, s)
  <1>1. p.wait \in [Slots -> Condexes] /\ s \in Slots /\ 0 \in Slots /\ 1 \in Slots
    BY PairFields DEF CondexPairs, Slots
  <1>2. q.wait = [p.wait EXCEPT ![s] = Signal(p.wait[s])]
        /\ q.requested = p.requested /\ q.waited = p.waited /\ q.wanted = p.wanted
    BY DEF SignalSlot, CondexPairs
  <1>3. \A t \in Slots : /\ q.wait[t].signals = p.wait[t].signals + (IF t = s THEN 1 ELSE 0)
                         /\ q.wait[t].waits = p.wait[t].waits
    BY <1>1, <1>2 DEF Signal, Condexes
  <1> HIDE DEF q
  <1>5. /\ q.wait[0].signals = p.wait[0].signals + (IF s = 0 THEN 1 ELSE 0)
        /\ q.wait[1].signals = p.wait[1].signals + (IF s = 1 THEN 1 ELSE 0)
        /\ q.wait[0].waits = p.wait[0].waits /\ q.wait[1].waits = p.wait[1].waits
    BY <1>1, <1>3
  <1>6. /\ Alternating(q)
        /\ q.wait[0].signals + q.wait[1].signals = p.wait[0].signals + p.wait[1].signals + 1
    <2>1. /\ p.wait[0].signals \in Nat /\ p.wait[1].signals \in Nat
          /\ p.wait[0].waits \in Nat /\ p.wait[1].waits \in Nat
      BY PairFields
    <2>2. CASE p.wait[0].signals = p.wait[1].signals
      BY <1>2, <1>5, <2>1, <2>2 DEF Alternating
    <2>3. CASE p.wait[0].signals = p.wait[1].signals + 1
      BY SMTT(60), <1>2, <1>5, <2>1, <2>3 DEF Alternating
    <2>4. p.wait[0].signals = p.wait[1].signals \/ p.wait[0].signals = p.wait[1].signals + 1
      BY <2>1 DEF Alternating
    <2> QED BY <2>2, <2>3, <2>4
  <1> QED BY <1>2, <1>6 DEF q

\* So does a wait with the waits.
LEMMA PairWait ==
  ASSUME NEW p \in CondexPairs, Alternating(p)
  PROVE  LET q == StartPairWait(p) IN
         /\ Alternating(q)
         /\ q.wait[0].signals = p.wait[0].signals /\ q.wait[1].signals = p.wait[1].signals
         /\ q.requested = p.requested /\ q.waited = p.waited + 1
  <1> DEFINE q == StartPairWait(p)
             s == p.waited % 2
  <1>1. p.wait \in [Slots -> Condexes] /\ s \in Slots /\ 0 \in Slots /\ 1 \in Slots
    BY PairFields DEF CondexPairs, Slots
  <1>2. q.wait = [p.wait EXCEPT ![s] = StartWait(p.wait[s])]
        /\ q.requested = p.requested /\ q.waited = p.waited + 1 /\ q.wanted = p.wanted
    BY DEF StartPairWait, WaitOnSlot, CondexPairs
  <1>3. \A t \in Slots : /\ q.wait[t].waits = p.wait[t].waits + (IF t = s THEN 1 ELSE 0)
                         /\ q.wait[t].signals = p.wait[t].signals
    BY <1>1, <1>2 DEF StartWait, Condexes
  <1>4. s = IF p.wait[0].waits = p.wait[1].waits THEN 0 ELSE 1
    BY PairFields, Parity DEF Alternating
  <1> HIDE DEF q
  <1>5. /\ q.wait[0].waits = p.wait[0].waits + (IF s = 0 THEN 1 ELSE 0)
        /\ q.wait[1].waits = p.wait[1].waits + (IF s = 1 THEN 1 ELSE 0)
        /\ q.wait[0].signals = p.wait[0].signals /\ q.wait[1].signals = p.wait[1].signals
    BY <1>1, <1>3
  <1> HIDE DEF s
  <1>6. Alternating(q)
    <2>1. /\ p.wait[0].signals \in Nat /\ p.wait[1].signals \in Nat
          /\ p.wait[0].waits \in Nat /\ p.wait[1].waits \in Nat
      BY PairFields
    <2>2. CASE p.wait[0].waits = p.wait[1].waits
      BY <1>2, <1>4, <1>5, <2>1, <2>2 DEF Alternating
    <2>3. CASE p.wait[0].waits = p.wait[1].waits + 1
      BY SMTT(60), <1>2, <1>4, <1>5, <2>1, <2>3 DEF Alternating
    <2>4. p.wait[0].waits = p.wait[1].waits \/ p.wait[0].waits = p.wait[1].waits + 1
      BY <2>1 DEF Alternating
    <2> QED BY <2>2, <2>3, <2>4
  <1> QED BY <1>2, <1>5, <1>6 DEF q

\* A wait on the pair returns only when there are as many signals as waits.
LEMMA PairReturn ==
  ASSUME NEW p \in CondexPairs, Alternating(p), p.waited > 0, MayReturnPair(p)
  PROVE  p.waited <= p.wait[0].signals + p.wait[1].signals
  <1> DEFINE s == (p.waited - 1) % 2
  <1>1. s \in {0, 1} /\ p.wait[s].waits <= p.wait[s].signals
    BY PairFields DEF MayReturnPair, MayReturn, WaitingSlot
  <1>2. s = IF p.wait[0].waits = p.wait[1].waits THEN 1 ELSE 0
    BY PairFields DEF Alternating
  <1> HIDE DEF s
  <1> QED BY <1>1, <1>2, PairFields DEF Alternating

-----------------------------------------------------------------------------
(***************************************************************************)
(* What the actions do to the queue.                                       *)
(***************************************************************************)
LEMMA PendingType == TypeInv => Pending \in Seq(Requests)
  <1> SUFFICES ASSUME TypeInv PROVE Pending \in Seq(Requests)
    OBVIOUS
  <1> DEFINE hand == IF wpc = "serve" THEN req ELSE <<>>
  <1>1. hand \in Seq(Requests) /\ readers \in Seq(Requests) /\ writers \in Seq(Requests)
    BY EmptySeq DEF TypeInv, TypeOK
  <1> HIDE DEF hand
  <1>2. (hand \o readers) \o writers \in Seq(Requests)
    BY <1>1, ConcatProperties
  <1> QED BY <1>2 DEF Pending, hand

\* pop() and the swap of the vectors leave the queue as it is.
LEMMA PendingPop ==
  ASSUME TypeInv, Pop
  PROVE  Pending' = Pending
  <1>1. readers \in Seq(Requests) /\ writers' = writers /\ wpc = "pop"
    BY DEF Pop, queueVars, TypeInv, TypeOK
  <1>2. CASE readers # <<>>
    <2>1. wpc' = "serve" /\ req' = <<Head(readers)>> /\ readers' = Tail(readers)
      BY <1>2 DEF Pop
    <2>2. <<Head(readers)>> \o Tail(readers) = readers
      <3>1. /\ Head(readers) = readers[1] /\ Len(readers) \in Nat \ {0}
            /\ <<Head(readers)>> \in Seq(Requests) /\ Tail(readers) \in Seq(Requests)
            /\ Len(Tail(readers)) = Len(readers) - 1
            /\ \A i \in 1 .. Len(readers) - 1 : Tail(readers)[i] = readers[i + 1]
        BY <1>1, <1>2, HeadTailProperties, QueueTail, EmptySeq
      <3> DEFINE one == <<Head(readers)>>
                 both == one \o Tail(readers)
      <3>2. Len(one) = 1 /\ one[1] = readers[1]
        BY <3>1
      <3>3. /\ both \in Seq(Requests) /\ Len(both) = Len(readers)
            /\ \A i \in 1 .. Len(readers) :
                 both[i] = IF i <= 1 THEN one[i] ELSE Tail(readers)[i - 1]
        BY <3>1, <3>2, ConcatProperties
      <3>4. \A i \in 1 .. Len(readers) : both[i] = readers[i]
        BY <3>1, <3>2, <3>3
      <3> HIDE DEF both
      <3>5. both = readers
        BY <1>1, <3>3, <3>4, SeqEqual
      <3> QED BY <3>5 DEF both
    <2>3. <<>> \o readers = readers
      BY <1>1, ConcatEmptySeq
    <2> QED BY <1>1, <2>1, <2>2, <2>3 DEF Pending
  <1>3. CASE readers = <<>>
    BY <1>1, <1>3 DEF Pop, Pending
  <1> QED BY <1>2, <1>3

LEMMA PendingSwap ==
  ASSUME TypeInv, QueueInv, SwapVectors
  PROVE  Pending' = Pending
  <1>1. writers \in Seq(Requests) /\ readers = <<>> /\ wpc = "swap" /\ wpc' = "pop"
        /\ readers' = writers /\ writers' = <<>>
    BY DEF SwapVectors, QueueInv, TypeInv, TypeOK
  <1>2. <<>> \in Seq(Requests) /\ <<>> \o writers = writers /\ writers \o <<>> = writers
        /\ <<>> \o <<>> = <<>>
    BY <1>1, EmptySeq, ConcatEmptySeq
  <1> QED BY <1>1, <1>2 DEF Pending

\* The request in hand is the head of the queue, and to run it takes it off.
LEMMA PendingServe ==
  ASSUME TypeInv, HandInv, ServeAction
  PROVE  Pending # <<>> /\ Head(Pending) = Head(req) /\ Pending' = Tail(Pending)
  <1> DEFINE rest == readers \o writers
  <1>1. /\ req \in Seq(Requests) /\ readers \in Seq(Requests) /\ writers \in Seq(Requests)
        /\ Len(req) = 1 /\ req # <<>> /\ wpc = "serve" /\ wpc' = "notify"
        /\ readers' = readers /\ writers' = writers
    BY DEF ServeAction, queueVars, HandInv, TypeInv, TypeOK
  <1>2. rest \in Seq(Requests) /\ <<>> \o readers = readers
    BY <1>1, ConcatProperties, ConcatEmptySeq
  <1>3. Pending = req \o rest /\ Pending' = rest
    BY <1>1, <1>2, ConcatAssociative DEF Pending
  <1> HIDE DEF rest
  <1>4. /\ Pending \in Seq(Requests) /\ Len(Pending) = Len(rest) + 1
        /\ Pending[1] = req[1]
        /\ \A i \in 1 .. Len(rest) : Pending[i + 1] = rest[i]
        /\ Len(rest) \in Nat
    <2>1. /\ req \o rest \in Seq(Requests) /\ Len(req \o rest) = 1 + Len(rest)
          /\ \A i \in 1 .. 1 + Len(rest) :
               (req \o rest)[i] = IF i <= 1 THEN req[i] ELSE rest[i - 1]
      <3>1. /\ req \o rest \in Seq(Requests) /\ Len(req \o rest) = Len(req) + Len(rest)
            /\ \A i \in 1 .. Len(req) + Len(rest) :
                 (req \o rest)[i] = IF i <= Len(req) THEN req[i] ELSE rest[i - Len(req)]
        BY <1>1, <1>2, ConcatProperties
      <3> QED BY <1>1, <3>1
    <2>2. Len(rest) \in Nat
      BY <1>2, LenProperties
    <2>3. \A i \in 1 .. Len(rest) : i + 1 \in 1 .. 1 + Len(rest) /\ ~(i + 1 <= 1) /\ i + 1 - 1 = i
      BY <2>2
    <2> QED BY <1>3, <2>1, <2>2, <2>3
  <1>5. Pending # <<>>
    BY <1>4, EmptySeq
  <1>6. Head(Pending) = Head(req)
    BY <1>1, <1>4, <1>5, QueueTail
  <1>7. Tail(Pending) = rest
    <2>1. /\ Tail(Pending) \in Seq(Requests) /\ Len(Tail(Pending)) = Len(rest)
          /\ \A i \in 1 .. Len(rest) : Tail(Pending)[i] = rest[i]
      BY <1>4, <1>5, HeadTailProperties
    <2> QED BY <1>2, <2>1, SeqEqual
  <1> QED BY <1>3, <1>5, <1>6, <1>7

\* A push appends a request of the client to the queue.
LEMMA PendingAppend ==
  ASSUME TypeInv, NEW r \in Requests, writers' = Append(writers, r),
         UNCHANGED <<readers, wpc, req>>
  PROVE  Pending' = Append(Pending, r)
  <1> DEFINE hand == IF wpc = "serve" THEN req ELSE <<>>
             front == hand \o readers
  <1>1. /\ hand \in Seq(Requests) /\ readers \in Seq(Requests) /\ writers \in Seq(Requests)
        /\ <<r>> \in Seq(Requests)
    BY EmptySeq DEF TypeInv, TypeOK
  <1>2. Pending = front \o writers /\ Pending' = front \o Append(writers, r)
    BY DEF Pending
  <1>3. front \in Seq(Requests)
    BY <1>1, ConcatProperties
  <1> HIDE DEF hand, front
  <1>4. Append(writers, r) = writers \o <<r>> /\ Append(Pending, r) = Pending \o <<r>>
    BY <1>1, PendingType, AppendIsConcat
  <1>5. (front \o writers) \o <<r>> = front \o (writers \o <<r>>)
    BY SMTT(60), <1>1, <1>3, ConcatAssociative
  <1> QED BY <1>2, <1>4, <1>5

\* The vectors of an empty queue are empty.
LEMMA PendingEmpty ==
  ASSUME TypeInv, Pending = <<>>
  PROVE  readers = <<>> /\ writers = <<>>
  <1> DEFINE hand == IF wpc = "serve" THEN req ELSE <<>>
  <1>1. hand \in Seq(Requests) /\ readers \in Seq(Requests) /\ writers \in Seq(Requests)
    BY EmptySeq DEF TypeInv, TypeOK
  <1>2. Pending = (hand \o readers) \o writers
    BY DEF Pending
  <1> HIDE DEF hand
  <1>3. hand \o readers \in Seq(Requests)
    BY <1>1, ConcatProperties
  <1> DEFINE front == hand \o readers
  <1>4. Len(front \o writers) = 0 /\ Len(front \o writers) = Len(front) + Len(writers)
        /\ Len(front) = Len(hand) + Len(readers)
    BY <1>1, <1>2, <1>3, ConcatProperties, EmptySeq
  <1> HIDE DEF front
  <1>5. Len(hand) \in Nat /\ Len(readers) \in Nat /\ Len(writers) \in Nat
    BY <1>1, LenProperties
  <1>6. Len(readers) = 0 /\ Len(writers) = 0
    BY <1>4, <1>5
  <1> QED BY <1>1, <1>6, EmptySeq

-----------------------------------------------------------------------------
(***************************************************************************)
(* The actions preserve the invariant.                                     *)
(***************************************************************************)
\* The counts of a client are natural numbers.
LEMMA CountTypes ==
  ASSUME TypeInv, NEW c \in Clients
  PROVE  /\ pair[c] \in CondexPairs /\ pair[c].requested \in Nat /\ pair[c].waited \in Nat
         /\ SignalsOf(c) \in Nat /\ Completed(c) \in Nat
         /\ Completed(c) \in {SignalsOf(c), SignalsOf(c) + 1}
         /\ served[c] \in Nat /\ cnt[c] \in Nat /\ left[c] \in Nat /\ leaving[c] \in BOOLEAN
         /\ Returned(c) \in Int
  <1>1. pair[c] \in CondexPairs /\ served[c] \in Nat /\ cnt[c] \in Nat /\ left[c] \in Nat
        /\ leaving[c] \in BOOLEAN
    BY DEF TypeInv, TypeOK
  <1>2. SignalsOf(c) \in Nat
    BY <1>1, PairFields DEF SignalsOf
  <1> QED BY <1>1, <1>2, PairFields DEF Completed, Returned

\* What is about a client depends only on its own entries.
LEMMA SameClient ==
  ASSUME NEW c \in Clients,
         cpc'[c] = cpc[c], left'[c] = left[c], cnt'[c] = cnt[c], leaving'[c] = leaving[c],
         pair'[c] = pair[c], served'[c] = served[c], Announcing(c)' <=> Announcing(c)
  PROVE  /\ RoundOf(c) => RoundOf(c)'
         /\ ProgressOf(c) => ProgressOf(c)'
         /\ LedgerOf(c) => LedgerOf(c)'
  <1>1. SignalsOf(c)' = SignalsOf(c) /\ Returned(c)' = Returned(c)
    BY DEF SignalsOf, Returned
  <1>2. Completed(c)' = Completed(c)
    BY <1>1 DEF Completed
  <1>3. RoundOf(c) => RoundOf(c)'
    BY DEF RoundOf, TimeBound, TrxsPerThread
  <1>4. ProgressOf(c) => ProgressOf(c)'
    BY DEF ProgressOf, TimeBound, TrxsPerThread
  <1>5. LedgerOf(c) => LedgerOf(c)'
    BY <1>1, <1>2 DEF LedgerOf
  <1> QED BY <1>3, <1>4, <1>5

\* A step that touches neither the queue, the clients nor the announcement of a batch.
LEMMA BatchesFrame ==
  ASSUME BatchesInv, Pending' = Pending, UNCHANGED <<served, clientVars>>,
         wpc # "notify", wpc' # "notify", wpc' = "serve" => Len(req') = 1
  PROVE  BatchesInv'
  <1> USE DEF clientVars
  <1>1. \A c \in Clients : Announcing(c)' <=> Announcing(c)
    BY DEF Announcing
  <1>2. RoundInv' /\ ProgressInv' /\ LedgerInv'
    BY <1>1, SameClient DEF BatchesInv, RoundInv, ProgressInv, LedgerInv
  <1>3. FifoInv' /\ MarkedInv' /\ PairInv'
    BY DEF BatchesInv, FifoInv, MarkedInv, PairInv
  <1>4. HandInv'
    BY DEF HandInv
  <1> QED BY <1>2, <1>3, <1>4 DEF BatchesInv

\* A step that touches nothing that the invariant is about.
LEMMA BatchesUnchanged ==
  ASSUME BatchesInv, UNCHANGED <<readers, writers, wpc, req, clientVars, served>>
  PROVE  BatchesInv'
  <1> USE DEF clientVars
  <1>1. Pending' = Pending
    BY DEF Pending
  <1>2. \A c \in Clients : Announcing(c)' <=> Announcing(c)
    BY DEF Announcing
  <1>3. RoundInv' /\ ProgressInv' /\ LedgerInv'
    BY <1>2, SameClient DEF BatchesInv, RoundInv, ProgressInv, LedgerInv
  <1>4. FifoInv' /\ MarkedInv' /\ PairInv'
    BY <1>1 DEF BatchesInv, FifoInv, MarkedInv, PairInv
  <1>5. HandInv'
    BY DEF BatchesInv, HandInv, SignalsOf
  <1> QED BY <1>3, <1>4, <1>5 DEF BatchesInv

\* The invariant holds when the program starts.
LEMMA BatchesInitially == Init => BatchesInv
  <1> SUFFICES ASSUME Init PROVE BatchesInv
    OBVIOUS
  <1>1. Pending = <<>>
    BY DEF Init, Pending
  <1>2. HandInv /\ FifoInv /\ MarkedInv
    BY <1>1 DEF Init, HandInv, FifoInv, MarkedInv, Fifo, Marked
  <1>3. \A c \in Clients : pair[c] = NewCondexPair
    BY DEF Init
  <1>4. PairInv
    BY <1>3 DEF PairInv, Alternating, NewCondexPair, NewCondex, Slots
  <1>5. ASSUME NEW c \in Clients PROVE RoundOf(c) /\ ProgressOf(c) /\ LedgerOf(c)
    <2>1. /\ cpc[c] = "unborn" /\ left[c] = 0 /\ cnt[c] = 0 /\ leaving[c] = FALSE
          /\ served[c] = 0 /\ pair[c].requested = 0 /\ pair[c].waited = 0 /\ wpc = "unborn"
      BY <1>3 DEF Init, NewCondexPair
    <2>2. SignalsOf(c) = 0 /\ Completed(c) = 0 /\ Returned(c) = 0
      BY <1>3, <2>1 DEF SignalsOf, Completed, Announcing, Returned, NewCondexPair, NewCondex, Slots
    <2>3. RoundOf(c) /\ ProgressOf(c)
      BY <2>1, BatchesStart, ShareType DEF RoundOf, ProgressOf
    <2> QED BY <2>1, <2>2, <2>3, BatchesStart DEF LedgerOf
  <1> QED BY <1>2, <1>4, <1>5 DEF BatchesInv, RoundInv, ProgressInv, LedgerInv

\* The run of a request.
LEMMA ServeBatches ==
  ASSUME TypeInv, BatchesInv, ServeAction
  PROVE  BatchesInv'
  <1>0. Head(req).client \in Clients /\ Head(req) \in Requests
    BY HeadRequest DEF ServeAction, TypeInv, TypeOK
  <1> PICK r \in Requests : r = Head(req)
    BY <1>0
  <1> PICK c \in Clients : c = r.client
    BY <1>0
  <1>1. /\ wpc = "serve" /\ wpc' = "notify" /\ req' = req
        /\ UNCHANGED <<clientVars, cpc, pair, left, cnt, leaving>>
        /\ served' = [served EXCEPT ![c] = @ + 1]
    BY DEF ServeAction, workerVars, clientVars
  <1>2. Pending \in Seq(Requests) /\ Pending # <<>> /\ Head(Pending) = r /\ Pending' = Tail(Pending)
    BY PendingType, PendingServe DEF BatchesInv
  <1>3. c \in Clients /\ r.id \in Nat /\ r.notify \in Slots \cup {NoCondex}
        /\ 1 \in DOMAIN Pending /\ Pending[1] = r
    BY <1>2, QueueTail, QueueElement
  <1>4. r.id = served[c] /\ FifoInv'
    BY <1>1, <1>2, FifoTail DEF BatchesInv, FifoInv, TypeInv, TypeOK
  <1>5. MarkedInv' /\ PairInv'
    BY <1>1, <1>2, MarkedTail DEF BatchesInv, MarkedInv, PairInv
  <1>6. /\ \A d \in Clients : d # c => served'[d] = served[d]
        /\ served'[c] = served[c] + 1
    BY <1>1, <1>3 DEF TypeInv, TypeOK
  <1>7. \A d \in Clients : Announcing(d)' <=> d = c /\ r.notify # NoCondex
    BY <1>1 DEF Announcing
  <1>8. \A d \in Clients : ~Announcing(d) /\ SignalsOf(d)' = SignalsOf(d) /\ Returned(d)' = Returned(d)
    BY <1>1 DEF Announcing, SignalsOf, Returned
  <1>9. \A d \in Clients : RoundOf(d)' /\ ProgressOf(d)'
    BY <1>1 DEF BatchesInv, RoundInv, ProgressInv, RoundOf, ProgressOf, TimeBound, TrxsPerThread
  <1>10. /\ Completed(c) = SignalsOf(c) /\ Completed(c) \in Nat /\ pair[c].requested \in Nat
         /\ served[c] \in Nat /\ LedgerOf(c) /\ ProgressOf(c)
    BY <1>3, <1>8, CountTypes DEF Completed, BatchesInv, LedgerInv, ProgressInv
  <1>11. /\ r.notify # NoCondex =>
              \E k \in 1 .. pair[c].requested : r.id + 1 = FirstBatches(k) /\ r.notify = (k - 1) % 2
         /\ \A k \in 1 .. pair[c].requested : r.id + 1 = FirstBatches(k) => r.notify # NoCondex
    BY <1>3 DEF BatchesInv, MarkedInv, Marked
  <1>12. CASE r.notify # NoCondex
    <2> DEFINE done == Completed(c)
    <2>1. PICK k \in 1 .. pair[c].requested : r.id + 1 = FirstBatches(k) /\ r.notify = (k - 1) % 2
      BY <1>11, <1>12
    <2>2. done < k
      <3> SUFFICES ASSUME k <= done PROVE FALSE
        BY <1>10
      <3>1. k = done \/ FirstBatches(k) < FirstBatches(done)
        BY <1>10 DEF LedgerOf, ProgressOf
      <3>2. FirstBatches(done) <= served[c] /\ FirstBatches(done) \in Nat
        BY <1>10, BatchesType DEF LedgerOf
      <3> QED BY <1>4, <1>10, <2>1, <3>1, <3>2
    <2>3. k = done + 1
      <3> SUFFICES ASSUME done + 1 < k PROVE FALSE
        BY <1>10, <2>2
      <3>1. FirstBatches(done + 1) < FirstBatches(k)
        BY <1>10 DEF ProgressOf
      <3>2. served[c] < FirstBatches(done + 1) /\ FirstBatches(done + 1) \in Nat
        BY <1>10, BatchesType DEF LedgerOf
      <3> QED BY <1>4, <1>10, <2>1, <3>1, <3>2
    <2>4. r.notify = SignalsOf(c) % 2
      BY <1>10, <2>1, <2>3
    <2>5. Completed(c)' = done + 1
      BY <1>3, <1>7, <1>8, <1>10, <1>12 DEF Completed
    <2>6. Returned(c)' <= SignalsOf(c)' /\ pair'[c].requested = pair[c].requested
      BY <1>1, <1>3, <1>8, <1>10 DEF LedgerOf
    <2>7. FirstBatches(done + 1) <= served'[c]
      BY <1>3, <1>4, <1>6, <2>1, <2>3
    <2>8. \A j \in done + 1 + 1 .. pair[c].requested : served'[c] < FirstBatches(j)
      <3> SUFFICES ASSUME NEW j \in done + 2 .. pair[c].requested
                   PROVE  served[c] + 1 < FirstBatches(j)
        BY <1>6, <1>10
      <3>1. FirstBatches(k) < FirstBatches(j)
        BY <1>10, <2>3 DEF ProgressOf
      <3> QED BY <1>4, <2>1, <3>1
    <2>9. LedgerOf(c)'
      BY <1>10, <2>1, <2>3, <2>5, <2>6, <2>7, <2>8 DEF LedgerOf
    <2>10. HandInv'
      BY <1>1, <1>3, <1>8, <2>4 DEF HandInv, BatchesInv
    <2> QED BY <2>9, <2>10, <1>4, <1>5, <1>6, <1>7, <1>8, <1>9, <1>1, SameClient
            DEF BatchesInv, RoundInv, ProgressInv, LedgerInv
  <1>13. CASE r.notify = NoCondex
    <2>1. Completed(c)' = Completed(c) /\ Returned(c)' = Returned(c) /\ SignalsOf(c)' = SignalsOf(c)
          /\ pair'[c] = pair[c]
      BY <1>1, <1>3, <1>7, <1>8, <1>13 DEF Completed
    <2>2. \A k \in Completed(c) + 1 .. pair[c].requested : served[c] + 1 < FirstBatches(k)
      <3> SUFFICES ASSUME NEW k \in Completed(c) + 1 .. pair[c].requested
                   PROVE  served[c] + 1 < FirstBatches(k)
        OBVIOUS
      <3>1. served[c] < FirstBatches(k) /\ k \in 1 .. pair[c].requested
        BY <1>10 DEF LedgerOf
      <3>2. r.id + 1 # FirstBatches(k)
        BY <1>11, <1>13, <3>1
      <3>3. FirstBatches(k) \in Nat
        BY <1>10, BatchesType
      <3> QED BY <1>4, <1>10, <3>1, <3>2, <3>3
    <2>3. FirstBatches(Completed(c)) <= served[c] + 1
      BY <1>10, BatchesType DEF LedgerOf
    <2>4. LedgerOf(c)'
      BY <1>6, <1>10, <2>1, <2>2, <2>3 DEF LedgerOf
    <2>5. HandInv'
      BY <1>1, <1>13 DEF HandInv, BatchesInv
    <2> QED BY <2>4, <2>5, <1>4, <1>5, <1>6, <1>7, <1>8, <1>9, <1>1, SameClient
            DEF BatchesInv, RoundInv, ProgressInv, LedgerInv
  <1> QED BY <1>12, <1>13

\* The signal of a batch.
LEMMA NotifyBatches ==
  ASSUME TypeInv, BatchesInv, NotifyClient
  PROVE  BatchesInv'
  <1>0. Head(req).client \in Clients /\ Head(req) \in Requests
    BY HeadRequest DEF NotifyClient, TypeInv, TypeOK
  <1> PICK r \in Requests : r = Head(req)
    BY <1>0
  <1> PICK c \in Clients : c = r.client
    BY <1>0
  <1>1. /\ wpc = "notify" /\ wpc' = "active"
        /\ UNCHANGED <<readers, writers, cpc, left, cnt, leaving, served>>
        /\ pair' = IF r.notify = NoCondex THEN pair
                   ELSE [pair EXCEPT ![c] = SignalSlot(@, r.notify)]
    BY DEF NotifyClient, queueVars
  <1>2. Pending' = Pending
    BY <1>1 DEF Pending
  <1>3. c \in Clients /\ Len(req) = 1 /\ r.notify \in Slots \cup {NoCondex}
    BY <1>1, HeadRequest DEF TypeInv, TypeOK, BatchesInv, HandInv
  <1>4. HandInv'
    BY <1>1 DEF HandInv
  <1>5. \A d \in Clients : ~Announcing(d)'
    BY <1>1 DEF Announcing
  <1>6. \A d \in Clients : Announcing(d) <=> d = c /\ r.notify # NoCondex
    BY <1>1 DEF Announcing
  <1>7. FifoInv'
    BY <1>1, <1>2 DEF BatchesInv, FifoInv
  <1>8. CASE r.notify = NoCondex
    <2>1. pair' = pair
      BY <1>1, <1>8
    <2>2. MarkedInv' /\ PairInv'
      BY <1>2, <2>1 DEF BatchesInv, MarkedInv, PairInv
    <2>3. \A d \in Clients : RoundOf(d)' /\ ProgressOf(d)' /\ LedgerOf(d)'
      BY <1>1, <1>5, <1>6, <1>8, <2>1, SameClient
      DEF BatchesInv, RoundInv, ProgressInv, LedgerInv
    <2> QED BY <1>4, <1>7, <2>2, <2>3 DEF BatchesInv, RoundInv, ProgressInv, LedgerInv
  <1>9. CASE r.notify # NoCondex
    <2> DEFINE p == pair[c]
               q == SignalSlot(p, r.notify)
    <2>0. p \in CondexPairs /\ Alternating(p) /\ pair \in [Clients -> CondexPairs]
      BY <1>3 DEF BatchesInv, PairInv, TypeInv, TypeOK
    <2>1. r.notify = IF p.wait[0].signals = p.wait[1].signals THEN 0 ELSE 1
      <3>1. r.notify = (p.wait[0].signals + p.wait[1].signals) % 2
        BY <1>1, <1>9 DEF BatchesInv, HandInv, SignalsOf
      <3>2. /\ p.wait[0].signals \in Nat /\ p.wait[1].signals \in Nat
            /\ p.wait[0].signals - p.wait[1].signals \in {0, 1}
        BY <2>0, PairFields DEF Alternating
      <3> HIDE DEF p
      <3> QED BY <3>1, <3>2, Parity
    <2>2. /\ Alternating(q) /\ q.requested = p.requested /\ q.waited = p.waited
          /\ q.wait[0].signals + q.wait[1].signals = p.wait[0].signals + p.wait[1].signals + 1
      BY <2>0, <2>1, PairSignal
    <2> HIDE DEF p, q
    <2>3. pair'[c] = q /\ \A d \in Clients : d # c => pair'[d] = pair[d]
      BY <1>1, <1>3, <1>9, <2>0 DEF q, p
    <2>4. PairInv'
      BY <2>2, <2>3 DEF BatchesInv, PairInv
    <2>5. \A d \in Clients : pair'[d].requested = pair[d].requested /\ pair'[d].waited = pair[d].waited
      BY <2>2, <2>3 DEF p
    <2>6. MarkedInv'
      BY <1>2, <2>5, PendingType, MarkedSame DEF BatchesInv, MarkedInv
    <2>7. \A d \in Clients : RoundOf(d)' /\ ProgressOf(d)'
      BY <1>1, <2>5 DEF BatchesInv, RoundInv, ProgressInv, RoundOf, ProgressOf, TimeBound, TrxsPerThread
    <2>8. SignalsOf(c)' = SignalsOf(c) + 1
      BY <2>2, <2>3 DEF SignalsOf, p
    <2>9. Completed(c)' = Completed(c) /\ Returned(c)' = Returned(c)
      BY <1>1, <1>3, <1>5, <1>6, <1>9, <2>5, <2>8, CountTypes DEF Completed, Returned
    <2>10. LedgerOf(c)'
      BY <1>1, <1>3, <2>5, <2>8, <2>9, CountTypes DEF BatchesInv, LedgerInv, LedgerOf
    <2>11. \A d \in Clients : d # c => LedgerOf(d)'
      BY <1>1, <1>5, <1>6, <2>3, SameClient DEF BatchesInv, LedgerInv
    <2> QED BY <1>4, <1>7, <2>4, <2>6, <2>7, <2>10, <2>11
            DEF BatchesInv, RoundInv, ProgressInv, LedgerInv
  <1> QED BY <1>8, <1>9

\* A step of a client other than a push keeps what is about the queue and the others.
LEMMA ClientFrame ==
  ASSUME TypeInv, BatchesInv, NEW c \in Clients,
         UNCHANGED <<readers, writers, wpc, req, served, cnt>>,
         \A d \in Clients \ {c} :
           /\ cpc'[d] = cpc[d] /\ left'[d] = left[d]
           /\ leaving'[d] = leaving[d] /\ pair'[d] = pair[d],
         pair'[c].requested = pair[c].requested, Alternating(pair'[c]),
         SignalsOf(c)' = SignalsOf(c), Returned(c)' <= SignalsOf(c),
         RoundOf(c)', ProgressOf(c)'
  PROVE  BatchesInv'
  <1>1. Pending' = Pending
    BY DEF Pending
  <1>2. \A d \in Clients : Announcing(d)' <=> Announcing(d)
    BY DEF Announcing
  <1>3. \A d \in Clients \ {c} : RoundOf(d)' /\ ProgressOf(d)' /\ LedgerOf(d)'
    BY <1>2, SameClient DEF BatchesInv, RoundInv, ProgressInv, LedgerInv
  <1>4. LedgerOf(c)'
    <2>1. Completed(c)' = Completed(c) /\ LedgerOf(c)
      BY <1>2 DEF Completed, BatchesInv, LedgerInv
    <2> QED BY <2>1 DEF LedgerOf
  <1>5. FifoInv'
    BY <1>1 DEF BatchesInv, FifoInv
  <1>6. MarkedInv'
    <2>1. \A d \in Clients : pair'[d].requested = pair[d].requested
      OBVIOUS
    <2> QED BY <1>1, <2>1, PendingType, MarkedSame DEF BatchesInv, MarkedInv
  <1>7. PairInv'
    BY DEF BatchesInv, PairInv
  <1>8. HandInv'
    <2>1. \A d \in Clients : SignalsOf(d)' = SignalsOf(d)
      BY DEF SignalsOf
    <2>2. wpc = "notify" => Head(req).client \in Clients
      BY HeadRequest DEF TypeInv, TypeOK
    <2>3. PICK owner : owner = Head(req).client
      OBVIOUS
    <2> QED BY <2>1, <2>2, <2>3 DEF HandInv, BatchesInv
  <1> QED BY <1>3, <1>4, <1>5, <1>6, <1>7, <1>8
          DEF BatchesInv, RoundInv, ProgressInv, LedgerInv

\* A client that starts a batch has requests to submit.
LEMMA StartBatchStep ==
  ASSUME TypeInv, NEW c \in Clients, ProgressOf(c), left[c] = 0, ~leaving[c], StartBatch(c),
         TimeBound \/ cnt[c] < TrxsPerThread,
         pair[c].requested - pair[c].waited = IF TimeBound /\ pair[c].requested > 0 THEN 1 ELSE 0,
         cnt'[c] = cnt[c], leaving'[c] = leaving[c], pair'[c] = pair[c]
  PROVE  cpc'[c] = "submit" /\ RoundOf(c)' /\ ProgressOf(c)'
  <1>1. cnt[c] \in Nat /\ left'[c] = BatchLen(cnt[c]) /\ BatchLen(cnt[c]) \in Nat \ {0}
    BY CountTypes, BatchHasRequests DEF StartBatch, TypeInv, TypeOK
  <1>2. cpc'[c] = "submit"
    BY <1>1 DEF StartBatch, TypeInv, TypeOK
  <1>3. pair[c].requested \in Nat
    BY CountTypes
  <1>4. cnt[c] + BatchLen(cnt[c]) = FirstBatches(pair[c].requested + 1)
    BY <1>3, NextBatch DEF ProgressOf
  <1>5. FirstBatches(pair[c].requested) <= cnt[c]
    BY <1>1 DEF ProgressOf
  <1>6. RoundOf(c)'
    BY <1>1, <1>2 DEF RoundOf, TimeBound, TrxsPerThread
  <1>7. ProgressOf(c)'
    BY <1>1, <1>2, <1>4, <1>5 DEF ProgressOf, TimeBound, TrxsPerThread
  <1> QED BY <1>2, <1>6, <1>7

\* What follows an enqueued request.
LEMMA AfterEnqueueStep ==
  ASSUME TypeInv, NEW c \in Clients, RoundOf(c), ProgressOf(c), cpc[c] \in {"setws", "signal"},
         AfterEnqueue(c), cnt'[c] = cnt[c], leaving'[c] = leaving[c], pair'[c] = pair[c]
  PROVE  RoundOf(c)' /\ ProgressOf(c)'
  <1>1. ~leaving[c] /\ left[c] \in Nat /\ pair[c].requested \in Nat
    BY CountTypes DEF RoundOf
  <1>2. CASE left[c] > 0
    <2>1. cpc'[c] = "submit" /\ left'[c] = left[c]
      BY <1>2 DEF AfterEnqueue, TypeInv, TypeOK
    <2> QED BY <1>1, <1>2, <2>1 DEF RoundOf, ProgressOf, TimeBound, TrxsPerThread
  <1>3. CASE left[c] = 0 /\ TimeBound /\ pair[c].requested = 1
    BY <1>1, <1>3, StartBatchStep DEF AfterEnqueue, RoundOf
  <1>4. CASE left[c] = 0 /\ ~(TimeBound /\ pair[c].requested = 1)
    <2>1. cpc'[c] = "wait" /\ left'[c] = left[c]
      BY <1>4 DEF AfterEnqueue, TypeInv, TypeOK
    <2>2. RoundOf(c)'
      BY <1>1, <1>4, <2>1 DEF RoundOf, TimeBound, TrxsPerThread
    <2>3. ProgressOf(c)'
      BY <1>1, <1>4, <2>1 DEF ProgressOf, TimeBound, TrxsPerThread
    <2> QED BY <2>2, <2>3
  <1> QED BY <1>1, <1>2, <1>3, <1>4

\* Both move nobody else.
LEMMA OthersStay ==
  ASSUME TypeInv, NEW c \in Clients, StartBatch(c) \/ AfterEnqueue(c)
  PROVE  \A d \in Clients \ {c} : cpc'[d] = cpc[d] /\ left'[d] = left[d]
  BY DEF StartBatch, AfterEnqueue, TypeInv, TypeOK

\* The steps of a client that enqueue nothing.
LEMMA ClientBatches ==
  ASSUME TypeInv, BatchesInv, NEW c \in Clients,
         \/ ClientSetWs(c) \/ ClientSignal(c) \/ BatchWait(c)
         \/ BatchDone(c) \/ ExitLoop(c) \/ ReplaceBatch(c)
  PROVE  BatchesInv'
  <1> USE DEF queueVars, workerVars
  <1>0. /\ RoundOf(c) /\ ProgressOf(c) /\ LedgerOf(c) /\ Alternating(pair[c])
        /\ left[c] \in Nat /\ pair[c] \in CondexPairs
        /\ pair[c].requested \in Nat /\ pair[c].waited \in Nat
        /\ SignalsOf(c) \in Nat /\ Completed(c) \in {SignalsOf(c), SignalsOf(c) + 1}
        /\ leaving[c] \in BOOLEAN /\ cnt[c] \in Nat
        /\ Returned(c) <= SignalsOf(c)
    BY CountTypes DEF BatchesInv, RoundInv, ProgressInv, LedgerInv, PairInv, LedgerOf
  <1>1. CASE ClientSetWs(c) \/ ClientSignal(c)
    <2>1. /\ cpc[c] \in {"setws", "signal"}
          /\ UNCHANGED <<readers, writers, wpc, req, served, cnt, leaving, pair>>
      BY <1>1 DEF ClientSetWs, ClientSignal
    <2>2. AfterEnqueue(c) \/ (cpc' = [cpc EXCEPT ![c] = "signal"] /\ left' = left)
      BY <1>1 DEF ClientSetWs, ClientSignal
    <2>3. CASE AfterEnqueue(c)
      <3>1. RoundOf(c)' /\ ProgressOf(c)'
        BY <1>0, <2>1, <2>3, AfterEnqueueStep
      <3>2. \A d \in Clients \ {c} : cpc'[d] = cpc[d] /\ left'[d] = left[d]
        BY <2>3, OthersStay
      <3>3. SignalsOf(c)' = SignalsOf(c) /\ Returned(c)' <= SignalsOf(c)
        <4>1. cpc'[c] \in {"submit", "wait"}
          BY <2>3, NextLabel DEF TypeInv
        <4> QED BY <1>0, <2>1, <4>1 DEF SignalsOf, Returned
      <3> QED BY <1>0, <2>1, <3>1, <3>2, <3>3, ClientFrame
    <2>4. CASE cpc' = [cpc EXCEPT ![c] = "signal"] /\ left' = left
      <3>1. cpc'[c] = "signal" /\ \A d \in Clients \ {c} : cpc'[d] = cpc[d]
        BY <2>4 DEF TypeInv, TypeOK
      <3>2. RoundOf(c)' /\ ProgressOf(c)'
        BY <1>0, <2>1, <2>4, <3>1 DEF RoundOf, ProgressOf, TimeBound, TrxsPerThread
      <3>3. SignalsOf(c)' = SignalsOf(c) /\ Returned(c)' <= SignalsOf(c)
        BY <1>0, <2>1, <3>1 DEF SignalsOf, Returned
      <3> QED BY <1>0, <2>1, <2>4, <3>1, <3>2, <3>3, ClientFrame
    <2> QED BY <2>2, <2>3, <2>4
  <1>2. CASE BatchWait(c)
    <2>1. /\ cpc[c] = "wait" /\ cpc'[c] = "blocked" /\ pair'[c] = StartPairWait(pair[c])
          /\ \A d \in Clients \ {c} : cpc'[d] = cpc[d] /\ pair'[d] = pair[d]
          /\ UNCHANGED <<readers, writers, wpc, req, served, cnt, leaving, left>>
      BY <1>2 DEF BatchWait, TypeInv, TypeOK
    <2>2. /\ Alternating(pair'[c]) /\ SignalsOf(c)' = SignalsOf(c)
          /\ pair'[c].requested = pair[c].requested /\ pair'[c].waited = pair[c].waited + 1
      BY <1>0, <2>1, PairWait DEF SignalsOf
    <2>3. Returned(c)' = Returned(c)
      BY <1>0, <2>1, <2>2 DEF Returned
    <2>4. RoundOf(c)'
      BY <1>0, <2>1, <2>2 DEF RoundOf, ProgressOf, TimeBound, TrxsPerThread
    <2>5. ProgressOf(c)'
      BY <1>0, <2>1, <2>2 DEF ProgressOf, TimeBound, TrxsPerThread
    <2> QED BY <1>0, <2>1, <2>2, <2>3, <2>4, <2>5, ClientFrame
  <1>3. CASE BatchDone(c)
    <2>1. /\ cpc[c] = "blocked" /\ MayReturnPair(pair[c])
          /\ UNCHANGED <<readers, writers, wpc, req, served, cnt, leaving, pair>>
      BY <1>3 DEF BatchDone
    <2>2. left[c] = 0 /\ pair[c].waited > 0
      BY <1>0, <2>1 DEF ProgressOf, RoundOf
    <2>3. pair[c].waited <= SignalsOf(c)
      BY <1>0, <2>1, <2>2, PairReturn DEF SignalsOf
    <2>4. SignalsOf(c)' = SignalsOf(c) /\ Returned(c)' <= SignalsOf(c)
      BY <1>0, <2>1, <2>3 DEF SignalsOf, Returned
    <2>5. pair[c].requested > 0
      BY <1>0, <2>2, <2>3 DEF LedgerOf
    <2>6. pair[c].requested - pair[c].waited = IF TimeBound /\ ~leaving[c] THEN 1 ELSE 0
      BY <1>0, <2>1, <2>5 DEF RoundOf
    <2>7. CASE TimeBound \/ ~(cnt[c] < TrxsPerThread)
      <3>1. /\ cpc'[c] = IF TimeBound /\ ~leaving[c] THEN "check" ELSE "exited"
            /\ left' = left /\ \A d \in Clients \ {c} : cpc'[d] = cpc[d]
        BY <1>3, <2>7 DEF BatchDone, TypeInv, TypeOK
      <3>2. RoundOf(c)'
        BY <1>0, <2>1, <2>2, <2>6, <3>1 DEF RoundOf, TimeBound, TrxsPerThread
      <3>3. ProgressOf(c)'
        BY <1>0, <2>1, <2>2, <3>1 DEF ProgressOf, TimeBound, TrxsPerThread
      <3> QED BY <1>0, <2>1, <2>4, <3>1, <3>2, <3>3, ClientFrame
    <2>8. CASE ~TimeBound /\ cnt[c] < TrxsPerThread
      <3>1. StartBatch(c) /\ ~leaving[c]
        BY <1>0, <1>3, <2>8 DEF BatchDone, RoundOf
      <3>2. RoundOf(c)' /\ ProgressOf(c)'
        BY <1>0, <2>1, <2>2, <2>6, <2>8, <3>1, StartBatchStep
      <3> QED BY <1>0, <2>1, <2>4, <3>1, <3>2, OthersStay, ClientFrame
    <2> QED BY <2>7, <2>8
  <1>4. CASE ExitLoop(c)
    <2>1. /\ cpc[c] = "check" /\ cpc'[c] = "wait" /\ leaving'[c] = TRUE
          /\ \A d \in Clients \ {c} : cpc'[d] = cpc[d] /\ leaving'[d] = leaving[d]
          /\ UNCHANGED <<readers, writers, wpc, req, served, cnt, left, pair>>
      BY <1>4 DEF ExitLoop, TypeInv, TypeOK
    <2>2. TimeBound
      BY <2>1 DEF TypeInv, BatchInv
    <2>3. RoundOf(c)'
      BY <1>0, <2>1, <2>2 DEF RoundOf, ProgressOf, TimeBound, TrxsPerThread
    <2>4. ProgressOf(c)'
      BY <1>0, <2>1 DEF ProgressOf, TimeBound, TrxsPerThread
    <2>5. SignalsOf(c)' = SignalsOf(c) /\ Returned(c)' <= SignalsOf(c)
      BY <1>0, <2>1 DEF SignalsOf, Returned
    <2> QED BY <1>0, <2>1, <2>3, <2>4, <2>5, ClientFrame
  <1>5. CASE ReplaceBatch(c)
    <2>1. /\ cpc[c] = "check" /\ StartBatch(c)
          /\ UNCHANGED <<readers, writers, wpc, req, served, cnt, leaving, pair>>
      BY <1>5 DEF ReplaceBatch
    <2>2. TimeBound /\ left[c] = 0 /\ ~leaving[c]
          /\ pair[c].requested - pair[c].waited = 1
      BY <1>0, <2>1 DEF TypeInv, BatchInv, ProgressOf, RoundOf
    <2>3. cpc'[c] = "submit" /\ RoundOf(c)' /\ ProgressOf(c)'
      BY <1>0, <2>1, <2>2, StartBatchStep
    <2>4. SignalsOf(c)' = SignalsOf(c) /\ Returned(c)' <= SignalsOf(c)
      BY <1>0, <2>1, <2>3 DEF SignalsOf, Returned
    <2> QED BY <1>0, <2>1, <2>3, <2>4, OthersStay, ClientFrame
  <1> QED BY <1>1, <1>2, <1>3, <1>4, <1>5

\* A push: the last request of a batch takes the next condex, and the batch is requested.
LEMMA PushBatches ==
  ASSUME TypeInv, BatchesInv, NEW c \in Clients, Push(c)
  PROVE  BatchesInv'
  <1> DEFINE R == pair[c].requested
             p == IF left[c] = 1 THEN PleaseTakeOne(pair[c]) ELSE pair[c]
             request == [client |-> c, id |-> cnt[c],
                         notify |-> IF CanTakeOne(p) THEN TakenSlot(p) ELSE NoCondex]
  <1>0. /\ RoundOf(c) /\ ProgressOf(c) /\ LedgerOf(c) /\ Alternating(pair[c])
        /\ pair[c] \in CondexPairs /\ R \in Nat /\ pair[c].waited \in Nat
        /\ SignalsOf(c) \in Nat /\ Completed(c) \in Nat /\ served[c] \in Nat
        /\ cnt[c] \in Nat /\ left[c] \in Nat \ {0} /\ leaving[c] \in BOOLEAN
    BY CountTypes DEF BatchesInv, RoundInv, ProgressInv, LedgerInv, PairInv, Push, TypeInv, BatchInv
  <1>1. /\ cpc[c] = "submit" /\ cpc'[c] = "setws"
        /\ cnt'[c] = cnt[c] + 1 /\ left'[c] = left[c] - 1
        /\ cnt' = [cnt EXCEPT ![c] = @ + 1]
        /\ \A d \in Clients \ {c} :
             cpc'[d] = cpc[d] /\ cnt'[d] = cnt[d] /\ left'[d] = left[d] /\ pair'[d] = pair[d]
        /\ UNCHANGED <<readers, wpc, req, served, leaving>>
        /\ writers' = Append(writers, request)
        /\ pair'[c] = IF CanTakeOne(p) THEN TakeOne(p) ELSE p
    BY DEF Push, workerVars, TypeInv, TypeOK
  <1>2. p \in CondexPairs
    BY <1>0, CondexPairTypes
  <1>3. request \in Requests
    BY <1>0, <1>2, CondexPairTypes DEF Requests
  <1> PICK r \in Requests : r = request
    BY <1>3
  <1>4. r.client = c /\ r.id = cnt[c] /\ writers' = Append(writers, r)
        /\ r.notify = IF CanTakeOne(p) THEN TakenSlot(p) ELSE NoCondex
    BY <1>1
  <1> HIDE DEF request
  <1>5. Pending' = Append(Pending, r) /\ Pending \in Seq(Requests)
    BY <1>1, <1>4, PendingAppend, PendingType
  <1>6. FifoInv'
    <2>1. Fifo(Append(Pending, r), served, [cnt EXCEPT ![r.client] = @ + 1])
      BY <1>4, <1>5, FifoAppend DEF BatchesInv, FifoInv, TypeInv, TypeOK
    <2> QED BY <1>1, <1>4, <1>5, <2>1 DEF FifoInv
  <1>7. \A d \in Clients : Announcing(d)' <=> Announcing(d)
    BY <1>1 DEF Announcing
  <1>8. \A d \in Clients \ {c} : RoundOf(d)' /\ ProgressOf(d)' /\ LedgerOf(d)'
    BY <1>1, <1>7, SameClient DEF BatchesInv, RoundInv, ProgressInv, LedgerInv
  <1>9. served[c] <= cnt[c]
    BY DEF BatchesInv, FifoInv, Fifo
  <1>10. \A i \in DOMAIN Pending :
           Pending[i].client \in Clients /\ Pending[i].id \in Nat
           /\ Pending[i].id < cnt[Pending[i].client]
    BY <1>5, QueueElement DEF BatchesInv, FifoInv, Fifo
  <1>11. pair \in [Clients -> CondexPairs] /\ pair' \in [Clients -> CondexPairs]
    BY ClientTypes DEF Client, TypeInv, TypeOK
  <1>12. CASE left[c] = 1
    <2>1. /\ pair'[c] = TakeOne(PleaseTakeOne(pair[c])) /\ r.notify = R % 2
      BY <1>0, <1>1, <1>4, <1>12, PairTake
    <2> HIDE DEF p
    <2>2. /\ Alternating(pair'[c]) /\ pair'[c].requested = R + 1
          /\ pair'[c].waited = pair[c].waited /\ pair'[c].wait = pair[c].wait
      BY <1>0, <2>1, PairTake
    <2>3. cnt[c] + 1 = FirstBatches(R + 1)
      BY <1>0, <1>12 DEF ProgressOf
    <2>4. MarkedInv'
      <3>1. \A d \in Clients : pair[d].requested <= pair'[d].requested
        BY SMTT(60), <1>0, <1>1, <1>11, <2>2, PairFields
      <3>2. \A i \in DOMAIN Pending :
              \A k \in pair[Pending[i].client].requested + 1 .. pair'[Pending[i].client].requested :
                Pending[i].id + 1 # FirstBatches(k)
        <4> SUFFICES ASSUME NEW i \in DOMAIN Pending,
                            NEW k \in pair[Pending[i].client].requested + 1
                                        .. pair'[Pending[i].client].requested
                     PROVE  Pending[i].id + 1 # FirstBatches(k)
          OBVIOUS
        <4>1. Pending[i].client = c
          BY <1>1, <1>10, <1>11, PairFields
        <4>2. k = R + 1
          BY <1>0, <2>2, <4>1
        <4> QED BY <1>0, <1>10, <2>3, <4>1, <4>2
      <3>3. r.notify # NoCondex =>
              \E k \in 1 .. pair'[r.client].requested :
                r.id + 1 = FirstBatches(k) /\ r.notify = (k - 1) % 2
        <4>1. R + 1 \in 1 .. pair'[r.client].requested /\ (R + 1) - 1 = R
          BY <1>0, <1>4, <2>2
        <4>2. r.id + 1 = FirstBatches(R + 1) /\ r.notify = ((R + 1) - 1) % 2
          BY <1>4, <2>1, <2>3, <4>1
        <4> QED BY <4>1, <4>2
      <3>4. r.notify # NoCondex
        BY <1>0, <2>1 DEF NoCondex
      <3> QED BY <1>5, <1>11, <3>1, <3>2, <3>3, <3>4, MarkedAppend DEF BatchesInv, MarkedInv
    <2>5. SignalsOf(c)' = SignalsOf(c) /\ Returned(c)' = Returned(c)
      BY <1>1, <2>2 DEF SignalsOf, Returned
    <2>6. Completed(c)' = Completed(c)
      BY <1>7, <2>5 DEF Completed
    <2>7. RoundOf(c)'
      <3>1. ~leaving[c] /\ R - pair[c].waited = IF TimeBound /\ R > 0 THEN 1 ELSE 0
        BY <1>0, <1>1 DEF RoundOf
      <3>2. R + 1 - pair[c].waited = IF TimeBound /\ R + 1 # 1 THEN 2 ELSE 1
        BY <1>0, <3>1
      <3>3. /\ cpc'[c] = "setws" /\ left'[c] = 0 /\ ~leaving'[c]
            /\ pair'[c].requested = R + 1 /\ pair'[c].waited = pair[c].waited
        BY <1>1, <1>12, <2>2, <3>1
      <3>4. \/ ~TimeBound /\ pair'[c].requested - pair'[c].waited = 1
            \/ TimeBound /\ pair'[c].requested = 1 /\ pair'[c].requested - pair'[c].waited = 1
            \/ TimeBound /\ pair'[c].requested # 1 /\ pair'[c].requested - pair'[c].waited = 2
        <4>1. R \in Nat /\ pair[c].waited \in Nat
          BY <1>0
        <4> HIDE DEF R
        <4>2. CASE TimeBound
          BY <3>2, <3>3, <4>1, <4>2
        <4>3. CASE ~TimeBound
          BY <3>2, <3>3, <4>1, <4>3
        <4> QED BY <4>2, <4>3
      <3> HIDE DEF R
      <3> QED BY <3>3, <3>4 DEF RoundOf, TimeBound
    <2>8. ProgressOf(c)'
      <3>1. FirstBatches(R) < FirstBatches(R + 1)
        BY <1>0, <2>3, BatchesType DEF ProgressOf
      <3>2. \A j, k \in 0 .. R + 1 : j < k => FirstBatches(j) < FirstBatches(k)
        <4> SUFFICES ASSUME NEW j \in 0 .. R + 1, NEW k \in 0 .. R + 1, j < k
                     PROVE  FirstBatches(j) < FirstBatches(k)
          OBVIOUS
        <4>1. CASE k <= R
          BY <1>0, <4>1 DEF ProgressOf
        <4>2. CASE k = R + 1
          <5>1. j = R \/ FirstBatches(j) < FirstBatches(R)
            BY <1>0, <4>2 DEF ProgressOf
          <5>2. FirstBatches(j) \in Nat /\ FirstBatches(R) \in Nat /\ FirstBatches(R + 1) \in Nat
            BY <1>0, BatchesType
          <5> QED BY <3>1, <4>2, <5>1, <5>2
        <4> QED BY <1>0, <4>1, <4>2
      <3>3. ~TimeBound => cnt[c] + 1 <= TrxsPerThread
        BY <1>0, <2>3, BatchesBound
      <3> QED BY <1>0, <1>1, <1>12, <2>2, <2>3, <3>2, <3>3 DEF ProgressOf, TimeBound, TrxsPerThread
    <2>9. LedgerOf(c)'
      <3>1. \A k \in Completed(c) + 1 .. R + 1 : served[c] < FirstBatches(k)
        <4> SUFFICES ASSUME NEW k \in Completed(c) + 1 .. R + 1
                     PROVE  served[c] < FirstBatches(k)
          OBVIOUS
        <4>1. k = R + 1 \/ k \in Completed(c) + 1 .. R
          BY <1>0
        <4> QED BY <1>0, <1>9, <2>3, <4>1 DEF LedgerOf
      <3>2. Completed(c) <= R + 1
        BY <1>0 DEF LedgerOf
      <3> QED BY <1>0, <1>1, <2>2, <2>5, <2>6, <3>1, <3>2 DEF LedgerOf
    <2>10. PairInv'
      BY <1>1, <2>2 DEF BatchesInv, PairInv
    <2>11. HandInv'
      <3>1. \A d \in Clients : SignalsOf(d)' = SignalsOf(d)
        BY <1>1, <2>5 DEF SignalsOf
      <3>2. wpc = "notify" => Head(req).client \in Clients
        BY HeadRequest DEF TypeInv, TypeOK
      <3>3. PICK owner : owner = Head(req).client
        OBVIOUS
      <3> QED BY <1>1, <3>1, <3>2, <3>3 DEF HandInv, BatchesInv
    <2> QED BY <1>6, <1>8, <2>4, <2>7, <2>8, <2>9, <2>10, <2>11
            DEF BatchesInv, RoundInv, ProgressInv, LedgerInv
  <1>13. CASE left[c] # 1
    <2>1. pair'[c] = pair[c] /\ r.notify = NoCondex
      BY <1>0, <1>1, <1>4, <1>13, PairTake
    <2> HIDE DEF p
    <2>2. \A d \in Clients : pair'[d] = pair[d]
      BY <1>1, <2>1
    <2>3. \A k \in 1 .. R : cnt[c] + 1 # FirstBatches(k)
      <3> SUFFICES ASSUME NEW k \in 1 .. R PROVE FirstBatches(k) <= cnt[c]
        BY <1>0, BatchesType
      <3>1. k = R \/ FirstBatches(k) < FirstBatches(R)
        BY <1>0 DEF ProgressOf
      <3>2. FirstBatches(R) <= cnt[c] /\ FirstBatches(k) \in Nat /\ FirstBatches(R) \in Nat
        BY <1>0, BatchesType DEF ProgressOf
      <3> QED BY <1>0, <3>1, <3>2
    <2>4. MarkedInv'
      <3>1. \A d \in Clients : pair[d].requested \in Nat /\ pair'[d].requested = pair[d].requested
        BY <1>11, <2>2, PairFields
      <3>2. \A i \in DOMAIN Pending :
              \A k \in pair[Pending[i].client].requested + 1 .. pair'[Pending[i].client].requested :
                Pending[i].id + 1 # FirstBatches(k)
        BY <1>10, <3>1
      <3>3. \A k \in 1 .. pair'[r.client].requested : r.id + 1 # FirstBatches(k)
        BY <1>4, <2>2, <2>3
      <3>4. \A d \in Clients : pair[d].requested <= pair'[d].requested
        BY <3>1
      <3>5. Marked(Pending, pair)
        BY DEF BatchesInv, MarkedInv
      <3>6. Marked(Append(Pending, r), pair')
        BY <1>5, <1>11, <2>1, <3>2, <3>3, <3>4, <3>5, MarkedAppend
      <3> QED BY <1>5, <3>6
              DEF BatchesInv, MarkedInv
    <2>5. RoundOf(c)'
      BY SMTT(60), <1>0, <1>1, <1>13, <2>1 DEF RoundOf, TimeBound, TrxsPerThread
    <2>6. ProgressOf(c)'
      <3>1. ~TimeBound => cnt[c] + 1 <= TrxsPerThread
        <4>1. FirstBatches(R + 1) = cnt[c] + left[c]
          BY <1>0 DEF ProgressOf
        <4> QED BY <1>0, <4>1, BatchesBound, ShareType
      <3>2. /\ FirstBatches(R) <= cnt[c] + 1 /\ left[c] - 1 > 0
            /\ cnt[c] + 1 + (left[c] - 1) = FirstBatches(R + 1)
        <4>1. FirstBatches(R) \in Nat /\ FirstBatches(R + 1) \in Nat
          BY <1>0, BatchesType
        <4> QED BY <1>0, <1>13, <4>1 DEF ProgressOf
      <3> QED BY SMTT(60), <1>0, <1>1, <2>1, <3>1, <3>2 DEF ProgressOf, TimeBound, TrxsPerThread
    <2>7. SignalsOf(c)' = SignalsOf(c) /\ Returned(c)' = Returned(c)
      BY <1>1, <2>1 DEF SignalsOf, Returned
    <2>8. Completed(c)' = Completed(c)
      BY <1>7, <2>7 DEF Completed
    <2>9. LedgerOf(c)'
      BY <1>0, <1>1, <2>1, <2>7, <2>8 DEF LedgerOf
    <2>10. PairInv'
      BY <2>2 DEF BatchesInv, PairInv
    <2>11. HandInv'
      <3>1. \A d \in Clients : SignalsOf(d)' = SignalsOf(d)
        BY <2>2 DEF SignalsOf
      <3>2. wpc = "notify" => Head(req).client \in Clients
        BY HeadRequest DEF TypeInv, TypeOK
      <3>3. PICK owner : owner = Head(req).client
        OBVIOUS
      <3> QED BY <1>1, <3>1, <3>2, <3>3 DEF HandInv, BatchesInv
    <2> QED BY <1>6, <1>8, <2>4, <2>5, <2>6, <2>9, <2>10, <2>11
            DEF BatchesInv, RoundInv, ProgressInv, LedgerInv
  <1> QED BY <1>12, <1>13

\* A client that is over, or was never started, is owed nothing.
LEMMA ClientDone ==
  ASSUME TypeInv, BatchesInv, NEW c \in Clients, cpc[c] \in {"unborn", "exited"}
  PROVE  /\ served[c] = cnt[c]
         /\ ~Announcing(c)
         /\ Returned(c) = pair[c].requested
         /\ Completed(c) = pair[c].requested
  <1>1. /\ RoundOf(c) /\ ProgressOf(c) /\ LedgerOf(c)
        /\ pair[c].requested \in Nat /\ pair[c].waited \in Nat /\ left[c] \in Nat
        /\ SignalsOf(c) \in Nat /\ Completed(c) \in {SignalsOf(c), SignalsOf(c) + 1}
        /\ served[c] \in Nat /\ cnt[c] \in Nat
    BY CountTypes DEF BatchesInv, RoundInv, ProgressInv, LedgerInv
  <1>2. Returned(c) = pair[c].waited /\ pair[c].waited = pair[c].requested
    BY <1>1 DEF Returned, RoundOf
  <1>3. Completed(c) = SignalsOf(c) /\ SignalsOf(c) = pair[c].requested
    BY <1>1, <1>2 DEF LedgerOf
  <1>4. ~Announcing(c)
    BY <1>1, <1>3 DEF Completed
  <1>5. cnt[c] = FirstBatches(pair[c].requested)
    BY <1>1 DEF ProgressOf
  <1>6. cnt[c] <= served[c]
    BY <1>3, <1>5, <1>1 DEF LedgerOf
  <1>7. served[c] <= cnt[c]
    BY DEF BatchesInv, FifoInv, Fifo
  <1> QED BY <1>1, <1>2, <1>3, <1>4, <1>6, <1>7

\* The queue holds no request of such a client.
LEMMA DoneHasNoRequest ==
  ASSUME TypeInv, BatchesInv, NEW c \in Clients, cpc[c] \in {"unborn", "exited"}
  PROVE  \A i \in DOMAIN Pending : Pending[i].client # c
  <1> SUFFICES ASSUME NEW i \in DOMAIN Pending, Pending[i].client = c
               PROVE  FALSE
    OBVIOUS
  <1>1. Pending[i].id \in Nat
    BY PendingType, QueueElement
  <1>2. served[c] <= Pending[i].id /\ Pending[i].id < cnt[c]
    BY DEF BatchesInv, FifoInv, Fifo
  <1> QED BY <1>1, <1>2, ClientDone, CountTypes

\* When the worker is told to stop, the queue is empty.
LEMMA StoppedIsEmpty ==
  ASSUME IInv, BatchesInv, control = "STOPPED"
  PROVE  Pending = <<>> /\ \A c \in Clients : cpc[c] \in {"unborn", "exited"}
  <1>1. \A c \in Clients : cpc[c] \in {"unborn", "exited"}
    BY DEF IInv, PhaseInv
  <1>2. Pending # <<>> => 1 \in DOMAIN Pending /\ Pending[1].client \in Clients
    BY PendingType, QueueTail, QueueElement DEF IInv
  <1> QED BY <1>1, <1>2, DoneHasNoRequest DEF IInv

\* The worker's actions preserve the invariant.
LEMMA WorkerBatches ==
  ASSUME IInv, BatchesInv, Worker
  PROVE  BatchesInv'
  <1> USE DEF queueVars, clientVars
  <1>1. CASE Pop
    <2>1. Pending' = Pending
      BY <1>1, PendingPop DEF IInv
    <2>2. wpc' = "serve" => Len(req') = 1
      BY <1>1 DEF Pop
    <2> QED BY <1>1, <2>1, <2>2, BatchesFrame DEF Pop
  <1>2. CASE SwapVectors
    <2>1. Pending' = Pending
      BY <1>2, PendingSwap DEF IInv
    <2> QED BY <1>2, <2>1, BatchesFrame DEF SwapVectors
  <1>3. CASE ServeAction
    BY <1>3, ServeBatches DEF IInv
  <1>4. CASE NotifyClient
    BY <1>4, NotifyBatches DEF IInv
  <1>5. CASE WorkStopped
    <2>1. Pending = <<>>
      BY <1>5, StoppedIsEmpty DEF WorkStopped, IInv, PhaseInv
    <2>2. readers = <<>> /\ writers = <<>>
      BY <2>1, PendingEmpty DEF IInv
    <2>3. Pending' = Pending
      BY <1>5, <2>2 DEF WorkStopped, PreStop, Pending
    <2> QED BY <1>5, <2>3, BatchesFrame DEF WorkStopped
  <1>6. CASE \/ WorkSwitch \/ ActiveLoop \/ SetLoop \/ CheckEmpty \/ CheckControl \/ SetFinished
             \/ CanContinue \/ CanContinueLoop \/ CondexSleep \/ CondexWait \/ CondexWake
    <2>1. /\ UNCHANGED <<queueVars, req, clientVars, served>>
          /\ wpc \notin {"serve", "notify"} /\ wpc' \notin {"serve", "notify"}
      BY <1>6 DEF WorkSwitch, ActiveLoop, SetLoop, CheckEmpty, CheckControl, SetFinished,
                  CanContinue, CanContinueLoop, SpinOrSleep, CondexSleep, CondexWait, CondexWake
    <2>2. Pending' = Pending
      BY <2>1 DEF Pending
    <2> QED BY <2>1, <2>2, BatchesFrame
  <1> QED BY <1>1, <1>2, <1>3, <1>4, <1>5, <1>6 DEF Worker

\* The main thread's actions preserve it.
LEMMA MainBatches ==
  ASSUME IInv, BatchesInv, Main
  PROVE  BatchesInv'
  <1> USE DEF queueVars, workerVars, clientVars
  <1>1. CASE RunBenchmark
    <2>1. /\ \A c \in Clients : cpc[c] = "unborn"
          /\ UNCHANGED <<queueVars, wpc, req, served, pair, cnt, leaving>>
          /\ NumTrxs > 0 \/ TimeBound
      BY <1>1 DEF RunBenchmark, IInv, PhaseInv
    <2>2. Pending' = Pending
      BY <2>1 DEF Pending
    <2>3. FifoInv' /\ MarkedInv' /\ PairInv'
      BY <2>1, <2>2 DEF BatchesInv, FifoInv, MarkedInv, PairInv
    <2>4. HandInv'
      BY <2>1 DEF BatchesInv, HandInv, SignalsOf
    <2>5. ASSUME NEW c \in Clients
          PROVE  RoundOf(c)' /\ ProgressOf(c)' /\ LedgerOf(c)'
      <3>1. /\ RoundOf(c) /\ ProgressOf(c) /\ LedgerOf(c)
            /\ pair[c].requested = 0 /\ pair[c].waited = 0 /\ cnt[c] = 0 /\ ~leaving[c]
        BY <2>1, CountTypes DEF IInv, BatchesInv, RoundInv, ProgressInv, LedgerInv, RoundOf
      <3>2. /\ left'[c] = BatchLen(0)
            /\ cpc'[c] = IF BatchLen(0) = 0 THEN "wait" ELSE "submit"
        BY <1>1 DEF RunBenchmark
      <3>3. BatchLen(0) \in Nat /\ BatchLen(0) = FirstBatches(1)
        BY BatchLenType, ShareType, NextBatch, BatchesStart, BatchesType
      <3>4. BatchLen(0) = 0 => ~TimeBound /\ TrxsPerThread = 0
        BY BatchHasRequests, ShareType
      <3>5. RoundOf(c)'
        BY <3>1, <3>2, <3>3, <3>4, <2>1 DEF RoundOf, TimeBound, TrxsPerThread
      <3>6. ProgressOf(c)'
        BY <3>1, <3>2, <3>3, <3>4, <2>1, BatchesStart DEF ProgressOf, TimeBound, TrxsPerThread
      <3>7. Completed(c)' = Completed(c) /\ SignalsOf(c)' = SignalsOf(c)
        BY <2>1 DEF Completed, SignalsOf, Announcing
      <3>8. Returned(c)' = Returned(c)
        BY <2>1, <3>2 DEF Returned
      <3> QED BY <2>1, <3>1, <3>5, <3>6, <3>7, <3>8 DEF LedgerOf
    <2> QED BY <2>3, <2>4, <2>5 DEF BatchesInv, RoundInv, ProgressInv, LedgerInv
  <1>2. CASE StartWorker
    <2>1. wpc = "unborn"
      BY <1>2 DEF StartWorker, IInv, PhaseInv
    <2>2. Pending' = Pending
      BY <1>2, <2>1 DEF StartWorker, Pending
    <2> QED BY <1>2, <2>1, <2>2, BatchesFrame DEF StartWorker
  <1>3. CASE \/ SkipBenchmark \/ EndMeasurement \/ JoinClients \/ SetStopped
             \/ StopCheck \/ StopSignal \/ JoinWorker
    <2>1. UNCHANGED <<queueVars, wpc, req, clientVars, served>>
      BY <1>3 DEF SkipBenchmark, EndMeasurement, JoinClients, SetStopped, StopCheck,
                  StopSignal, JoinWorker
    <2> QED BY <2>1, BatchesUnchanged
  <1> QED BY <1>1, <1>2, <1>3 DEF Main

-----------------------------------------------------------------------------
(***************************************************************************)
(* The invariant holds, and what follows from it.                          *)
(***************************************************************************)
\* FullInv is an inductive invariant of the specification.
THEOREM FullInductive == Spec => []FullInv
  <1>1. Init => BatchesInv
    BY BatchesInitially
  <1>2. IInv /\ BatchesInv /\ [Next]_vars => BatchesInv'
    <2> SUFFICES ASSUME IInv, BatchesInv, [Next]_vars PROVE BatchesInv'
      OBVIOUS
    <2>1. CASE Worker
      BY <2>1, WorkerBatches
    <2>2. ASSUME NEW c \in Clients, Client(c) PROVE BatchesInv'
      BY <2>2, PushBatches, ClientBatches DEF Client, IInv
    <2>3. CASE Main
      BY <2>3, MainBatches
    <2>4. CASE UNCHANGED vars
      BY <2>4, BatchesUnchanged DEF vars, queueVars, workerVars, clientVars
    <2> QED BY <2>1, <2>2, <2>3, <2>4 DEF Next
  <1> QED BY <1>1, <1>2, Inductive, PTL DEF Spec, FullInv

\* The two vectors are one FIFO queue that loses and repeats nothing (srmwqueue's push,
\* pop and the swap of wait_for_input).
THEOREM QueueFIFO == Spec => []QueueIsFIFO
  <1>1. FullInv => QueueIsFIFO
    <2> SUFFICES ASSUME FullInv, NEW c \in Clients
                 PROVE  LET mine == {i \in DOMAIN Pending : Pending[i].client = c}
                        IN  /\ {Pending[i].id : i \in mine} = served[c] .. cnt[c] - 1
                            /\ \A i, j \in mine : i < j => Pending[i].id < Pending[j].id
      BY DEF QueueIsFIFO
    <2> DEFINE mine == {i \in DOMAIN Pending : Pending[i].client = c}
    <2>1. /\ \A i \in mine : served[c] <= Pending[i].id /\ Pending[i].id < cnt[c]
          /\ \A i, j \in mine : i < j => Pending[i].id < Pending[j].id
          /\ \A n \in served[c] .. cnt[c] - 1 : \E i \in mine : Pending[i].id = n
      BY DEF FullInv, BatchesInv, FifoInv, Fifo
    <2>2. served[c] \in Nat /\ cnt[c] \in Nat /\ \A i \in mine : Pending[i].id \in Nat
      BY CountTypes, PendingType, QueueElement DEF FullInv, IInv
    <2> HIDE DEF mine
    <2>3. \A i \in mine : Pending[i].id \in served[c] .. cnt[c] - 1
      BY <2>1, <2>2
    <2>4. {Pending[i].id : i \in mine} = served[c] .. cnt[c] - 1
      BY <2>1, <2>3
    <2> QED BY <2>1, <2>4 DEF mine
  <1> QED BY <1>1, FullInductive, PTL

\* What a client has waited for was run: when its n-th wait returns, every request of its
\* first n batches was served (submit_batch, notify_client, condex_pair).
THEOREM WaitsMeanService == Spec => []WaitMeansBatchServed
  <1>1. FullInv => WaitMeansBatchServed
    <2> SUFFICES ASSUME FullInv, NEW c \in Clients
                 PROVE  served[c] >= FirstBatches(Returned(c))
      BY DEF WaitMeansBatchServed
    <2>1. /\ RoundOf(c) /\ ProgressOf(c) /\ LedgerOf(c)
          /\ pair[c].requested \in Nat /\ pair[c].waited \in Nat /\ served[c] \in Nat
          /\ SignalsOf(c) \in Nat /\ Completed(c) \in {SignalsOf(c), SignalsOf(c) + 1}
      BY CountTypes DEF FullInv, IInv, BatchesInv, RoundInv, ProgressInv, LedgerInv
    <2>2. Returned(c) \in Nat
      BY <2>1 DEF Returned, RoundOf
    <2>3. Returned(c) <= Completed(c) /\ Completed(c) <= pair[c].requested
      BY <2>1, <2>2 DEF LedgerOf
    <2>4. Returned(c) = Completed(c) \/ FirstBatches(Returned(c)) < FirstBatches(Completed(c))
      <3>1. Returned(c) \in 0 .. pair[c].requested /\ Completed(c) \in 0 .. pair[c].requested
        BY <2>1, <2>2, <2>3
      <3>2. Returned(c) = Completed(c) \/ Returned(c) < Completed(c)
        BY <2>1, <2>2, <2>3
      <3> QED BY <2>1, <3>1, <3>2 DEF ProgressOf
    <2>5. FirstBatches(Completed(c)) <= served[c]
      BY <2>1 DEF LedgerOf
    <2>6. FirstBatches(Returned(c)) \in Nat /\ FirstBatches(Completed(c)) \in Nat
      BY <2>1, <2>2, BatchesType
    <2> QED BY <2>1, <2>4, <2>5, <2>6
  <1> QED BY <1>1, FullInductive, PTL

\* A client is deleted only when nobody will touch its condexes again (the join in
\* runBenchmarkSpec, notify_client).
THEOREM ClientsAreDone == Spec => []NoRequestOutlivesClient
  <1>1. FullInv => NoRequestOutlivesClient
    <2> SUFFICES ASSUME FullInv, NEW c \in Clients, cpc[c] = "exited"
                 PROVE  /\ \A i \in DOMAIN Pending : Pending[i].client # c
                        /\ wpc = "notify" /\ Head(req).client = c => Head(req).notify = NoCondex
      BY DEF NoRequestOutlivesClient
    <2>1. \A i \in DOMAIN Pending : Pending[i].client # c
      BY DoneHasNoRequest DEF FullInv, IInv
    <2>2. ~Announcing(c)
      BY ClientDone DEF FullInv, IInv
    <2> QED BY <2>1, <2>2 DEF Announcing
  <1> QED BY <1>1, FullInductive, PTL

\* A worker that stops has no request to abort (_pre_STOP_impl).
THEOREM StopFindsNothing == Spec => []NothingLeftAtStop
  <1>1. FullInv => NothingLeftAtStop
    <2> SUFFICES ASSUME FullInv, wpc = "stopped" PROVE readers = <<>> /\ writers = <<>>
      BY DEF NothingLeftAtStop
    <2>1. Pending = <<>>
      BY StoppedIsEmpty DEF FullInv, IInv, PhaseInv
    <2> QED BY <2>1, PendingEmpty DEF FullInv, IInv
  <1> QED BY <1>1, FullInductive, PTL

\* A client has at most two batches that were not announced to it, and it waits for the
\* older one first.
LEMMA TwoBatches ==
  ASSUME TypeInv, BatchesInv, NEW c \in Clients
  PROVE  /\ pair[c].requested <= pair[c].waited + 2
         /\ pair[c].requested <= SignalsOf(c) + 2
  <1>1. /\ RoundOf(c) /\ LedgerOf(c) /\ cpc[c] \in ClientLabels /\ leaving[c] \in BOOLEAN
        /\ cpc[c] = "submit" => left[c] > 0
        /\ pair[c].requested \in Nat /\ pair[c].waited \in Nat /\ left[c] \in Nat
        /\ SignalsOf(c) \in Nat
    BY CountTypes DEF BatchesInv, RoundInv, LedgerInv, TypeInv, TypeOK, BatchInv
  <1>2. pair[c].requested - pair[c].waited \in {-1, 0, 1, 2}
    BY <1>1 DEF RoundOf, ClientLabels
  <1>3. cpc[c] = "blocked" => pair[c].requested - pair[c].waited <= 1
    BY <1>1 DEF RoundOf
  <1> QED BY <1>1, <1>2, <1>3 DEF LedgerOf, Returned

\* The b-th batch of client c has slot s of its pair, and was not announced yet.
InFlight(c, b, s) ==
  /\ b \in {SignalsOf(c) + 1, SignalsOf(c) + 2}
  /\ s = (b - 1) % 2
  /\ b <= pair[c].waited + 2

\* The condex of such a batch holds no signal that was not waited for, and the two that
\* there may be have different condexes.
LEMMA SlotIsFree ==
  ASSUME TypeInv, BatchesInv, NEW c \in Clients, NEW b \in Nat, NEW s, InFlight(c, b, s)
  PROVE  /\ pair[c].wait[s].signals <= pair[c].wait[s].waits
         /\ \A d \in Nat : \A t : InFlight(c, d, t) /\ d # b => t # s
  <1> DEFINE p == pair[c]
  <1>1. /\ p \in CondexPairs /\ Alternating(p)
        /\ p.wait[0].signals \in Nat /\ p.wait[1].signals \in Nat
        /\ p.wait[0].waits \in Nat /\ p.wait[1].waits \in Nat
        /\ SignalsOf(c) = p.wait[0].signals + p.wait[1].signals
    BY CountTypes, PairFields DEF BatchesInv, PairInv, SignalsOf
  <1>2. p.wait[0].signals - p.wait[1].signals \in {0, 1}
    BY <1>1 DEF Alternating
  <1>3. SignalsOf(c) % 2 = IF p.wait[0].signals = p.wait[1].signals THEN 0 ELSE 1
    BY <1>1, <1>2, Parity
  <1>4. (SignalsOf(c) + 1) % 2 = IF p.wait[0].signals = p.wait[1].signals THEN 1 ELSE 0
    BY <1>1, <1>3
  <1>5. \A d \in Nat : \A t : InFlight(c, d, t) =>
          \/ d = SignalsOf(c) + 1 /\ t = IF p.wait[0].signals = p.wait[1].signals THEN 0 ELSE 1
          \/ d = SignalsOf(c) + 2 /\ t = IF p.wait[0].signals = p.wait[1].signals THEN 1 ELSE 0
    <2> SUFFICES ASSUME NEW d \in Nat, NEW t, InFlight(c, d, t)
                 PROVE  \/ d = SignalsOf(c) + 1 /\ t = SignalsOf(c) % 2
                        \/ d = SignalsOf(c) + 2 /\ t = (SignalsOf(c) + 1) % 2
      BY <1>3, <1>4
    <2>1. CASE d = SignalsOf(c) + 1
      <3>1. d - 1 = SignalsOf(c)
        BY <1>1, <2>1
      <3> QED BY <2>1, <3>1 DEF InFlight
    <2>2. CASE d = SignalsOf(c) + 2
      <3>1. d - 1 = SignalsOf(c) + 1
        BY <1>1, <2>2
      <3> QED BY <2>2, <3>1 DEF InFlight
    <2> QED BY <2>1, <2>2 DEF InFlight
  <1>6. p.waited = p.wait[0].waits + p.wait[1].waits /\ p.wait[0].waits - p.wait[1].waits \in {0, 1}
    BY <1>1 DEF Alternating
  <1>7. b <= p.waited + 2
    BY DEF InFlight
  <1> HIDE DEF p
  <1>8. p.wait[s].signals <= p.wait[s].waits
    <2>1. CASE p.wait[0].signals = p.wait[1].signals
      BY <1>1, <1>5, <1>6, <1>7, <2>1
    <2>2. CASE p.wait[0].signals = p.wait[1].signals + 1
      BY <1>1, <1>5, <1>6, <1>7, <2>2
    <2> QED BY <1>1, <1>2, <2>1, <2>2
  <1>9. \A d \in Nat : \A t : InFlight(c, d, t) /\ d # b => t # s
    BY <1>5
  <1> QED BY <1>8, <1>9 DEF p

\* The marked requests of the queue and the one in hand are in flight, each for a batch
\* of its own.
LEMMA QueuedInFlight ==
  ASSUME TypeInv, BatchesInv, NEW i \in DOMAIN Pending, Pending[i].notify # NoCondex
  PROVE  \E b \in Nat : /\ InFlight(Pending[i].client, b, Pending[i].notify)
                        /\ b > Completed(Pending[i].client)
                        /\ Pending[i].id + 1 = FirstBatches(b)
  <1>1. Pending[i].client \in Clients /\ Pending[i].id \in Nat
    BY PendingType, QueueElement
  <1> PICK c \in Clients : c = Pending[i].client
    BY <1>1
  <1>2. PICK b \in 1 .. pair[c].requested :
          Pending[i].id + 1 = FirstBatches(b) /\ Pending[i].notify = (b - 1) % 2
    BY DEF BatchesInv, MarkedInv, Marked
  <1>3. /\ LedgerOf(c) /\ ProgressOf(c) /\ served[c] <= Pending[i].id
        /\ Completed(c) \in Nat /\ SignalsOf(c) \in Nat /\ pair[c].requested \in Nat
        /\ pair[c].waited \in Nat /\ served[c] \in Nat
        /\ Completed(c) \in {SignalsOf(c), SignalsOf(c) + 1}
    BY CountTypes DEF BatchesInv, LedgerInv, ProgressInv, FifoInv, Fifo
  <1>4. Completed(c) < b
    <2> SUFFICES ASSUME b <= Completed(c) PROVE FALSE
      BY <1>3
    <2>1. b = Completed(c) \/ FirstBatches(b) < FirstBatches(Completed(c))
      BY <1>3 DEF ProgressOf, LedgerOf
    <2>2. FirstBatches(Completed(c)) \in Nat /\ FirstBatches(Completed(c)) <= served[c]
      BY <1>3, BatchesType DEF LedgerOf
    <2> QED BY <1>1, <1>2, <1>3, <2>1, <2>2
  <1>5. b \in {SignalsOf(c) + 1, SignalsOf(c) + 2} /\ b <= pair[c].waited + 2
    BY <1>3, <1>4, TwoBatches
  <1>6. b \in Nat /\ InFlight(c, b, Pending[i].notify)
    BY <1>2, <1>5 DEF InFlight
  <1> QED BY <1>2, <1>4, <1>6

LEMMA HandInFlight ==
  ASSUME TypeInv, BatchesInv, wpc = "notify", Head(req).notify # NoCondex
  PROVE  LET c == Head(req).client IN
         InFlight(c, Completed(c), Head(req).notify) /\ Completed(c) \in Nat
  <1>1. Head(req).client \in Clients
    BY HeadRequest DEF TypeInv, TypeOK
  <1> PICK c \in Clients : c = Head(req).client
    BY <1>1
  <1>2. Announcing(c) /\ SignalsOf(c) \in Nat /\ LedgerOf(c) /\ pair[c].requested \in Nat
        /\ pair[c].waited \in Nat
    BY CountTypes DEF Announcing, BatchesInv, LedgerInv
  <1>3. Completed(c) = SignalsOf(c) + 1
    BY <1>2 DEF Completed
  <1>4. Head(req).notify = SignalsOf(c) % 2
    BY DEF BatchesInv, HandInv
  <1>5. Completed(c) <= pair[c].waited + 2
    BY <1>2, <1>3, TwoBatches DEF LedgerOf
  <1>6. Completed(c) - 1 = SignalsOf(c)
    BY <1>2, <1>3
  <1> QED BY <1>2, <1>3, <1>4, <1>5, <1>6 DEF InFlight

\* Two requests on their way never share a condex, and a condex on its way holds no
\* signal that was not waited for (take_one, run_xcts).
THEOREM SlotsAreOwned == Spec => []SlotsNotShared
  <1>1. FullInv => SlotsNotShared
    <2> SUFFICES ASSUME FullInv PROVE SlotsNotShared
      OBVIOUS
    <2> DEFINE front == IF wpc = "notify" THEN req ELSE <<>>
               flight == front \o Pending
    <2>0. TypeInv /\ BatchesInv
      BY DEF FullInv, IInv
    <2>1. /\ front \in Seq(Requests) /\ Pending \in Seq(Requests)
          /\ Len(front) \in {0, 1} /\ (Len(front) = 1 => wpc = "notify" /\ front[1] = Head(req))
          /\ Len(Pending) \in Nat /\ DOMAIN Pending = 1 .. Len(Pending)
      <3>1. req \in Seq(Requests) /\ <<>> \in Seq(Requests)
        BY <2>0, EmptySeq DEF TypeInv, TypeOK
      <3>2. wpc = "notify" => Len(req) = 1 /\ Head(req) = req[1]
        BY <2>0, <3>1, QueueTail DEF BatchesInv, HandInv, TypeInv
      <3>3. Len(<<>>) = 0
        BY EmptySeq
      <3>4. Pending \in Seq(Requests) /\ Len(Pending) \in Nat /\ DOMAIN Pending = 1 .. Len(Pending)
        BY <2>0, PendingType, LenProperties
      <3> QED BY <3>1, <3>2, <3>3, <3>4
    <2>2. /\ DOMAIN flight = 1 .. Len(front) + Len(Pending)
          /\ \A i \in 1 .. Len(front) + Len(Pending) :
               flight[i] = IF i <= Len(front) THEN front[i] ELSE Pending[i - Len(front)]
      <3>1. flight \in Seq(Requests) /\ Len(flight) = Len(front) + Len(Pending)
        BY <2>1, ConcatProperties
      <3> QED BY <2>1, <3>1, ConcatProperties, LenProperties
    <2> HIDE DEF front, flight
    <2>3. \A i \in DOMAIN flight :
            \/ wpc = "notify" /\ i = 1 /\ Len(front) = 1 /\ flight[i] = Head(req)
            \/ i - Len(front) \in DOMAIN Pending /\ flight[i] = Pending[i - Len(front)]
      BY <2>1, <2>2
    \* The batch that the i-th request ends.
    <2> DEFINE Ends(i, b) ==
                 /\ InFlight(flight[i].client, b, flight[i].notify)
                 /\ \/ i = 1 /\ Len(front) = 1 /\ b = Completed(flight[i].client)
                    \/ /\ i - Len(front) \in DOMAIN Pending
                       /\ b > Completed(flight[i].client)
                       /\ flight[i].id + 1 = FirstBatches(b)
    <2>4. ASSUME NEW i \in DOMAIN flight, flight[i].notify # NoCondex
          PROVE  flight[i].client \in Clients /\ \E b \in Nat : Ends(i, b)
      <3>1. CASE wpc = "notify" /\ i = 1 /\ Len(front) = 1 /\ flight[i] = Head(req)
        BY <2>0, <2>4, <3>1, HandInFlight, HeadRequest DEF TypeInv, TypeOK
      <3>2. CASE i - Len(front) \in DOMAIN Pending /\ flight[i] = Pending[i - Len(front)]
        BY <2>0, <2>1, <2>4, <3>2, QueuedInFlight, QueueElement
      <3> QED BY <2>3, <3>1, <3>2
    <2>5. ASSUME NEW i \in DOMAIN flight, NEW j \in DOMAIN flight, i < j,
                 flight[i].client = flight[j].client,
                 NEW b \in Nat, NEW d \in Nat, Ends(i, b), Ends(j, d)
          PROVE  b # d
      <3>1. j # 1 /\ j - Len(front) \in DOMAIN Pending /\ flight[j] = Pending[j - Len(front)]
        BY <2>1, <2>2, <2>3, <2>5
      <3>2. CASE i = 1 /\ Len(front) = 1
        <4>1. i - Len(front) \notin DOMAIN Pending
          BY <2>1, <3>2
        <4>2. b = Completed(flight[j].client) /\ d > Completed(flight[j].client)
          BY <2>5, <3>1, <4>1
        <4> QED BY <4>2
      <3>3. CASE ~(i = 1 /\ Len(front) = 1)
        <4>1. i - Len(front) \in DOMAIN Pending /\ flight[i] = Pending[i - Len(front)]
              /\ i - Len(front) < j - Len(front)
          BY <2>1, <2>2, <2>3, <2>5, <3>3
        <4>2. flight[i].id < flight[j].id /\ flight[i].id \in Nat /\ flight[j].id \in Nat
          BY <2>0, <2>1, <2>5, <3>1, <4>1, QueueElement DEF BatchesInv, FifoInv, Fifo
        <4>3. flight[i].id + 1 = FirstBatches(b) /\ flight[j].id + 1 = FirstBatches(d)
          BY <2>5, <3>1, <3>3
        <4> QED BY <4>2, <4>3
      <3> QED BY <3>2, <3>3
    <2>6. ASSUME NEW i \in DOMAIN flight, flight[i].notify # NoCondex
          PROVE  /\ LET w == pair[flight[i].client].wait[flight[i].notify]
                    IN  w.signals <= w.waits
                 /\ \A j \in DOMAIN flight \ {i} :
                      flight[j].client = flight[i].client => flight[j].notify # flight[i].notify
      <3>1. flight[i].client \in Clients /\ i \in Int
        BY <2>1, <2>2, <2>4, <2>6
      <3>2. PICK b \in Nat : Ends(i, b)
        BY <2>4, <2>6
      <3>3. pair[flight[i].client].wait[flight[i].notify].signals
              <= pair[flight[i].client].wait[flight[i].notify].waits
        BY <2>0, <3>1, <3>2, SlotIsFree
      <3>4. ASSUME NEW j \in DOMAIN flight \ {i}, flight[j].client = flight[i].client,
                   flight[j].notify = flight[i].notify
            PROVE  FALSE
        <4>1. PICK d \in Nat : Ends(j, d)
          BY <2>4, <2>6, <3>4
        <4>2. i < j \/ j < i
          BY <2>1, <2>2, <3>4
        <4>3. b # d
          BY <2>5, <3>2, <3>4, <4>1, <4>2
        <4> QED BY <2>0, <3>1, <3>2, <3>4, <4>1, <4>3, SlotIsFree
      <3> QED BY <3>3, <3>4
    <2> QED BY <2>6 DEF SlotsNotShared, flight, front
  <1> QED BY <1>1, FullInductive, PTL

-----------------------------------------------------------------------------
(***************************************************************************)
(* The worker, its clients and its queue implement BatchService.           *)
(***************************************************************************)
\* The queue of the service, for a queue of requests of the worker.
Mapped(q) ==
  [i \in DOMAIN q |-> [client |-> q[i].client, last |-> q[i].notify # NoCondex]]

\* It is a sequence, with the same first, last and other elements.
LEMMA MappedQueue ==
  ASSUME NEW q \in Seq(Requests)
  PROVE  /\ Mapped(q) \in Seq([client : Clients, last : BOOLEAN])
         /\ Len(Mapped(q)) = Len(q)
         /\ \A i \in 1 .. Len(q) :
              Mapped(q)[i] = [client |-> q[i].client, last |-> q[i].notify # NoCondex]
  <1> DEFINE S == [client : Clients, last : BOOLEAN]
  <1>1. Len(q) \in Nat /\ DOMAIN q = 1 .. Len(q)
    BY LenProperties
  <1>2. \A i \in DOMAIN q : [client |-> q[i].client, last |-> q[i].notify # NoCondex] \in S
    BY QueueElement
  <1>3. Mapped(q) \in [1 .. Len(q) -> S]
    BY <1>1, <1>2 DEF Mapped
  <1> HIDE DEF S
  <1>4. Mapped(q) \in Seq(S)
    BY <1>1, <1>3, SeqDef
  <1>5. Len(Mapped(q)) = Len(q)
    <2>1. DOMAIN Mapped(q) = 1 .. Len(q) /\ DOMAIN Mapped(q) = 1 .. Len(Mapped(q))
          /\ Len(Mapped(q)) \in Nat
      BY <1>3, <1>4, LenProperties
    <2> QED BY <1>1, <2>1
  <1>6. \A i \in 1 .. Len(q) :
          Mapped(q)[i] = [client |-> q[i].client, last |-> q[i].notify # NoCondex]
    BY <1>1 DEF Mapped
  <1> QED BY <1>4, <1>5, <1>6 DEF S

LEMMA MappedAppend ==
  ASSUME NEW q \in Seq(Requests), NEW r \in Requests
  PROVE  Mapped(Append(q, r)) =
           Append(Mapped(q), [client |-> r.client, last |-> r.notify # NoCondex])
  <1> DEFINE S == [client : Clients, last : BOOLEAN]
             e == [client |-> r.client, last |-> r.notify # NoCondex]
             Q == Append(q, r)
             M == Append(Mapped(q), e)
  <1>1. e \in S /\ Mapped(q) \in Seq(S) /\ Len(Mapped(q)) = Len(q) /\ Len(q) \in Nat
    BY MappedQueue, LenProperties DEF Requests
  <1>2. Q \in Seq(Requests) /\ Len(Q) = Len(q) + 1 /\ Q[Len(q) + 1] = r
        /\ \A i \in 1 .. Len(q) : Q[i] = q[i]
    BY AppendProperties
  <1>3. M \in Seq(S) /\ Len(M) = Len(q) + 1 /\ M[Len(q) + 1] = e
        /\ \A i \in 1 .. Len(q) : M[i] = Mapped(q)[i]
    BY <1>1, AppendProperties
  <1> HIDE DEF Q, M
  <1>4. Mapped(Q) \in Seq(S) /\ Len(Mapped(Q)) = Len(q) + 1
        /\ \A i \in 1 .. Len(q) + 1 :
             Mapped(Q)[i] = [client |-> Q[i].client, last |-> Q[i].notify # NoCondex]
    BY <1>2, MappedQueue
  <1>5. \A i \in 1 .. Len(q) + 1 : Mapped(Q)[i] = M[i]
    <2> SUFFICES ASSUME NEW i \in 1 .. Len(q) + 1 PROVE Mapped(Q)[i] = M[i]
      OBVIOUS
    <2>1. CASE i = Len(q) + 1
      BY <1>2, <1>3, <1>4, <2>1
    <2>2. CASE i \in 1 .. Len(q)
      BY <1>1, <1>2, <1>3, <1>4, <2>2, MappedQueue
    <2> QED BY <1>1, <2>1, <2>2
  <1> HIDE DEF S
  <1>6. Mapped(Q) = M
    BY <1>3, <1>4, <1>5, SeqEqual
  <1> QED BY <1>6 DEF Q, M

LEMMA MappedTail ==
  ASSUME NEW q \in Seq(Requests), q # <<>>
  PROVE  /\ Mapped(q) # <<>>
         /\ Head(Mapped(q)) = [client |-> Head(q).client, last |-> Head(q).notify # NoCondex]
         /\ Mapped(Tail(q)) = Tail(Mapped(q))
  <1> DEFINE S == [client : Clients, last : BOOLEAN]
             M == Mapped(q)
             T == Tail(q)
  <1>1. /\ M \in Seq(S) /\ Len(M) = Len(q) /\ Len(q) \in Nat \ {0} /\ Head(q) = q[1]
        /\ \A i \in 1 .. Len(q) : M[i] = [client |-> q[i].client, last |-> q[i].notify # NoCondex]
    BY MappedQueue, EmptySeq, QueueTail
  <1> HIDE DEF M, S
  <1>2. M # <<>> /\ Head(M) = M[1]
    BY <1>1, EmptySeq
  <1>3. /\ Tail(M) \in Seq(S) /\ Len(Tail(M)) = Len(q) - 1
        /\ \A i \in 1 .. Len(q) - 1 : Tail(M)[i] = M[i + 1]
    BY <1>1, <1>2, HeadTailProperties
  <1>4. /\ T \in Seq(Requests) /\ Len(T) = Len(q) - 1
        /\ \A i \in 1 .. Len(q) - 1 : T[i] = q[i + 1]
    BY HeadTailProperties
  <1> HIDE DEF T
  <1>5. /\ Mapped(T) \in Seq(S) /\ Len(Mapped(T)) = Len(q) - 1
        /\ \A i \in 1 .. Len(q) - 1 :
             Mapped(T)[i] = [client |-> T[i].client, last |-> T[i].notify # NoCondex]
    BY <1>4, MappedQueue DEF S
  <1>6. \A i \in 1 .. Len(q) - 1 : i + 1 \in 1 .. Len(q)
    BY <1>1
  <1>7. \A i \in 1 .. Len(q) - 1 : Mapped(T)[i] = Tail(M)[i]
    <2> SUFFICES ASSUME NEW i \in 1 .. Len(q) - 1 PROVE Mapped(T)[i] = Tail(M)[i]
      OBVIOUS
    <2>1. T[i] = q[i + 1] /\ Tail(M)[i] = M[i + 1]
      BY <1>3, <1>4
    <2>2. M[i + 1] = [client |-> q[i + 1].client, last |-> q[i + 1].notify # NoCondex]
      BY <1>1, <1>6
    <2>3. Mapped(T)[i] = [client |-> T[i].client, last |-> T[i].notify # NoCondex]
      BY <1>5
    <2> QED BY <2>1, <2>2, <2>3
  <1>8. Mapped(T) = Tail(M)
    BY <1>3, <1>5, <1>7, SeqEqual
  <1>9. 1 \in 1 .. Len(q)
    BY <1>1
  <1>10. Head(M) = [client |-> Head(q).client, last |-> Head(q).notify # NoCondex]
    BY <1>1, <1>2, <1>9
  <1> QED BY <1>2, <1>8, <1>10 DEF M, T

\* The variables of the service.
ServiceQueue == Mapped(Pending)
ServiceCompleted == [c \in Clients |-> Completed(c)]
ServiceReturned == [c \in Clients |-> Returned(c)]
ServiceOpen == wpc # "exited"

LEMMA ServiceInit ==
  ASSUME ServiceQueue = <<>>, ServiceOpen,
         ServiceCompleted = [c \in Clients |-> 0], ServiceReturned = [c \in Clients |-> 0]
  PROVE  Service!Init
  BY DEF Service!Init, ServiceQueue, Mapped, ServiceCompleted, Completed, ServiceReturned,
         ServiceOpen

\* The steps of the service.
LEMMA ServiceSubmit ==
  ASSUME NEW c \in Clients, NEW last \in BOOLEAN, ServiceOpen,
         ServiceQueue' = Append(ServiceQueue, [client |-> c, last |-> last]),
         ServiceCompleted' = ServiceCompleted, ServiceReturned' = ServiceReturned,
         ServiceOpen' = ServiceOpen
  PROVE  Service!Next
  <1>1. Service!Submit(c, last)
    BY DEF Service!Submit, ServiceQueue, Mapped, ServiceCompleted, Completed, ServiceReturned,
           ServiceOpen
  <1> QED BY <1>1 DEF Service!Next

LEMMA ServiceRun ==
  ASSUME ServiceQueue # <<>>, ServiceQueue' = Tail(ServiceQueue),
         ServiceCompleted' = IF Head(ServiceQueue).last
                             THEN [ServiceCompleted EXCEPT ![Head(ServiceQueue).client] = @ + 1]
                             ELSE ServiceCompleted,
         ServiceReturned' = ServiceReturned, ServiceOpen' = ServiceOpen
  PROVE  Service!Next
  <1>1. Service!Run
    BY DEF Service!Run, ServiceQueue, Mapped, ServiceCompleted, Completed, ServiceReturned,
           ServiceOpen
  <1> QED BY <1>1 DEF Service!Next

LEMMA ServiceReturn ==
  ASSUME NEW c \in Clients, ServiceReturned[c] < ServiceCompleted[c],
         ServiceReturned' = [ServiceReturned EXCEPT ![c] = @ + 1],
         ServiceQueue' = ServiceQueue, ServiceCompleted' = ServiceCompleted,
         ServiceOpen' = ServiceOpen
  PROVE  Service!Next
  <1>1. Service!Return(c)
    BY DEF Service!Return, ServiceQueue, Mapped, ServiceCompleted, Completed, ServiceReturned,
           ServiceOpen
  <1> QED BY <1>1 DEF Service!Next

LEMMA ServiceClose ==
  ASSUME ServiceOpen, ServiceQueue = <<>>, ServiceCompleted = ServiceReturned, ~ServiceOpen',
         ServiceQueue' = ServiceQueue, ServiceCompleted' = ServiceCompleted,
         ServiceReturned' = ServiceReturned
  PROVE  Service!Next
  <1>1. Service!Close
    BY DEF Service!Close, ServiceQueue, Mapped, ServiceCompleted, Completed, ServiceReturned,
           ServiceOpen
  <1> QED BY <1>1 DEF Service!Next

\* What a client has got back, and what was run for it, depend on little.
LEMMA SameReturned ==
  ASSUME \A d \in Clients : Returned(d)' = Returned(d)
  PROVE  ServiceReturned' = ServiceReturned
  BY DEF ServiceReturned

LEMMA SameCompleted ==
  ASSUME \A d \in Clients : Completed(d)' = Completed(d)
  PROVE  ServiceCompleted' = ServiceCompleted
  BY DEF ServiceCompleted

\* A push submits a request, and a worker to which one is pushed still runs.
LEMMA PushSubmits ==
  ASSUME FullInv, NEW c \in Clients, Push(c)
  PROVE  Service!Next
  <1> DEFINE p == IF left[c] = 1 THEN PleaseTakeOne(pair[c]) ELSE pair[c]
             request == [client |-> c, id |-> cnt[c],
                         notify |-> IF CanTakeOne(p) THEN TakenSlot(p) ELSE NoCondex]
  <1>0. TypeInv /\ BatchesInv /\ pair[c] \in CondexPairs /\ Alternating(pair[c]) /\ cnt[c] \in Nat
    BY CountTypes DEF FullInv, IInv, BatchesInv, PairInv
  <1>1. /\ cpc[c] = "submit" /\ cpc'[c] = "setws"
        /\ UNCHANGED <<readers, wpc, req, served>>
        /\ \A d \in Clients \ {c} : cpc'[d] = cpc[d] /\ pair'[d] = pair[d]
        /\ writers' = Append(writers, request)
        /\ pair'[c] = IF CanTakeOne(p) THEN TakeOne(p) ELSE p
    BY <1>0 DEF Push, workerVars, TypeInv, TypeOK
  <1>2. p \in CondexPairs
    BY <1>0, CondexPairTypes
  <1>3. request \in Requests
    BY <1>0, <1>2, CondexPairTypes DEF Requests
  <1>4. pair'[c].wait = pair[c].wait /\ pair'[c].waited = pair[c].waited
    <2>1. CASE left[c] = 1
      BY <1>0, <1>1, <2>1, PairTake
    <2>2. CASE left[c] # 1
      BY <1>0, <1>1, <2>2, PairTake
    <2> QED BY <2>1, <2>2
  <1> PICK r \in Requests : r = request
    BY <1>3
  <1>5. r.client = c /\ writers' = Append(writers, r)
    BY <1>1
  <1> HIDE DEF request, p
  <1>6. Pending' = Append(Pending, r)
    BY <1>0, <1>1, <1>5, PendingAppend
  <1>7. ServiceQueue' = Append(ServiceQueue, [client |-> c, last |-> r.notify # NoCondex])
    BY <1>0, <1>5, <1>6, PendingType, MappedAppend DEF ServiceQueue
  <1>8. \A d \in Clients : SignalsOf(d)' = SignalsOf(d) /\ Returned(d)' = Returned(d)
    BY <1>1, <1>4 DEF SignalsOf, Returned
  <1>9. \A d \in Clients : Completed(d)' = Completed(d)
    BY <1>1, <1>8 DEF Completed, Announcing
  <1>10. ServiceOpen /\ ServiceOpen' = ServiceOpen
    BY <1>1 DEF ServiceOpen, FullInv, IInv, PhaseInv
  <1> QED BY <1>7, <1>8, <1>9, <1>10, ServiceSubmit, SameReturned, SameCompleted

\* The run of a request runs the head of the queue.
LEMMA ServeRuns ==
  ASSUME FullInv, ServeAction
  PROVE  Service!Next
  <1>0. TypeInv /\ BatchesInv /\ HandInv
    BY DEF FullInv, IInv, BatchesInv
  <1>1. /\ wpc = "serve" /\ wpc' = "notify" /\ UNCHANGED <<req, cpc, pair>>
        /\ Head(req).client \in Clients /\ Head(req) \in Requests
    BY <1>0, HeadRequest DEF ServeAction, workerVars, clientVars, TypeInv, TypeOK
  <1> PICK r \in Requests : r = Head(req)
    BY <1>1
  <1>2. /\ Pending \in Seq(Requests) /\ Pending # <<>> /\ Head(Pending) = r
        /\ Pending' = Tail(Pending)
    BY <1>0, PendingType, PendingServe
  <1>3. /\ ServiceQueue # <<>> /\ ServiceQueue' = Tail(ServiceQueue)
        /\ Head(ServiceQueue) = [client |-> r.client, last |-> r.notify # NoCondex]
    BY <1>2, MappedTail DEF ServiceQueue
  <1>4. \A d \in Clients : /\ SignalsOf(d)' = SignalsOf(d) /\ Returned(d)' = Returned(d)
                           /\ SignalsOf(d) \in Nat
    BY <1>0, <1>1, CountTypes DEF SignalsOf, Returned
  <1>5. \A d \in Clients :
          Completed(d)' = Completed(d) + (IF d = r.client /\ r.notify # NoCondex THEN 1 ELSE 0)
    BY <1>1, <1>4 DEF Completed, Announcing
  <1>6. ServiceCompleted' = IF r.notify # NoCondex
                            THEN [ServiceCompleted EXCEPT ![r.client] = @ + 1]
                            ELSE ServiceCompleted
    <2>1. \A d \in Clients : Completed(d) \in Nat
      BY <1>0, CountTypes
    <2> QED BY <1>5, <2>1 DEF ServiceCompleted
  <1>7. ServiceReturned' = ServiceReturned
    BY <1>4, SameReturned
  <1>8. ServiceOpen' = ServiceOpen
    BY <1>1 DEF ServiceOpen
  <1>9. Head(ServiceQueue).last = (r.notify # NoCondex) /\ Head(ServiceQueue).client = r.client
    BY <1>3
  <1> QED BY <1>3, <1>6, <1>7, <1>8, <1>9, ServiceRun

\* The return of a wait returns a completed batch.
LEMMA WaitReturns ==
  ASSUME FullInv, NEW c \in Clients, BatchDone(c)
  PROVE  Service!Next
  <1>0. /\ TypeInv /\ BatchesInv /\ pair[c] \in CondexPairs /\ Alternating(pair[c])
        /\ RoundOf(c) /\ pair[c].waited \in Nat /\ SignalsOf(c) \in Nat
        /\ Completed(c) \in {SignalsOf(c), SignalsOf(c) + 1}
    BY CountTypes DEF FullInv, IInv, BatchesInv, PairInv, RoundInv
  <1>1. /\ cpc[c] = "blocked" /\ MayReturnPair(pair[c])
        /\ UNCHANGED <<readers, writers, wpc, req, pair>>
        /\ cpc'[c] \in {"check", "exited", "submit", "wait"}
        /\ \A d \in Clients \ {c} : cpc'[d] = cpc[d]
    BY <1>0 DEF BatchDone, StartBatch, queueVars, workerVars, TypeInv, TypeOK
  <1>2. pair[c].waited <= SignalsOf(c)
    BY <1>0, <1>1, PairReturn DEF RoundOf, SignalsOf
  <1>3. Returned(c) = pair[c].waited - 1 /\ Returned(c)' = Returned(c) + 1
        /\ Returned(c) < Completed(c)
    BY <1>0, <1>1, <1>2 DEF Returned
  <1>4. \A d \in Clients \ {c} : Returned(d)' = Returned(d)
    BY <1>1 DEF Returned
  <1>5. ServiceReturned[c] < ServiceCompleted[c]
        /\ ServiceReturned' = [ServiceReturned EXCEPT ![c] = @ + 1]
    BY <1>3, <1>4 DEF ServiceReturned, ServiceCompleted
  <1>6. ServiceCompleted' = ServiceCompleted
    BY <1>1, SameCompleted DEF Completed, SignalsOf, Announcing
  <1>7. ServiceQueue' = ServiceQueue
    BY <1>1 DEF ServiceQueue, Pending
  <1>8. ServiceOpen' = ServiceOpen
    BY <1>1 DEF ServiceOpen
  <1> QED BY <1>5, <1>6, <1>7, <1>8, ServiceReturn

\* The worker that stops closes the service, which owes nothing.
LEMMA StopCloses ==
  ASSUME FullInv, WorkStopped
  PROVE  Service!Next
  <1>0. TypeInv /\ BatchesInv /\ IInv
    BY DEF FullInv, IInv
  <1>1. /\ wpc = "stopped" /\ wpc' = "exited"
        /\ UNCHANGED <<writers, req, cpc, pair>> /\ readers' = <<>>
    BY DEF WorkStopped, PreStop, clientVars
  <1>2. Pending = <<>> /\ \A c \in Clients : cpc[c] \in {"unborn", "exited"}
    BY <1>0, <1>1, StoppedIsEmpty DEF IInv, PhaseInv
  <1>3. readers = <<>>
    BY <1>0, <1>2, PendingEmpty
  <1>4. ServiceQueue = <<>> /\ ServiceQueue' = ServiceQueue
    BY <1>1, <1>2, <1>3 DEF ServiceQueue, Pending, Mapped
  <1>5. ServiceCompleted = ServiceReturned
    BY <1>0, <1>2, ClientDone DEF ServiceCompleted, ServiceReturned
  <1>6. ServiceCompleted' = ServiceCompleted
    BY <1>1, SameCompleted DEF Completed, SignalsOf, Announcing
  <1>7. ServiceReturned' = ServiceReturned
    BY <1>1, SameReturned DEF Returned
  <1> QED BY <1>1, <1>4, <1>5, <1>6, <1>7, ServiceClose DEF ServiceOpen

\* A step that keeps the queue, the pairs and the labels that count is no step of the
\* service.
LEMMA NoServiceStep ==
  ASSUME Pending' = Pending, wpc # "exited" <=> wpc' # "exited",
         \A c \in Clients : Completed(c)' = Completed(c) /\ Returned(c)' = Returned(c)
  PROVE  UNCHANGED Service!vars
  <1>1. ServiceQueue' = ServiceQueue /\ ServiceOpen' = ServiceOpen
    BY DEF ServiceQueue, ServiceOpen
  <1>2. ServiceCompleted' = ServiceCompleted /\ ServiceReturned' = ServiceReturned
    BY SameCompleted, SameReturned
  <1> QED BY <1>1, <1>2
          DEF Service!vars, ServiceQueue, Mapped, ServiceCompleted, Completed, ServiceReturned,
              ServiceOpen

\* The worker's other actions are not seen.
LEMMA WorkerImplements ==
  ASSUME FullInv, Worker
  PROVE  Service!Next \/ UNCHANGED Service!vars
  <1> USE DEF queueVars, clientVars
  <1>0. IInv /\ TypeInv /\ BatchesInv
    BY DEF FullInv, IInv
  <1>1. CASE Pop \/ SwapVectors
    <2>1. Pending' = Pending
      BY <1>0, <1>1, PendingPop, PendingSwap DEF IInv
    <2>2. /\ wpc \notin {"notify", "exited"} /\ wpc' \notin {"notify", "exited"}
          /\ UNCHANGED <<pair, cpc>>
      BY <1>1 DEF Pop, SwapVectors
    <2> QED BY <2>1, <2>2, NoServiceStep DEF Completed, Announcing, SignalsOf, Returned
  <1>2. CASE ServeAction
    BY <1>2, ServeRuns
  <1>3. CASE NotifyClient
    <2>1. /\ wpc = "notify" /\ wpc' = "active" /\ UNCHANGED <<readers, writers, cpc>>
          /\ Head(req).client \in Clients /\ Head(req) \in Requests
          /\ pair' = IF Head(req).notify = NoCondex THEN pair
                     ELSE [pair EXCEPT ![Head(req).client] = SignalSlot(@, Head(req).notify)]
      BY <1>0, <1>3, HeadRequest DEF NotifyClient, TypeInv, TypeOK
    <2> PICK r \in Requests : r = Head(req)
      BY <2>1
    <2>2. r.notify # NoCondex =>
            /\ pair'[r.client].waited = pair[r.client].waited
            /\ SignalsOf(r.client)' = SignalsOf(r.client) + 1
      <3> SUFFICES ASSUME r.notify # NoCondex
                   PROVE  /\ pair'[r.client].waited = pair[r.client].waited
                          /\ SignalsOf(r.client)' = SignalsOf(r.client) + 1
        OBVIOUS
      <3> PICK c \in Clients : c = r.client
        BY <2>1
      <3>1. /\ pair[c] \in CondexPairs /\ Alternating(pair[c])
            /\ pair'[c] = SignalSlot(pair[c], r.notify)
        BY <1>0, <2>1 DEF BatchesInv, PairInv, TypeInv, TypeOK
      <3>2. r.notify = IF pair[c].wait[0].signals = pair[c].wait[1].signals THEN 0 ELSE 1
        <4>1. r.notify = (pair[c].wait[0].signals + pair[c].wait[1].signals) % 2
          BY <1>0, <2>1 DEF BatchesInv, HandInv, SignalsOf
        <4>2. /\ pair[c].wait[0].signals \in Nat /\ pair[c].wait[1].signals \in Nat
              /\ pair[c].wait[0].signals - pair[c].wait[1].signals \in {0, 1}
          BY <3>1, PairFields DEF Alternating
        <4> QED BY <4>1, <4>2, Parity
      <3>3. pair'[c].waited = pair[c].waited /\ SignalsOf(c)' = SignalsOf(c) + 1
        BY <3>1, <3>2, PairSignal DEF SignalsOf
      <3> QED BY <3>3
    <2>3. \A d \in Clients : d # r.client \/ r.notify = NoCondex =>
            pair'[d].waited = pair[d].waited /\ SignalsOf(d)' = SignalsOf(d)
      BY <1>0, <2>1 DEF SignalsOf, TypeInv, TypeOK
    <2>4. \A d \in Clients : Announcing(d) <=> d = r.client /\ r.notify # NoCondex
      BY <2>1 DEF Announcing
    <2>5. \A d \in Clients : ~Announcing(d)' /\ SignalsOf(d) \in Nat
      BY <1>0, <2>1, CountTypes DEF Announcing
    <2>6. \A d \in Clients : Completed(d)' = Completed(d)
      BY <2>2, <2>3, <2>4, <2>5 DEF Completed
    <2>7. \A d \in Clients : Returned(d)' = Returned(d)
      BY <2>1, <2>2, <2>3 DEF Returned
    <2>8. Pending' = Pending
      BY <2>1 DEF Pending
    <2> QED BY <2>1, <2>6, <2>7, <2>8, NoServiceStep
  <1>4. CASE WorkStopped
    BY <1>4, StopCloses
  <1>5. CASE \/ WorkSwitch \/ ActiveLoop \/ SetLoop \/ CheckEmpty \/ CheckControl \/ SetFinished
             \/ CanContinue \/ CanContinueLoop \/ CondexSleep \/ CondexWait \/ CondexWake
    <2>1. /\ UNCHANGED <<readers, writers, cpc, pair>>
          /\ wpc \notin {"serve", "notify", "exited"} /\ wpc' \notin {"serve", "notify", "exited"}
      BY <1>5 DEF WorkSwitch, ActiveLoop, SetLoop, CheckEmpty, CheckControl, SetFinished,
                  CanContinue, CanContinueLoop, SpinOrSleep, CondexSleep, CondexWait, CondexWake
    <2>2. Pending' = Pending
      BY <2>1 DEF Pending
    <2> QED BY <2>1, <2>2, NoServiceStep DEF Completed, Announcing, SignalsOf, Returned
  <1> QED BY <1>1, <1>2, <1>3, <1>4, <1>5 DEF Worker

\* Of a client's actions, the push and the return of a wait are seen.
LEMMA ClientImplements ==
  ASSUME FullInv, NEW c \in Clients, Client(c)
  PROVE  Service!Next \/ UNCHANGED Service!vars
  <1> USE DEF queueVars, workerVars
  <1>0. TypeInv /\ BatchesInv /\ pair[c] \in CondexPairs /\ Alternating(pair[c])
        /\ pair[c].waited \in Nat
    BY CountTypes DEF FullInv, IInv, BatchesInv, PairInv
  <1>1. CASE Push(c)
    BY <1>1, PushSubmits
  <1>2. CASE BatchDone(c)
    BY <1>2, WaitReturns
  <1>3. CASE BatchWait(c)
    <2>1. /\ cpc[c] = "wait" /\ cpc'[c] = "blocked" /\ pair'[c] = StartPairWait(pair[c])
          /\ \A d \in Clients \ {c} : cpc'[d] = cpc[d] /\ pair'[d] = pair[d]
          /\ UNCHANGED <<readers, writers, wpc, req>>
      BY <1>0, <1>3 DEF BatchWait, TypeInv, TypeOK
    <2>2. SignalsOf(c)' = SignalsOf(c) /\ pair'[c].waited = pair[c].waited + 1
      BY <1>0, <2>1, PairWait DEF SignalsOf
    <2>3. \A d \in Clients : SignalsOf(d)' = SignalsOf(d) /\ Returned(d)' = Returned(d)
      BY <1>0, <2>1, <2>2 DEF SignalsOf, Returned
    <2>4. \A d \in Clients : Completed(d)' = Completed(d)
      BY <2>1, <2>3 DEF Completed, Announcing
    <2>5. Pending' = Pending
      BY <2>1 DEF Pending
    <2> QED BY <2>1, <2>3, <2>4, <2>5, NoServiceStep
  <1>4. CASE ClientSetWs(c) \/ ClientSignal(c) \/ ExitLoop(c) \/ ReplaceBatch(c)
    <2>1. /\ cpc[c] # "blocked" /\ cpc'[c] # "blocked"
          /\ \A d \in Clients \ {c} : cpc'[d] = cpc[d]
          /\ UNCHANGED <<readers, writers, wpc, req, pair>>
      BY <1>0, <1>4 DEF ClientSetWs, ClientSignal, ExitLoop, ReplaceBatch, AfterEnqueue,
                        StartBatch, TypeInv, TypeOK
    <2>2. Pending' = Pending
      BY <2>1 DEF Pending
    <2>3. \A d \in Clients : Completed(d)' = Completed(d) /\ Returned(d)' = Returned(d)
      BY <2>1 DEF Completed, Announcing, SignalsOf, Returned
    <2> QED BY <2>1, <2>2, <2>3, NoServiceStep
  <1> QED BY <1>1, <1>2, <1>3, <1>4 DEF Client

\* None of the main thread's actions is.
LEMMA MainImplements ==
  ASSUME FullInv, Main
  PROVE  UNCHANGED Service!vars
  <1> USE DEF queueVars, workerVars, clientVars
  <1>0. IInv
    BY DEF FullInv
  <1>1. /\ UNCHANGED <<readers, writers, req, pair>>
        /\ wpc' = wpc \/ (wpc = "unborn" /\ wpc' = "switch")
        /\ cpc' = cpc \/ \A c \in Clients : cpc[c] = "unborn" /\ cpc'[c] \in {"wait", "submit"}
    BY <1>0 DEF Main, StartWorker, RunBenchmark, SkipBenchmark, EndMeasurement, JoinClients,
                SetStopped, StopCheck, StopSignal, JoinWorker, IInv, PhaseInv
  <1>2. Pending' = Pending
    BY <1>1 DEF Pending
  <1>3. \A c \in Clients : Completed(c)' = Completed(c)
    BY <1>1 DEF Completed, Announcing, SignalsOf
  <1>4. \A c \in Clients : Returned(c)' = Returned(c)
    BY <1>1 DEF Returned
  <1> QED BY <1>1, <1>2, <1>3, <1>4, NoServiceStep

\* Worker, clients, queue and condexes together are the batch service: every behaviour of
\* TrxWorker is one of BatchService, whatever its constants.
THEOREM Implementation == Spec => ImplementsBatchService
  <1>1. Init => Service!Init
    <2> SUFFICES ASSUME Init PROVE Service!Init
      OBVIOUS
    <2>1. /\ wpc = "unborn" /\ \A c \in Clients : pair[c] = NewCondexPair /\ cpc[c] = "unborn"
      BY DEF Init
    <2>2. \A c \in Clients : Completed(c) = 0 /\ Returned(c) = 0
      BY <2>1 DEF Completed, Announcing, SignalsOf, Returned, NewCondexPair, NewCondex, Slots
    <2>3. ServiceQueue = <<>>
      BY DEF Init, ServiceQueue, Mapped, Pending
    <2>4. ServiceOpen
      BY <2>1 DEF ServiceOpen
    <2>5. /\ ServiceCompleted = [c \in Clients |-> 0]
          /\ ServiceReturned = [c \in Clients |-> 0]
      BY <2>2 DEF ServiceCompleted, ServiceReturned
    <2> QED BY <2>3, <2>4, <2>5, ServiceInit
  <1>2. FullInv /\ [Next]_vars => [Service!Next]_(Service!vars)
    <2> SUFFICES ASSUME FullInv, [Next]_vars PROVE Service!Next \/ UNCHANGED Service!vars
      OBVIOUS
    <2>1. CASE Worker
      BY <2>1, WorkerImplements
    <2>2. ASSUME NEW c \in Clients, Client(c)
          PROVE  Service!Next \/ UNCHANGED Service!vars
      BY <2>2, ClientImplements
    <2>3. CASE Main
      BY <2>3, MainImplements
    <2>4. CASE UNCHANGED vars
      <3>1. UNCHANGED <<readers, writers, wpc, req, cpc, pair>>
        BY <2>4 DEF vars, queueVars, workerVars, clientVars
      <3> QED BY <3>1, NoServiceStep
              DEF Pending, Completed, Announcing, SignalsOf, Returned
    <2> QED BY <2>1, <2>2, <2>3, <2>4 DEF Next
  <1> QED BY <1>1, <1>2, FullInductive, PTL DEF Spec, ImplementsBatchService, Service!Spec
=============================================================================
