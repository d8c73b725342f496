----------------------------- MODULE MCTrxWorker -----------------------------
(***************************************************************************)
(* Instances of TrxWorker for TLC.  The configurations give the constants  *)
(* their values.  The property below is what a comment of the sources says *)
(* of the code and the code does not keep: TLC refutes it.                 *)
(***************************************************************************)
EXTENDS TrxWorkerProofs

\* "if something has been pushed then _empty will be false and it will proceed
\* normally", "if signalled because it should stop, it will do a loop and return false"
\* (wait_for_input, trx_worker.h): a worker does not go on sleeping over a request or
\* a stop.
WorkerLeavesItsSleep ==
  (Asleep /\ (writers # <<>> \/ control = "STOPPED")) ~> ~Asleep
=============================================================================
