----------------------------- MODULE BatchService -----------------------------
(***************************************************************************)
(* What the clients of a worker are promised: requests are run one at a    *)
(* time in the order of their submission; the wait for a batch returns     *)
(* once for every batch, and only after the last request of the batch was  *)
(* run; the service closes only when no request is queued and no client    *)
(* has a completed batch to wait for.                                      *)
(***************************************************************************)
EXTENDS Naturals, Sequences

CONSTANT Clients

VARIABLES
  queue,      \* the requests submitted and not run: their client, and whether
              \* they are the last of their batch
  completed,  \* how many batches of each client were run
  returned,   \* how many waits of each client have returned
  open        \* the service still runs

vars == <<queue, completed, returned, open>>

Init ==
  /\ queue = <<>>
  /\ completed = [c \in Clients |-> 0]
  /\ returned = [c \in Clients |-> 0]
  /\ open = TRUE

Submit(c, last) ==
  /\ open
  /\ queue' = Append(queue, [client |-> c, last |-> last])
  /\ UNCHANGED <<completed, returned, open>>

Run ==
  /\ queue # <<>>
  /\ queue' = Tail(queue)
  /\ completed' = IF Head(queue).last
                  THEN [completed EXCEPT ![Head(queue).client] = @ + 1]
                  ELSE completed
  /\ UNCHANGED <<returned, open>>

Return(c) ==
  /\ returned[c] < completed[c]
  /\ returned' = [returned EXCEPT ![c] = @ + 1]
  /\ UNCHANGED <<queue, completed, open>>

Close ==
  /\ open
  /\ queue = <<>>
  /\ completed = returned
  /\ open' = FALSE
  /\ UNCHANGED <<queue, completed, returned>>

Next ==
  \/ \E c \in Clients, last \in BOOLEAN : Submit(c, last)
  \/ Run
  \/ \E c \in Clients : Return(c)
  \/ Close

Spec == Init /\ [][Next]_vars
=============================================================================
