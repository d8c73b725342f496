-------------------------------- MODULE Condex --------------------------------
(***************************************************************************)
(* The counting condition variable `condex' and the two-slot `condex_pair' *)
(* of util/condex.h, as operators on records.                              *)
(*                                                                         *)
(* A condex counts its signals and its waits.  signal() increments the     *)
(* first counter; wait() increments the second one and blocks for as long  *)
(* as there were more waits than signals.  A signal is therefore never     *)
(* lost, whenever it comes: it lets one wait return, past or future.  The  *)
(* mutex inside makes each of the two operations atomic, except that       *)
(* wait() gives the mutex up while it blocks: a wait is two steps, the one *)
(* that counts it (StartWait) and the one that returns (MayReturn).        *)
(***************************************************************************)
EXTENDS Integers

Condexes == [signals : Nat, waits : Nat]

NewCondex == [signals |-> 0, waits |-> 0]

Signal(x) == [x EXCEPT !.signals = @ + 1]

StartWait(x) == [x EXCEPT !.waits = @ + 1]

MayReturn(x) == x.waits <= x.signals

-----------------------------------------------------------------------------
(***************************************************************************)
(* A condex_pair belongs to one client.  The client asks for a condex      *)
(* (please_take_one), the next request it builds takes it (take_one), and  *)
(* the client waits on the condexes in the order they were taken; slots    *)
(* alternate between 0 and 1.                                              *)
(***************************************************************************)
Slots == {0, 1}

CondexPairs ==
  [wait : [Slots -> Condexes], requested : Nat, wanted : Nat, waited : Nat]

NewCondexPair ==
  [wait |-> [s \in Slots |-> NewCondex], requested |-> 0, wanted |-> 0, waited |-> 0]

PleaseTakeOne(p) == [p EXCEPT !.wanted = @ + 1]

\* take_one() returns a condex, and not NULL, only in this case.
CanTakeOne(p) == p.wanted > p.requested

TakenSlot(p) == p.requested % 2

TakeOne(p) == [p EXCEPT !.requested = @ + 1]

SignalSlot(p, s) == [p EXCEPT !.wait[s] = Signal(@)]

\* condex_pair::wait() selects the slot, counts the wait in the pair and starts
\* to wait on the slot; WaitingSlot is the slot it is blocked on from then on.
WaitOnSlot(p, s) == [p EXCEPT !.wait[s] = StartWait(@)]

StartPairWait(p) == [WaitOnSlot(p, p.waited % 2) EXCEPT !.waited = @ + 1]

WaitingSlot(p) == (p.waited - 1) % 2

MayReturnPair(p) == MayReturn(p.wait[WaitingSlot(p)])

\* The batches whose condex was taken and whose wait() was not called yet.
Outstanding(p) == p.requested - p.waited
=============================================================================
