-------------------------------- MODULE Skew --------------------------------
(***************************************************************************)
(* The skewed input of TPC-B: skewer_t, its use by ShoreTPCBEnv (set_skew, *)
(* start_load_imbalance, reset_skew) and by create_acct_update_input.      *)
(*                                                                         *)
(* A skewer divides the numbers from _lower to _upper into ranges that get *)
(* most of the inputs, the spots, and what is outside of them.  A spot     *)
(* starts at a random number, and one that would go on past _upper goes on *)
(* at _lower.  Here one skewer, of any size, stands for the three of the   *)
(* environment.                                                            *)
(*                                                                         *)
(* Nobody in the repository calls the three operations; here any sequence  *)
(* of them is called, each in one step.                                    *)
(***************************************************************************)
EXTENDS Integers, Sequences, SequencesExt

CONSTANTS
  MaxUpper,  \* bound: the largest _upper
  Areas,     \* values of _area, in percent; only a chaotic skew draws 100
  Loads,     \* values of _load, in percent
  Rands      \* results of URand(1, 100)

SkewAssumption ==
  /\ MaxUpper \in Nat
  /\ Areas \subseteq 1 .. 100 /\ Loads \subseteq 0 .. 100 /\ Rands \subseteq 1 .. 100

VARIABLES
  upper,       \* _upper; _lower is 0
  area, load,  \* _area, _load
  spots,       \* _interval_l and _interval_u: a sequence of ranges
  outside,     \* _non_interval_l and _non_interval_u
  used,        \* _is_used
  type,        \* _skew_type
  changed,     \* _change_load
  alarm,       \* _start_imbalance and _bAlarmSet: "off", "due" or "set"
  input        \* what the last get_input() returned; Crash for a division by zero

vars == <<upper, area, load, spots, outside, used, type, changed, alarm, input>>

lower == 0
Crash == -1
Size == upper - lower + 1
Span(l, u) == [l |-> l, u |-> u]
CeilDiv(a, b) == (a + b - 1) \div b
CDiv(a, b) == IF a >= 0 THEN a \div b ELSE -((-a) \div b)

TypeOK ==
  /\ upper \in 0 .. MaxUpper
  /\ area \in Areas \cup {0} /\ load \in Loads \cup {0}
  /\ \A i \in DOMAIN spots : spots[i] \in [l : Int, u : Int]
  /\ \A i \in DOMAIN outside : outside[i] \in [l : Int, u : Int]
  /\ used \in BOOLEAN /\ changed \in BOOLEAN
  /\ type \in {"none", "normal", "dynamic", "chaotic"}
  /\ alarm \in {"off", "due", "set"}

Init ==
  /\ upper \in 0 .. MaxUpper
  /\ area = 0 /\ load = 0 /\ spots = <<>> /\ outside = <<>>
  /\ used = FALSE /\ type = "none" /\ changed = FALSE /\ alarm = "off"
  /\ input = lower

-----------------------------------------------------------------------------
\* Mutant of AddInterval: without the special case.
AddIntervalAsIs(ranges, l, u) ==
  LET low == Span(lower, u - upper - 2 + lower)
      high == Span(l + 1, upper)
  IN CASE u - 1 <= upper -> Append(ranges, Span(l, u - 1))
       [] u - 1 > upper /\ Len(ranges) = 1 -> <<low, ranges[1], high>>
       [] u - 1 > upper /\ Len(ranges) = 2 ->
            LET three == IF ranges[1].u > low.u THEN <<low>> \o ranges
                                                ELSE <<ranges[1], low, ranges[2]>>
            IN IF three[3].l < l + 1 THEN Append(three, high)
                                     ELSE <<three[1], three[2], high, three[3]>>
       [] OTHER -> <<low, high>>

\* _add_interval(): the ranges with one from l to u - 1 added.  The special case: a spot
\* that starts at the last number starts one earlier.
AddInterval(ranges, l0, u0) ==
  LET special == l0 = upper /\ u0 - 1 > upper
      l == IF special THEN l0 - 1 ELSE l0
      u == IF special THEN u0 - 1 ELSE u0
      low == Span(lower, u - upper - 2 + lower)   \* the part that goes on at _lower
      high == Span(l + 1, upper)
  IN CASE u - 1 <= upper -> Append(ranges, Span(l, u - 1))
       [] u - 1 > upper /\ Len(ranges) = 1 -> <<low, ranges[1], high>>
       [] u - 1 > upper /\ Len(ranges) = 2 ->
            LET three == IF ranges[1].u > low.u THEN <<low>> \o ranges
                                                ELSE <<ranges[1], low, ranges[2]>>
            IN IF three[3].l < l + 1 THEN Append(three, high)
                                     ELSE <<three[1], three[2], high, three[3]>>
       [] OTHER -> <<low, high>>

\* The rest of _set_intervals(): what is below the first spot, between two, above the last.
Outside(ranges) ==
  LET n == Len(ranges)
      below == IF ranges[1].l > lower THEN <<Span(lower, ranges[1].l - 1)>> ELSE <<>>
      after(i) ==
        IF i < n
        THEN IF ranges[i].u + 1 < ranges[i + 1].l
               THEN <<Span(ranges[i].u + 1, ranges[i + 1].l - 1)>> ELSE <<>>
        ELSE IF ranges[i].u < upper THEN <<Span(ranges[i].u + 1, upper)>> ELSE <<>>
  IN below \o FlattenSeq([i \in 1 .. n |-> after(i)])

\* _set_intervals() with an area of a percent: one spot, or two of half the size.
SetIntervals(a) ==
  /\ \/ \E l \in lower .. upper : spots' = AddInterval(<<>>, l, l + CeilDiv(Size * a, 100))
     \/ LET half == CeilDiv(Size * a, 200)
        IN \E l \in lower .. upper : \E l2 \in l .. upper :
             spots' = AddInterval(AddInterval(<<>>, l, l + half), l2, l2 + half)
  /\ outside' = Outside(spots')

\* get_input() with a result r of its first URand(1, 100): the ranges it may be drawn from.
Drawn(r) ==
  LET inSpots == CDiv(load, Len(spots))
      inRest == CDiv(100 - load, Len(outside))
      hits == {i \in DOMAIN spots : r < inSpots * i}
      rest == {i \in DOMAIN outside : r - load < inRest * i}
      first(S) == CHOOSE i \in S : \A j \in S : i <= j
  IN IF hits # {} THEN spots[first(hits)]
     ELSE IF rest # {} THEN outside[first(rest)] ELSE Span(lower, upper)

\* skewer_t::set(), reset(), which may change the area and the load, and clear().
Set(a, p) == area' = a /\ load' = p /\ SetIntervals(a) /\ used' = FALSE
Reset ==
  /\ IF type = "chaotic" THEN area' \in Areas /\ load' \in Loads ELSE UNCHANGED <<area, load>>
  /\ SetIntervals(area')
Clear == spots' = <<>> /\ outside' = <<>> /\ used' = FALSE /\ UNCHANGED <<area, load>>

\* is_used() of a skewer that is not: from now on it is.
FirstUse == used' = TRUE /\ UNCHANGED <<area, load, spots, outside>>

\* start_load_imbalance() and reset_skew() of ShoreEnv.
RenewAlarm == alarm' = IF type \in {"dynamic", "chaotic"} THEN "due" ELSE alarm
StopAlarm == alarm' = "off"

-----------------------------------------------------------------------------
\* ShoreTPCBEnv::set_skew(), called once here, with less than the whole for an area.
SetSkew(a, p, t) ==
  /\ type = "none" /\ a < 100
  /\ Set(a, p) /\ type' = t /\ alarm' = "due"
  /\ UNCHANGED <<upper, changed, input>>

\* ShoreTPCBEnv::start_load_imbalance(): the intervals that were used before are made
\* again, with any area and load when the skew is chaotic.
StartLoadImbalance ==
  /\ type # "none"
  /\ IF used THEN Reset /\ UNCHANGED used ELSE FirstUse
  /\ changed' \in IF type # "chaotic" THEN {TRUE} ELSE {TRUE, changed /\ ~used}
  /\ RenewAlarm
  /\ UNCHANGED <<upper, type, input>>

\* ShoreTPCBEnv::reset_skew().
ResetSkew ==
  /\ type # "none"
  /\ Clear /\ StopAlarm /\ changed' = FALSE
  /\ UNCHANGED <<upper, type, input>>

\* run_one_xct(): the alarm is set by the first transaction when it is due.
SetAlarm ==
  /\ alarm = "due"
  /\ alarm' = "set"
  /\ UNCHANGED <<upper, area, load, spots, outside, used, type, changed, input>>

\* create_acct_update_input(): a number of the skewer when the load is changed, or any
\* one.  get_input() divides by the numbers of ranges, whether it uses them or not.
GetInput ==
  /\ input # Crash
  /\ IF changed
       THEN IF spots = <<>> \/ outside = <<>> THEN input' = Crash
            ELSE \E r \in Rands : \E n \in Drawn(r).l .. Drawn(r).u :
                   input' \in IF n \in lower .. upper THEN {n} ELSE lower .. upper
       ELSE input' \in lower .. upper
  /\ UNCHANGED <<upper, area, load, spots, outside, used, type, changed, alarm>>

Next ==
  \/ \E a \in Areas, p \in Loads, t \in {"normal", "dynamic", "chaotic"} : SetSkew(a, p, t)
  \/ StartLoadImbalance \/ ResetSkew \/ SetAlarm \/ GetInput

Spec == Init /\ [][Next]_vars

-----------------------------------------------------------------------------
Numbers(ranges) == UNION {ranges[i].l .. ranges[i].u : i \in DOMAIN ranges}

\* The spots and what is outside of them divide the numbers of the skewer: every range has
\* a number, which randgen_t::rand asserts when it is drawn from, and no number is in a
\* spot and outside, or in neither, wherever the spots start and go on at _lower.
RangesDivide ==
  /\ \A ranges \in {spots, outside} : \A i \in DOMAIN ranges : ranges[i].l <= ranges[i].u
  /\ Numbers(spots) \cap Numbers(outside) = {}
  /\ spots # <<>> => Numbers(spots) \cup Numbers(outside) = lower .. upper

=============================================================================
