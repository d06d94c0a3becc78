----------------------- MODULE DeliveryThrottle_proofs -----------------------
(***************************************************************************)
(* Counted from its first frame the throttle lets no more through than the *)
(* target rate allows, and it never turns away more than one frame of a    *)
(* game that runs at that rate: for every interval, jitter and bound.      *)
(***************************************************************************)
EXTENDS DeliveryThrottle, TLAPS

(***************************************************************************)
(* The inductive invariant.  The schedule is a fixed one: the slots filled *)
(* are the first `delivered' ones counted from the first frame, whatever   *)
(* the times at which the frames came, and the last slot filled is not in  *)
(* the future.                                                             *)
(***************************************************************************)
Scheduled ==
  /\ haveDelivered <=> delivered > 0
  /\ delivered > 0 =>
       /\ nextAllowed = first + delivered * Interval
       /\ nextAllowed - Interval <= now

(***************************************************************************)
(* In a steady game the last frame came at most Jitter after its own slot, *)
(* and so did the first.                                                   *)
(***************************************************************************)
SteadyTimes ==
  steady =>
    /\ offered > 0 => delivered > 0 /\ first <= Jitter
    /\ delivered <= offered /\ offered - delivered <= 1

ThrottleInv == TypeOK /\ Scheduled /\ SteadyTimes

\* A product by Interval is a natural, and grows by Interval with its factor
LEMMA NextSlot ==
  ASSUME NEW n \in Nat
  PROVE  /\ n * Interval \in Nat
         /\ (n + 1) * Interval = n * Interval + Interval
         /\ n = 0 => n * Interval = 0
  BY IntervalAssumption, Z3

\* No frame was offered yet, and none let through
LEMMA InitThrottleInv == Init => ThrottleInv
<1> SUFFICES ASSUME Init
             PROVE  ThrottleInv
  OBVIOUS
<1>1. TypeOK
  <2>1. 0 \in Nat
    OBVIOUS
  <2> QED
    BY <2>1, Zenon DEF Init, TypeOK
<1>2. ~haveDelivered /\ ~(delivered > 0) /\ ~(offered > 0)
  BY SMT DEF Init
<1>3. Scheduled
  BY <1>2, Zenon DEF Scheduled
<1>4. SteadyTimes
  BY <1>2, SMT DEF Init, SteadyTimes
<1> QED
  BY <1>1, <1>3, <1>4 DEF ThrottleInv

\* A frame turned away leaves the schedule.  In a steady game it is the
\* first: had one been turned away before, the schedule would be a whole
\* interval behind and this frame, at most an interval early, not be early
LEMMA RejectKeeps ==
  ASSUME ThrottleInv, NEW t \in OfferTimes, Reject(t)
  PROVE  ThrottleInv'
<1>1. t \in Nat /\ now <= t
  BY TimeAssumption, SMT DEF OfferTimes, ThrottleInv, TypeOK
<1>2. TypeOK'
  BY <1>1, SMT DEF ThrottleInv, TypeOK, Reject, schedule
<1>3. Scheduled'
  BY <1>1, IntervalAssumption, NextSlot, SMT
    DEF ThrottleInv, TypeOK, Scheduled, Reject, schedule
<1>4. SteadyTimes'
  <2> SUFFICES ASSUME steady
               PROVE  offered = delivered /\ delivered > 0 /\ first <= Jitter
    BY SMT DEF ThrottleInv, TypeOK, SteadyTimes, Reject, schedule
  <2>1. delivered > 0 /\ t < nextAllowed
    BY SMT DEF ThrottleInv, Scheduled, Reject, TooEarly
  <2>2. offered > 0 /\ first <= Jitter
    BY <2>1, SMT DEF ThrottleInv, TypeOK, SteadyTimes
  <2>3. t >= offered * Interval
    BY <1>1, NextSlot, JitterAssumption, IntervalAssumption, SMT
      DEF OfferTimes, ThrottleInv, TypeOK
  <2>4. nextAllowed <= (delivered + 1) * Interval
    BY <2>1, <2>2, NextSlot, JitterAssumption, IntervalAssumption, SMT
      DEF ThrottleInv, TypeOK, Scheduled
  <2>5. offered # delivered + 1
    BY <2>1, <2>3, <2>4, <1>1, NextSlot, IntervalAssumption, SMT DEF ThrottleInv, TypeOK
  <2> QED
    BY <2>1, <2>2, <2>5, SMT DEF ThrottleInv, TypeOK, SteadyTimes
<1> QED
  BY <1>2, <1>3, <1>4 DEF ThrottleInv

\* A frame let through fills the next slot of the schedule
LEMMA AcceptKeeps ==
  ASSUME ThrottleInv, NEW t \in OfferTimes, Accept(t)
  PROVE  ThrottleInv'
<1>1. t \in Nat /\ now <= t
  BY TimeAssumption, SMT DEF OfferTimes, ThrottleInv, TypeOK
<1>2. TypeOK'
  BY <1>1, IntervalAssumption, SMT DEF ThrottleInv, TypeOK, Accept, AfterSlot
<1>3. Scheduled'
  <2>1. CASE delivered = 0
    BY <2>1, <1>1, NextSlot, IntervalAssumption, SMT
      DEF ThrottleInv, TypeOK, Scheduled, Accept, AfterSlot
  <2>2. CASE delivered > 0
    <3>1. t >= nextAllowed
      BY <2>2, <1>1, SMT DEF ThrottleInv, TypeOK, Scheduled, Accept, TooEarly
    <3>2. nextAllowed' = first + delivered * Interval + Interval
      BY <2>2, SMT DEF ThrottleInv, Scheduled, Accept, AfterSlot
    <3> QED
      BY <2>2, <3>1, <3>2, <1>1, NextSlot, IntervalAssumption, SMT
        DEF ThrottleInv, TypeOK, Scheduled, Accept, AfterSlot
  <2> QED
    BY <2>1, <2>2, SMT DEF ThrottleInv, TypeOK
<1>4. SteadyTimes'
  <2> SUFFICES ASSUME steady
               PROVE  /\ first' <= Jitter
                      /\ delivered <= offered /\ offered - delivered <= 1
    BY SMT DEF ThrottleInv, TypeOK, SteadyTimes, Accept
  <2>1. delivered = 0 => offered = 0
    BY SMT DEF ThrottleInv, TypeOK, SteadyTimes
  <2>2. CASE delivered = 0
    <3>1. t <= Jitter
      BY <2>1, <2>2, <1>1, NextSlot, JitterAssumption, IntervalAssumption, SMT
        DEF OfferTimes, ThrottleInv, TypeOK
    <3> QED
      BY <2>1, <2>2, <3>1, SMT DEF ThrottleInv, TypeOK, Accept
  <2>3. CASE delivered # 0
    BY <2>3, SMT DEF ThrottleInv, TypeOK, SteadyTimes, Accept
  <2> QED
    BY <2>2, <2>3
<1> QED
  BY <1>2, <1>3, <1>4 DEF ThrottleInv

LEMMA NextThrottleInv == ThrottleInv /\ [Next]_vars => ThrottleInv'
<1> SUFFICES ASSUME ThrottleInv, [Next]_vars
             PROVE  ThrottleInv'
  OBVIOUS
<1>1. CASE \E t \in OfferTimes : Reject(t) \/ Accept(t)
  BY <1>1, RejectKeeps, AcceptKeeps
<1>2. CASE UNCHANGED vars
  BY <1>2, SMT DEF vars, schedule, ThrottleInv, TypeOK, Scheduled, SteadyTimes
<1> QED
  BY <1>1, <1>2 DEF Next

\* The schedule the code keeps is the fixed one, at all times
THEOREM ThrottleInvariant == Spec => []ThrottleInv
  BY InitThrottleInv, NextThrottleInv, PTL DEF Spec

\* Counted from the first, no more frames are let through than the target
\* rate allows; within that count a burst may follow idle time
THEOREM RateBounded == Spec => []RateBound
<1>1. ThrottleInv => RateBound
  <2> SUFFICES ASSUME ThrottleInv, delivered > 0
               PROVE  (delivered - 1) * Interval <= now - first
    BY DEF RateBound
  <2>1. delivered - 1 \in Nat /\ delivered = (delivered - 1) + 1
    BY SMT DEF ThrottleInv, TypeOK
  <2>2. delivered * Interval = (delivered - 1) * Interval + Interval
    BY <2>1, NextSlot
  <2>3. (delivered - 1) * Interval \in Nat
    BY <2>1, NextSlot
  <2> QED
    BY <2>1, <2>2, <2>3, IntervalAssumption, SMT DEF ThrottleInv, TypeOK, Scheduled
<1> QED
  BY <1>1, ThrottleInvariant, PTL

\* A game at the target rate passes, but for one frame at the most
THEOREM SameRatePassesThrough == Spec => []SameRatePasses
<1>1. ThrottleInv => SameRatePasses
  BY SMT DEF ThrottleInv, SteadyTimes, SameRatePasses
<1> QED
  BY <1>1, ThrottleInvariant, PTL
=============================================================================
