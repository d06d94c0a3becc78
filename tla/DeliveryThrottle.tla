-------------------------- MODULE DeliveryThrottle --------------------------
(***************************************************************************)
(* How CaptureHook::CaptureFrame limits what it delivers to the target     *)
(* rate (hook/src/CaptureHook.cpp, lines 67 to 97): a frame is let through *)
(* unless the fixed schedule nextAllowedDeliveryAt_ says it is too early,  *)
(* and every frame let through moves the schedule by one interval.         *)
(*                                                                         *)
(* Time is the clock's ticks, counted from the start.  A frame is offered  *)
(* to the throttle when CaptureFrame has drained the ring, at a time the   *)
(* game, the scheduler and the recorder's own latency choose.  A steady    *)
(* game presents at exactly the target rate and its frames are offered at  *)
(* most Jitter late; the frames of other games come as they like, also     *)
(* with long pauses, as between two recordings, when none is asked for.    *)
(***************************************************************************)
EXTENDS Integers

CONSTANTS Interval,    \* minFrameInterval_, in ticks
          Jitter,      \* how late a steady game's frame may be offered
          MaxTime      \* bound: the time at which a behaviour ends

ASSUME IntervalAssumption == Interval \in Nat \ {0}
ASSUME JitterAssumption == Jitter \in 0 .. Interval
ASSUME TimeAssumption == MaxTime \in Nat

VARIABLES
  now,            \* steady_clock::now() at the last frame offered
  steady,         \* does the game present at the target rate
  offered,        \* frames offered to the throttle
  haveDelivered,  \* haveDelivered_
  nextAllowed,    \* nextAllowedDeliveryAt_
  delivered,      \* frames let through
  first           \* when the first one was

schedule == << haveDelivered, nextAllowed >>
vars == << now, steady, offered, schedule, delivered, first >>

Init ==
  /\ now = 0 /\ steady \in BOOLEAN /\ offered = 0
  /\ haveDelivered = FALSE /\ nextAllowed = 0
  /\ delivered = 0 /\ first = 0
-----------------------------------------------------------------------------
\* When the next frame may be offered
OfferTimes ==
  {t \in now .. MaxTime :
     /\ offered > 0 => t > now
     /\ steady => t - offered * Interval \in 0 .. Jitter}

TooEarlyOnce(t) == delivered = 1 /\ t < nextAllowed
TooEarly(t) == haveDelivered /\ t < nextAllowed

Reject(t) ==
  /\ TooEarly(t)
  /\ now' = t /\ offered' = offered + 1
  /\ UNCHANGED << steady, schedule, delivered, first >>

AfterFrame(t) == t + Interval

\* The next slot is an interval after the slot just filled, not after this
\* frame
AfterSlot(t) == (IF haveDelivered THEN nextAllowed ELSE t) + Interval

Accept(t) ==
  /\ ~TooEarly(t)
  /\ now' = t /\ offered' = offered + 1
  /\ nextAllowed' = AfterSlot(t) /\ haveDelivered' = TRUE
  /\ delivered' = delivered + 1
  /\ first' = IF delivered = 0 THEN t ELSE first
  /\ UNCHANGED steady

Next == \E t \in OfferTimes : Reject(t) \/ Accept(t)

Spec == Init /\ [][Next]_vars
-----------------------------------------------------------------------------
TypeOK ==
  /\ now \in Nat /\ steady \in BOOLEAN /\ offered \in Nat
  /\ haveDelivered \in BOOLEAN /\ nextAllowed \in Nat
  /\ delivered \in Nat /\ first \in Nat

(***************************************************************************)
(* Counted from the first frame ever let through, no more are let through  *)
(* than the target rate allows, however fast they are offered.             *)
(***************************************************************************)
RateBound == delivered > 0 => (delivered - 1) * Interval <= now - first

(***************************************************************************)
(* "passing a same-rate source through cleanly" (CaptureHook.cpp:85): of a *)
(* game at the target rate at most one frame is ever turned away, whatever *)
(* the jitter.                                                             *)
(***************************************************************************)
SameRatePasses == steady => offered - delivered <= 1
=============================================================================
