-------------------------- MODULE MonotonicTimerfd --------------------------
(***************************************************************************)
(* linuxpp::monotonic_timerfd, a timerfd on the monotonic clock, armed     *)
(* once at a time.  Its state is the instant it expires at, or Disarmed.   *)
(* Time is counted in clock ticks of a nanosecond; the instant MaxTime     *)
(* stands for every later one, so a clock at MaxTime has passed all of     *)
(* them.                                                                   *)
(***************************************************************************)
EXTENDS Naturals

CONSTANTS
  MaxTime,      \* bound on the clock
  MaxLatency    \* bound on the ticks between reading the clock and arming

ASSUME TimeAssumption == MaxTime \in Nat /\ MaxLatency \in Nat

Instants == 0..MaxTime

Disarmed == MaxTime + 1

UpTo(t) == IF t < MaxTime THEN t ELSE MaxTime

\* set_oneshot(duration): a relative timer, one nanosecond at the least, since
\* zero would disarm it.  The clock may have advanced since it was read,
\* which makes the expiry late by as much.
Arm(duration, now) ==
  LET value == IF duration = 0 THEN 1 ELSE duration
  IN  {UpTo(now + value + late) : late \in 0..MaxLatency}

\* set_oneshot(time_point): the duration left until the timeout, or one
\* nanosecond when it has passed.
SetOneshot(timeout, now) ==
  IF timeout > now THEN Arm(timeout - now, now) ELSE Arm(1, now)

\* An expired timer stays readable until it is read or armed anew.
Readable(timer, now) == timer <= now
=============================================================================
