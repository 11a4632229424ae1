---------------------------- MODULE ThreadDeadline ----------------------------
(***************************************************************************)
(* How thread_signal_wait of thread.h turns timeout_ms into the point in   *)
(* time it gives pthread_cond_timedwait.  The microseconds come from one   *)
(* look at the clock and the seconds from another, a moment later.         *)
(*                                                                         *)
(* Every number of nanoseconds in this code is a multiple of 1000 and is   *)
(* counted in microseconds here.  The clock never goes back; time() may    *)
(* read a copy of it that is brought up to date only at timer ticks.       *)
(*                                                                         *)
(* No name of this module is one of ThreadSignal's: they model one call    *)
(* and are proved about together.                                          *)
(***************************************************************************)
EXTENDS Integers

CONSTANTS UsPerMs,        \* microseconds in a millisecond
          MsPerSec,       \* milliseconds in a second
          TimeoutValues,  \* values of timeout_ms
          TimeLag,        \* how many microseconds time() may lag behind gettimeofday()
          MaxClock        \* bound on the clock

ASSUME UnitsAssumption == UsPerMs \in Nat \ {0} /\ MsPerSec \in Nat \ {0}
ASSUME TimeoutValuesAssumption == TimeoutValues \subseteq Nat
ASSUME TimeLagAssumption == TimeLag \in Nat
ASSUME MaxClockAssumption == MaxClock \in Nat

Second == UsPerMs * MsPerSec

VARIABLES clock,             \* microseconds since the epoch
          stage,             \* how far the wait is in its computation
          timeout_ms,
          tv_usec,           \* tv.tv_usec
          tv_sec, tv_nsec,   \* ts
          tv_read, sec_read  \* what the clock was at the two looks (history)

deadline_vars == <<clock, stage, timeout_ms, tv_usec, tv_sec, tv_nsec, tv_read, sec_read>>

DeadlineInit ==
  /\ clock \in 0..MaxClock
  /\ stage = "idle" /\ timeout_ms = 0
  /\ tv_usec = 0 /\ tv_sec = 0 /\ tv_nsec = 0
  /\ tv_read = 0 /\ sec_read = 0

Tick ==
  /\ clock < MaxClock
  /\ clock' = clock + 1
  /\ UNCHANGED <<stage, timeout_ms, tv_usec, tv_sec, tv_nsec, tv_read, sec_read>>

TimedWaitCall ==
  /\ stage = "idle" /\ stage' = "gettimeofday"
  /\ timeout_ms' \in TimeoutValues
  /\ UNCHANGED <<clock, tv_usec, tv_sec, tv_nsec, tv_read, sec_read>>

\* Mutant: the seconds are left in tv_usec.
GetTimeOfDayWhole ==
  /\ stage = "gettimeofday" /\ stage' = "time"
  /\ tv_usec' = clock
  /\ tv_read' = clock
  /\ UNCHANGED <<clock, timeout_ms, tv_sec, tv_nsec, sec_read>>

GetTimeOfDay ==
  /\ stage = "gettimeofday" /\ stage' = "time"
  /\ tv_usec' = clock % Second
  /\ tv_read' = clock
  /\ UNCHANGED <<clock, timeout_ms, tv_sec, tv_nsec, sec_read>>

Time ==
  /\ stage = "time" /\ stage' = "carry"
  /\ \E lag \in 0..TimeLag :
       /\ lag <= clock
       /\ tv_sec' = ((clock - lag) \div Second) + (timeout_ms \div MsPerSec)
  /\ tv_nsec' = tv_usec + UsPerMs * (timeout_ms % MsPerSec)
  /\ sec_read' = clock
  /\ UNCHANGED <<clock, timeout_ms, tv_usec, tv_read>>

\* Mutant: the carry is added to the seconds and left in the nanoseconds.
CarryTwice ==
  /\ stage = "carry" /\ stage' = "timedwait"
  /\ tv_sec' = tv_sec + (tv_nsec \div Second)
  /\ UNCHANGED <<clock, timeout_ms, tv_usec, tv_nsec, tv_read, sec_read>>

\* Mutant: the carry is lost.
CarryLost ==
  /\ stage = "carry" /\ stage' = "timedwait"
  /\ tv_nsec' = tv_nsec % Second
  /\ UNCHANGED <<clock, timeout_ms, tv_usec, tv_sec, tv_read, sec_read>>

Carry ==
  /\ stage = "carry" /\ stage' = "timedwait"
  /\ tv_sec' = tv_sec + (tv_nsec \div Second)
  /\ tv_nsec' = tv_nsec % Second
  /\ UNCHANGED <<clock, timeout_ms, tv_usec, tv_read, sec_read>>

Deadline == tv_sec * Second + tv_nsec

\* pthread_cond_timedwait: ETIMEDOUT.
Expire ==
  /\ stage = "timedwait" /\ stage' = "idle"
  /\ clock >= Deadline
  /\ UNCHANGED <<clock, timeout_ms, tv_usec, tv_sec, tv_nsec, tv_read, sec_read>>

DeadlineNext == Tick \/ TimedWaitCall \/ GetTimeOfDay \/ Time \/ Carry \/ Expire

DeadlineSpec == DeadlineInit /\ [][DeadlineNext]_deadline_vars

-----------------------------------------------------------------------------

(***************************************************************************)
(* Lines 991-1004: the numbers are what the code takes them for, and the   *)
(* point in time handed over is a valid timespec.  With tv_nsec out of     *)
(* range pthread_cond_timedwait fails at once with EINVAL, which is not    *)
(* ETIMEDOUT, and the loop of line 1009 would spin.                        *)
(***************************************************************************)
DeadlineTypeOK ==
  /\ clock \in 0..MaxClock /\ tv_read \in 0..MaxClock /\ sec_read \in 0..MaxClock
  /\ stage \in {"idle", "gettimeofday", "time", "carry", "timedwait"}
  /\ timeout_ms \in Nat
  /\ tv_usec \in 0..(Second - 1) /\ tv_sec \in Nat /\ tv_nsec \in Nat
  /\ stage = "timedwait" => tv_nsec < Second

(***************************************************************************)
(* thread.h:308: the wait does not time out before timeout_ms milliseconds *)
(* have passed, wherever a second ends between the two looks at the clock, *)
(* provided that the second look is not at an older clock than the first.  *)
(***************************************************************************)
NeverEarly ==
  stage = "timedwait" => Deadline >= tv_read + timeout_ms * UsPerMs

(***************************************************************************)
(* thread.h:308: nor a second or more after that, counted from the second  *)
(* look.                                                                   *)
(***************************************************************************)
LateByLessThanASecond ==
  stage = "timedwait" => Deadline < sec_read + timeout_ms * UsPerMs + Second
=============================================================================
