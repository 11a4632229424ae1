---------------------------- MODULE ThreadSignal ----------------------------
(***************************************************************************)
(* thread_signal_t of thread.h as it is built from a mutex, a condition    *)
(* variable and an int (POSIX, and Windows from Vista on).                 *)
(*                                                                         *)
(* Every step between two points where another thread can interfere is an  *)
(* action: taking the mutex, the work done under it up to its release, the *)
(* notification made after the release, and what the condition variable    *)
(* does to a sleeping thread (wake it, wake it for no reason, time it out).*)
(* A thread in "woken" has been unblocked and contends for the mutex.      *)
(***************************************************************************)
EXTENDS Naturals

CONSTANTS Raisers,   \* threads that may call thread_signal_raise
          Waiters,   \* threads that may call thread_signal_wait
          Timeouts,  \* the kinds of wait: TRUE for timeout_ms >= 0, FALSE for infinite
          Posix,     \* TRUE: pthreads; FALSE: critical section and condition variable
          NoThread,  \* the holder of a free mutex
          MaxEvents  \* bound: how many calls and spurious wakeups there are altogether

Threads == Raisers \cup Waiters

ASSUME TimeoutsAssumption == Timeouts \subseteq BOOLEAN
ASSUME PosixAssumption == Posix \in BOOLEAN
ASSUME NoThreadAssumption == NoThread \notin Threads
ASSUME MaxEventsAssumption == MaxEvents \in Nat

VARIABLES mutex,     \* internal->mutex: its holder
          value,     \* internal->value
          pc,        \* how far each thread is in its current call
          timed,     \* timed[t]: the current wait of t has timeout_ms >= 0
          overdue,   \* overdue[t]: timeout_ms have passed since its wait began
          swallowed, \* history: since value was last set, a wait that timed out has used
                     \* up a wakeup while another thread slept
          events     \* calls and spurious wakeups so far, for the bound only

vars == <<mutex, value, pc, timed, overdue, swallowed, events>>

Locations == {"idle",
              "raise_lock", "raise_set", "raise_notify",
              "wait_lock", "wait_test", "asleep", "woken", "wait_clear",
              "expired", "wait_give_up", "return_1", "return_0"}

\* The places at which a thread holds the mutex.
Holding == {"raise_set", "wait_test", "wait_clear", "wait_give_up"}

\* The places inside a wait whose outcome is still open.
Waiting == {"wait_lock", "wait_test", "asleep", "woken", "wait_clear"}

\* Threads blocked in pthread_cond_wait or pthread_cond_timedwait.
Sleepers == {t \in Waiters : pc[t] = "asleep"}

Init ==
  /\ mutex = NoThread
  /\ value = 0
  /\ pc = [t \in Threads |-> "idle"]
  /\ timed = [t \in Threads |-> FALSE]
  /\ overdue = [t \in Threads |-> FALSE]
  /\ swallowed = FALSE
  /\ events = 0

Goto(t, from, to) ==
  /\ pc[t] = from
  /\ pc' = [pc EXCEPT ![t] = to]

Lock(t) ==
  /\ mutex = NoThread
  /\ mutex' = t

Unlock(t) ==
  mutex' = NoThread

CountEvent ==
  /\ events < MaxEvents
  /\ events' = events + 1

Call(t, entry) ==
  /\ CountEvent
  /\ Goto(t, "idle", entry)

-----------------------------------------------------------------------------
(* thread_signal_raise *)

RaiseCall(t) ==
  /\ t \in Raisers
  /\ Call(t, "raise_lock")
  /\ UNCHANGED <<mutex, value, timed, overdue, swallowed>>

RaiseLock(t) ==
  /\ Goto(t, "raise_lock", "raise_set")
  /\ Lock(t)
  /\ UNCHANGED <<value, timed, overdue, swallowed, events>>

\* Mutant: value is counted up instead of set.
RaiseSetCounting(t) ==
  /\ Goto(t, "raise_set", "raise_notify")
  /\ value' = value + 1
  /\ Unlock(t)
  /\ swallowed' = FALSE
  /\ UNCHANGED <<timed, overdue, events>>

\* Mutant: the notification after the release is forgotten.
RaiseSetSilent(t) ==
  /\ Goto(t, "raise_set", "idle")
  /\ value' = 1
  /\ Unlock(t)
  /\ swallowed' = FALSE
  /\ UNCHANGED <<timed, overdue, events>>

RaiseSet(t) ==
  /\ Goto(t, "raise_set", "raise_notify")
  /\ value' = 1
  /\ Unlock(t)
  /\ swallowed' = FALSE
  /\ UNCHANGED <<timed, overdue, events>>

\* pthread_cond_signal, made after the mutex was released: one sleeper, if there is one.
RaiseNotify(t) ==
  /\ pc[t] = "raise_notify"
  /\ \/ /\ Sleepers = {}
        /\ pc' = [pc EXCEPT ![t] = "idle"]
     \/ \E w \in Sleepers : pc' = [pc EXCEPT ![t] = "idle", ![w] = "woken"]
  /\ UNCHANGED <<mutex, value, timed, overdue, swallowed, events>>

-----------------------------------------------------------------------------
(* thread_signal_wait *)

WaitCall(t) ==
  /\ t \in Waiters
  /\ Call(t, "wait_lock")
  /\ \E b \in Timeouts : timed' = [timed EXCEPT ![t] = b]
  /\ overdue' = [overdue EXCEPT ![t] = FALSE]
  /\ UNCHANGED <<mutex, value, swallowed>>

\* The clock passes the point timeout_ms after the wait began: after ts was computed on
\* entry, or after the first sleep was entered where the timeout is relative.
DeadlinePasses(t) ==
  /\ timed[t] /\ ~overdue[t]
  /\ pc[t] \in IF Posix THEN Waiting ELSE {"asleep", "woken"}
  /\ overdue' = [overdue EXCEPT ![t] = TRUE]
  /\ UNCHANGED <<mutex, value, pc, timed, swallowed, events>>

WaitLock(t) ==
  /\ Goto(t, "wait_lock", "wait_test")
  /\ Lock(t)
  /\ UNCHANGED <<value, timed, overdue, swallowed, events>>

\* value is 0: block, and release the mutex in the same step.  The deadline given to
\* pthread_cond_timedwait is a point in time, so that it reports one already passed at
\* once; SleepConditionVariableCS is given timeout_ms afresh on each round of the loop.
WaitSleep(t) ==
  /\ value = 0
  /\ Goto(t, "wait_test", IF Posix /\ overdue[t] THEN "expired" ELSE "asleep")
  /\ Unlock(t)
  /\ UNCHANGED <<value, timed, overdue, swallowed, events>>

WaitLeaveLoop(t) ==
  /\ value # 0
  /\ Goto(t, "wait_test", "wait_clear")
  /\ UNCHANGED <<mutex, value, timed, overdue, swallowed, events>>

WaitClear(t) ==
  /\ Goto(t, "wait_clear", "return_1")
  /\ value' = 0
  /\ Unlock(t)
  /\ UNCHANGED <<timed, overdue, swallowed, events>>

\* A spurious wakeup, which pthread_cond_wait and SleepConditionVariableCS allow.
WakeSpuriously(t) ==
  /\ CountEvent
  /\ Goto(t, "asleep", "woken")
  /\ UNCHANGED <<mutex, value, timed, overdue, swallowed>>

\* An unblocked thread takes the mutex back and goes round the loop.
WaitRelock(t) ==
  /\ Goto(t, "woken", "wait_test")
  /\ Lock(t)
  /\ UNCHANGED <<value, timed, overdue, swallowed, events>>

\* The sleep times out.  pthread_cond_timedwait may still report ETIMEDOUT to a thread
\* that was notified: the notification it used up is then gone.
WaitExpire(t) ==
  /\ overdue[t]
  /\ \/ /\ Goto(t, "asleep", "expired")
        /\ UNCHANGED swallowed
     \/ /\ Posix /\ Goto(t, "woken", "expired")
        /\ swallowed' = (swallowed \/ Sleepers # {})
  /\ UNCHANGED <<mutex, value, timed, overdue, events>>

WaitRelockExpired(t) ==
  /\ Goto(t, "expired", "wait_give_up")
  /\ Lock(t)
  /\ UNCHANGED <<value, timed, overdue, swallowed, events>>

\* Mutant: value is cleared after a timeout too.
WaitGiveUpClearing(t) ==
  /\ Goto(t, "wait_give_up", "return_0")
  /\ value' = 0
  /\ Unlock(t)
  /\ UNCHANGED <<timed, overdue, swallowed, events>>

\* Mutant: a wait that timed out returns without the unlock.
WaitGiveUpLocked(t) ==
  /\ Goto(t, "wait_give_up", "return_0")
  /\ UNCHANGED <<mutex, value, timed, overdue, swallowed, events>>

\* timed_out = 1: leave value alone, whatever it is by now.
WaitGiveUp(t) ==
  /\ Goto(t, "wait_give_up", "return_0")
  /\ Unlock(t)
  /\ UNCHANGED <<value, timed, overdue, swallowed, events>>

WaitReturn(t) ==
  /\ Goto(t, "return_1", "idle") \/ Goto(t, "return_0", "idle")
  /\ UNCHANGED <<mutex, value, timed, overdue, swallowed, events>>

-----------------------------------------------------------------------------

\* What a running thread does once it is inside a call.
Step(t) ==
  \/ RaiseLock(t) \/ RaiseSet(t) \/ RaiseNotify(t)
  \/ WaitLock(t) \/ WaitSleep(t) \/ WaitLeaveLoop(t) \/ WaitClear(t)
  \/ WaitRelock(t) \/ WaitExpire(t) \/ WaitRelockExpired(t)
  \/ WaitGiveUp(t) \/ WaitReturn(t)

Next ==
  \E t \in Threads :
    \/ RaiseCall(t) \/ WaitCall(t)
    \/ DeadlinePasses(t) \/ WakeSpuriously(t)
    \/ Step(t)

Spec == Init /\ [][Next]_vars

\* A thread that can run keeps running, and a deadline passes in the end.  Nobody
\* has to make a call, and no wakeup is promised that nobody caused.
FairSpec ==
  /\ Spec
  /\ \A t \in Threads : WF_vars(Step(t)) /\ WF_vars(DeadlinePasses(t))

-----------------------------------------------------------------------------

TypeOK ==
  /\ mutex \in Threads \cup {NoThread}
  /\ value \in {0, 1}
  /\ pc \in [Threads -> Locations]
  /\ timed \in [Threads -> BOOLEAN]
  /\ overdue \in [Threads -> BOOLEAN]
  /\ swallowed \in BOOLEAN
  /\ events \in Nat

(***************************************************************************)
(* Lines 958 to 964 against 1008 to 1021: `value` is set before the        *)
(* notification and is read under the mutex before going to sleep, so a    *)
(* raise is never left behind while a thread sleeps.  Whenever value is    *)
(* set and some thread sleeps on the signal, a notification is still to be *)
(* made or a waiter is already on its way to the flag.  The one way out of *)
(* this is a wait that reports its timeout although it was notified.       *)
(***************************************************************************)
NoStrandedRaise ==
  (value = 1 /\ Sleepers # {} /\ ~swallowed) =>
    \E t \in Threads :
      pc[t] \in {"raise_notify", "wait_lock", "woken", "wait_test", "wait_clear"}

(***************************************************************************)
(* thread.h:300: "Raise the specified signal. Other threads waiting for    *)
(* the signal will proceed."  A thread that sleeps with no timeout while   *)
(* the flag is up is woken, or another waiter takes the flag, unless a     *)
(* wait that timed out uses up the wakeup.                                 *)
(***************************************************************************)
RaiseReleasesWaiter ==
  \A w \in Waiters :
    (value = 1 /\ pc[w] = "asleep" /\ ~timed[w] /\ ~swallowed)
      ~> (value = 0 \/ pc[w] # "asleep" \/ swallowed)

(***************************************************************************)
(* thread.h:308: a wait with a timeout comes back, with a result, whatever *)
(* the other threads do with the mutex, the flag and the notifications.    *)
(***************************************************************************)
TimedWaitReturns ==
  \A w \in Waiters :
    (timed[w] /\ pc[w] = "wait_lock") ~> pc[w] \in {"return_0", "return_1"}

-----------------------------------------------------------------------------
(***************************************************************************)
(* The refinement mapping: the call of a thread as its user sees it.  The  *)
(* flag is taken where value is cleared, and a wait has timed out once     *)
(* pthread_cond_timedwait has decided to report it.                        *)
(***************************************************************************)
PhaseOf(t) ==
  CASE pc[t] = "idle"                       -> "idle"
    [] pc[t] \in {"raise_lock", "raise_set"} -> "raising"
    [] pc[t] = "raise_notify"               -> "raise_done"
    [] pc[t] = "return_1"                   -> "signalled"
    [] pc[t] \in {"expired", "wait_give_up", "return_0"} -> "timed_out"
    [] OTHER -> IF timed[t] THEN "waiting_timed" ELSE "waiting"

Event == INSTANCE AutoResetEvent
           WITH raised <- (value = 1),
                phase <- [t \in Threads |-> PhaseOf(t)]

(***************************************************************************)
(* The signal is an auto-reset event: no wait returns 1 without a raise    *)
(* that no other wait has taken, spurious wakeups and competing waiters    *)
(* notwithstanding, and a wait that times out leaves a raise for others.   *)
(***************************************************************************)
ImplementsEvent == Event!Spec
=============================================================================
