--------------------------- MODULE AutoResetEvent ---------------------------
(***************************************************************************)
(* What a thread_signal_t promises its users: a flag that a raise sets and *)
(* that the one wait which sees it set clears again.  It is the abstract   *)
(* specification the mutex/condition-variable signal of ThreadSignal       *)
(* implements, and it is, action for action, the branch of thread.h for    *)
(* Windows before Vista, where the signal is an auto-reset event object.   *)
(*                                                                         *)
(* A call and its return are steps of their own, so that the moment a call *)
(* takes effect lies somewhere between them.                               *)
(***************************************************************************)

CONSTANTS Raisers,   \* threads that may call thread_signal_raise
          Waiters,   \* threads that may call thread_signal_wait
          Timeouts   \* the kinds of wait: TRUE for timeout_ms >= 0, FALSE for infinite

Threads == Raisers \cup Waiters

VARIABLES raised,    \* the state of the event
          phase      \* how far each thread is in its current call

vars == <<raised, phase>>

Phases == {"idle", "raising", "raise_done",
           "waiting", "waiting_timed", "signalled", "timed_out"}

TypeOK ==
  /\ raised \in BOOLEAN
  /\ phase \in [Threads -> Phases]

\* thread_signal_init: CreateEvent(NULL, FALSE, FALSE, NULL), auto-reset and not set.
Init ==
  /\ raised = FALSE
  /\ phase = [t \in Threads |-> "idle"]

Move(t, from, to) ==
  /\ phase[t] = from
  /\ phase' = [phase EXCEPT ![t] = to]

CallRaise(t) ==
  /\ t \in Raisers
  /\ Move(t, "idle", "raising")
  /\ UNCHANGED raised

SetEvent(t) ==
  /\ Move(t, "raising", "raise_done")
  /\ raised' = TRUE

ReturnFromRaise(t) ==
  /\ Move(t, "raise_done", "idle")
  /\ UNCHANGED raised

CallWait(t) ==
  /\ t \in Waiters
  /\ \E timed \in Timeouts :
       Move(t, "idle", IF timed THEN "waiting_timed" ELSE "waiting")
  /\ UNCHANGED raised

\* WaitForSingleObject returns WAIT_OBJECT_0: the waiter takes the event and resets it.
TakeEvent(t) ==
  /\ raised
  /\ \/ Move(t, "waiting", "signalled")
     \/ Move(t, "waiting_timed", "signalled")
  /\ raised' = FALSE

\* WaitForSingleObject returns WAIT_TIMEOUT: the event stays as it is.
Expire(t) ==
  /\ Move(t, "waiting_timed", "timed_out")
  /\ UNCHANGED raised

\* The wait returns 1 out of "signalled" and 0 out of "timed_out".
ReturnFromWait(t) ==
  /\ Move(t, "signalled", "idle") \/ Move(t, "timed_out", "idle")
  /\ UNCHANGED raised

Next ==
  \E t \in Threads :
    \/ CallRaise(t)
    \/ SetEvent(t)
    \/ ReturnFromRaise(t)
    \/ CallWait(t)
    \/ TakeEvent(t)
    \/ Expire(t)
    \/ ReturnFromWait(t)

Spec == Init /\ [][Next]_vars
=============================================================================
