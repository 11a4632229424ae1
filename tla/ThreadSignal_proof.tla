------------------------- MODULE ThreadSignal_proof -------------------------
(* Theorems about ThreadSignal, for any threads, kinds of wait and number of events, *)
(* and about ThreadDeadline, for any units, timeouts and times.                      *)
EXTENDS ThreadSignal, ThreadDeadline, TLAPS

-----------------------------------------------------------------------------
(* The inductive invariant. *)

\* The mutex has the holder that the places of the threads say it has.
MutexHeld ==
  \A t \in Threads : (pc[t] \in Holding) <=> (mutex = t)

\* Only a thread that saw value set, under the mutex it still holds, clears it.
ClearsRaised ==
  \A t \in Threads : pc[t] = "wait_clear" => value = 1

\* Only waiters are inside a wait.
WaitersWait ==
  \A t \in Threads : pc[t] \in Waiting => t \in Waiters

\* A wait has a deadline only if it was called with one.
OverdueTimed ==
  /\ \A t \in Threads : (pc[t] \in Waiting /\ overdue[t]) => timed[t]
  /\ \A t \in Threads : timed[t] => TRUE \in Timeouts

IInv == TypeOK /\ MutexHeld /\ ClearsRaised /\ WaitersWait /\ OverdueTimed

\* Every way a thread can move.
LEMMA NextCases ==
  ASSUME [Next]_vars
  PROVE  UNCHANGED vars \/ \E t \in Threads : RaiseCall(t) \/ WaitCall(t) \/ DeadlinePasses(t)
                          \/ WakeSpuriously(t) \/ Step(t)
BY DEF Next

\* The signal starts with its types.
LEMMA InitTypeOK == Init => TypeOK
<1>1. Init => swallowed \in BOOLEAN
  BY Zenon DEF Init
<1>2. Init => /\ mutex \in Threads \cup {NoThread} /\ value \in {0, 1}
              /\ pc \in [Threads -> Locations]
              /\ timed \in [Threads -> BOOLEAN] /\ overdue \in [Threads -> BOOLEAN]
              /\ events \in Nat
  BY DEF Init, Locations
<1>3. QED
  BY <1>1, <1>2, Zenon DEF TypeOK

\* thread.h:865-1027 keeps its fields in their ranges: value is 0 or 1, the mutex has at
\* most one holder, and each thread is at one place of one call.
THEOREM TypeOKInvariant == Spec => []TypeOK
<1>1. Init => TypeOK
  BY InitTypeOK
<1>2. TypeOK /\ [Next]_vars => TypeOK'
  <2> SUFFICES ASSUME TypeOK, [Next]_vars PROVE TypeOK'
    OBVIOUS
  <2> USE TimeoutsAssumption DEF TypeOK, Locations, Goto, Lock, Unlock, Call, CountEvent
  <2>1. CASE UNCHANGED vars
    BY <2>1 DEF vars
  <2>2. ASSUME NEW t \in Threads, RaiseCall(t) PROVE TypeOK'
    BY <2>2 DEF RaiseCall
  <2>3. ASSUME NEW t \in Threads, WaitCall(t) PROVE TypeOK'
    BY <2>3 DEF WaitCall
  <2>4. ASSUME NEW t \in Threads, DeadlinePasses(t) PROVE TypeOK'
    BY <2>4 DEF DeadlinePasses
  <2>5. ASSUME NEW t \in Threads, WakeSpuriously(t) PROVE TypeOK'
    BY <2>5 DEF WakeSpuriously
  <2>6. ASSUME NEW t \in Threads, Step(t) PROVE TypeOK'
    <3>1. CASE RaiseLock(t) \/ RaiseSet(t)
      BY <3>1 DEF RaiseLock, RaiseSet
    <3>2. CASE RaiseNotify(t)
      BY <3>2 DEF RaiseNotify, Sleepers
    <3>3. CASE WaitLock(t) \/ WaitSleep(t) \/ WaitLeaveLoop(t) \/ WaitClear(t)
      BY <3>3 DEF WaitLock, WaitSleep, WaitLeaveLoop, WaitClear
    <3>4. CASE WaitRelock(t) \/ WaitExpire(t) \/ WaitRelockExpired(t)
      BY <3>4 DEF WaitRelock, WaitExpire, WaitRelockExpired
    <3>5. CASE WaitGiveUp(t) \/ WaitReturn(t)
      BY <3>5 DEF WaitGiveUp, WaitReturn
    <3>6. QED
      BY <2>6, <3>1, <3>2, <3>3, <3>4, <3>5 DEF Step
  <2>7. QED
    BY NextCases, <2>1, <2>2, <2>3, <2>4, <2>5, <2>6
<1>3. QED
  BY <1>1, <1>2, PTL DEF Spec

\* The parts of IInv that rest on TypeOK are kept by every step.
LEMMA IInvInvariant == Spec => []IInv
<1>1. Init => IInv
  <2>1. Init => MutexHeld /\ ClearsRaised /\ WaitersWait /\ OverdueTimed
    BY NoThreadAssumption
    DEF Init, MutexHeld, ClearsRaised, WaitersWait, OverdueTimed, Holding, Waiting
  <2>2. QED
    BY <2>1, InitTypeOK DEF IInv
<1>2. IInv /\ TypeOK' /\ [Next]_vars => IInv'
  <2> SUFFICES ASSUME IInv, TypeOK', [Next]_vars
               PROVE  MutexHeld' /\ ClearsRaised' /\ WaitersWait' /\ OverdueTimed'
    BY DEF IInv
  <2> USE TimeoutsAssumption, NoThreadAssumption
      DEF IInv, TypeOK, Locations, MutexHeld, ClearsRaised, WaitersWait, OverdueTimed,
          Holding, Waiting, Goto, Lock, Unlock, Call, CountEvent
  <2>1. CASE UNCHANGED vars
    BY <2>1 DEF vars
  <2>2. ASSUME NEW t \in Threads, RaiseCall(t) \/ WaitCall(t)
        PROVE  MutexHeld' /\ ClearsRaised' /\ WaitersWait' /\ OverdueTimed'
    <3>1. CASE RaiseCall(t)
      BY <3>1 DEF RaiseCall
    <3>2. CASE WaitCall(t)
      <4>1. MutexHeld' /\ ClearsRaised' /\ WaitersWait'
        BY <3>2 DEF WaitCall
      <4>2. OverdueTimed'
        BY <3>2 DEF WaitCall
      <4>3. QED
        BY <4>1, <4>2
    <3>3. QED
      BY <2>2, <3>1, <3>2
  <2>3. ASSUME NEW t \in Threads, DeadlinePasses(t) \/ WakeSpuriously(t)
        PROVE  MutexHeld' /\ ClearsRaised' /\ WaitersWait' /\ OverdueTimed'
    BY <2>3, ZenonT(60) DEF DeadlinePasses, WakeSpuriously
  <2>4. ASSUME NEW t \in Threads, Step(t)
        PROVE  MutexHeld' /\ ClearsRaised' /\ WaitersWait' /\ OverdueTimed'
    <3>1. CASE RaiseLock(t)
      BY <3>1 DEF RaiseLock
    <3>2. CASE RaiseSet(t)
      BY <3>2 DEF RaiseSet
    <3>3. CASE RaiseNotify(t)
      BY <3>3, ZenonT(60) DEF RaiseNotify, Sleepers, Threads
    <3>4. CASE WaitLock(t) \/ WaitRelock(t) \/ WaitRelockExpired(t)
      <4>1. mutex = NoThread /\ mutex' = t /\ \A u \in Threads : pc[u] \notin Holding
        BY <3>4 DEF WaitLock, WaitRelock, WaitRelockExpired
      <4>2. PICK to \in {"wait_test", "wait_give_up"} :
              /\ pc[t] \in {"wait_lock", "woken", "expired"}
              /\ pc' = [pc EXCEPT ![t] = to]
              /\ to = "wait_test" => pc[t] \in Waiting
              /\ UNCHANGED <<value, timed, overdue>>
        BY <3>4 DEF WaitLock, WaitRelock, WaitRelockExpired
      <4>3. MutexHeld'
        BY <4>1, <4>2
      <4>4. ClearsRaised' /\ WaitersWait'
        BY <4>2
      <4>5. OverdueTimed'
        BY <4>2
      <4>6. QED
        BY <4>3, <4>4, <4>5
    <3>5. CASE WaitSleep(t) \/ WaitGiveUp(t)
      <4>1. PICK to \in {"asleep", "expired", "return_0"} :
              /\ pc[t] \in {"wait_test", "wait_give_up"}
              /\ pc' = [pc EXCEPT ![t] = to]
              /\ to = "asleep" => pc[t] \in Waiting
              /\ mutex' = NoThread
              /\ UNCHANGED <<value, timed, overdue>>
        BY <3>5 DEF WaitSleep, WaitGiveUp
      <4>2. MutexHeld'
        BY <4>1
      <4>3. ClearsRaised' /\ WaitersWait' /\ OverdueTimed'
        BY <4>1
      <4>4. QED
        BY <4>2, <4>3
    <3>6. CASE WaitLeaveLoop(t) \/ WaitExpire(t) \/ WaitReturn(t)
      BY <3>6, ZenonT(60) DEF WaitLeaveLoop, WaitExpire, WaitReturn
    <3>7. CASE WaitClear(t)
      BY <3>7 DEF WaitClear
    <3>8. QED
      BY <2>4, <3>1, <3>2, <3>3, <3>4, <3>5, <3>6, <3>7 DEF Step
  <2>5. QED
    BY NextCases, <2>1, <2>2, <2>3, <2>4
<1>3. QED
  BY <1>1, <1>2, TypeOKInvariant, PTL DEF Spec

-----------------------------------------------------------------------------
(* The signal implements the auto-reset event. *)

\* What the refinement mapping makes of the state: Event's phase.
CallPhase == [t \in Threads |-> PhaseOf(t)]

\* A thread that stays where it is stays in the same phase of its call.
LEMMA PhaseKept ==
  ASSUME NEW u \in Threads, pc'[u] = pc[u], timed'[u] = timed[u]
  PROVE  PhaseOf(u)' = PhaseOf(u)
BY DEF PhaseOf

\* A step of t that leaves the other phases alone is an update of the mapped phase at t.
LEMMA PhaseUpdate ==
  ASSUME NEW t \in Threads, \A u \in Threads \ {t} : PhaseOf(u)' = PhaseOf(u)
  PROVE  CallPhase' = [CallPhase EXCEPT ![t] = PhaseOf(t)']
BY DEF CallPhase

\* thread.h:867-964 starts with the event not set and nobody in a call.
LEMMA InitRefines == Init => Event!Init
BY DEF Init, Event!Init, Event!Threads, Threads, PhaseOf

\* Every step of the signal is a step of the event or leaves it as it is.
LEMMA StepRefines ==
  ASSUME IInv, [Next]_vars
  PROVE  [Event!Next]_(Event!vars)
<1> DEFINE Stutters == CallPhase' = CallPhase /\ (value = 1)' = (value = 1)
           Moves(t, from, to) ==
             /\ CallPhase[t] = from
             /\ CallPhase' = [CallPhase EXCEPT ![t] = to]
<1> USE DEF IInv, TypeOK, Goto, Call, CountEvent
<1>1. Stutters => UNCHANGED Event!vars
  BY DEF Event!vars, CallPhase, Threads
<1>2. ASSUME NEW t \in Threads, NEW loc,
             pc' = [pc EXCEPT ![t] = loc], UNCHANGED timed
      PROVE  CallPhase' = [CallPhase EXCEPT ![t] = PhaseOf(t)']
  BY <1>2, PhaseKept, PhaseUpdate
<1>3. \A t \in Threads : CallPhase[t] = PhaseOf(t)
  BY DEF CallPhase
<1>4. ASSUME NEW t \in Threads, NEW loc, UNCHANGED <<timed, value>>,
             pc' = [pc EXCEPT ![t] = loc], PhaseOf(t)' = PhaseOf(t)
      PROVE  Stutters
  <2>1. \A u \in Threads : PhaseOf(u)' = PhaseOf(u)
    BY <1>4, PhaseKept
  <2>2. CallPhase' = CallPhase
    BY <2>1 DEF CallPhase
  <2>3. QED
    BY <1>4, <2>2
<1>5. CASE UNCHANGED vars
  <2>1. \A u \in Threads : PhaseOf(u)' = PhaseOf(u)
    BY <1>5, PhaseKept DEF vars
  <2>2. QED
    BY <1>1, <1>5, <2>1 DEF CallPhase, vars
<1>6. ASSUME NEW t \in Threads, RaiseCall(t)
      PROVE  Event!CallRaise(t)
  <2>1. PhaseOf(t) = "idle" /\ PhaseOf(t)' = "raising"
    BY <1>6 DEF RaiseCall, PhaseOf
  <2>2. Moves(t, "idle", "raising")
    BY <1>2, <1>3, <1>6, <2>1 DEF RaiseCall
  <2>3. QED
    BY <1>6, <2>2 DEF RaiseCall, Event!CallRaise, Event!Move, CallPhase
<1>7. ASSUME NEW t \in Threads, RaiseSet(t)
      PROVE  Event!SetEvent(t)
  <2>1. PhaseOf(t) = "raising" /\ PhaseOf(t)' = "raise_done"
    BY <1>7 DEF RaiseSet, PhaseOf
  <2>2. Moves(t, "raising", "raise_done")
    BY <1>2, <1>3, <1>7, <2>1 DEF RaiseSet
  <2>3. QED
    BY <1>7, <2>2 DEF RaiseSet, Event!SetEvent, Event!Move, CallPhase
<1>8. ASSUME NEW t \in Threads, RaiseNotify(t)
      PROVE  Event!ReturnFromRaise(t)
  <2>1. PhaseOf(t) = "raise_done" /\ PhaseOf(t)' = "idle"
    BY <1>8 DEF RaiseNotify, PhaseOf, Sleepers, Threads
  <2>2. \A u \in Threads \ {t} : PhaseOf(u)' = PhaseOf(u)
    BY <1>8 DEF RaiseNotify, PhaseOf, Sleepers, Threads
  <2>3. Moves(t, "raise_done", "idle")
    BY <1>3, <2>1, <2>2, PhaseUpdate
  <2>4. QED
    BY <1>8, <2>3 DEF RaiseNotify, Event!ReturnFromRaise, Event!Move, CallPhase
<1>9. ASSUME NEW t \in Threads, WaitCall(t)
      PROVE  Event!CallWait(t)
  <2>1. PICK b \in Timeouts : timed' = [timed EXCEPT ![t] = b]
    BY <1>9 DEF WaitCall
  <2>2. PhaseOf(t) = "idle"
    BY <1>9 DEF WaitCall, PhaseOf
  <2>3. PhaseOf(t)' = IF b THEN "waiting_timed" ELSE "waiting"
    BY <1>9, <2>1 DEF WaitCall, PhaseOf
  <2>4. \A u \in Threads \ {t} : PhaseOf(u)' = PhaseOf(u)
    BY <1>9, <2>1, PhaseKept DEF WaitCall
  <2>5. Moves(t, "idle", IF b THEN "waiting_timed" ELSE "waiting")
    BY <1>3, <2>2, <2>3, <2>4, PhaseUpdate
  <2>6. QED
    BY <1>9, <2>5 DEF WaitCall, Event!CallWait, Event!Move, CallPhase
<1>10. ASSUME NEW t \in Threads, WaitClear(t)
       PROVE  Event!TakeEvent(t)
  <2>1. value = 1 /\ value' = 0
    BY <1>10 DEF WaitClear, ClearsRaised
  <2>2. /\ PhaseOf(t) \in {"waiting", "waiting_timed"}
        /\ PhaseOf(t)' = "signalled"
    BY <1>10 DEF WaitClear, PhaseOf
  <2>3. Moves(t, "waiting", "signalled") \/ Moves(t, "waiting_timed", "signalled")
    BY <1>2, <1>3, <1>10, <2>2 DEF WaitClear
  <2>4. QED
    BY <2>1, <2>3 DEF Event!TakeEvent, Event!Move, CallPhase
<1>11. ASSUME NEW t \in Threads, WaitReturn(t)
       PROVE  Event!ReturnFromWait(t)
  <2>1. /\ PhaseOf(t) \in {"signalled", "timed_out"}
        /\ PhaseOf(t)' = "idle"
    BY <1>11 DEF WaitReturn, PhaseOf
  <2>2. Moves(t, "signalled", "idle") \/ Moves(t, "timed_out", "idle")
    BY <1>2, <1>3, <1>11, <2>1 DEF WaitReturn
  <2>3. QED
    BY <1>11, <2>2 DEF WaitReturn, Event!ReturnFromWait, Event!Move, CallPhase
<1>12. ASSUME NEW t \in Threads, NEW from \in Waiting, overdue[t],
              pc[t] = from, pc' = [pc EXCEPT ![t] = "expired"],
              UNCHANGED <<value, timed>>
       PROVE  Event!Expire(t)
  <2>1. PhaseOf(t) = "waiting_timed" /\ PhaseOf(t)' = "timed_out"
    BY <1>12 DEF PhaseOf, OverdueTimed, Waiting
  <2>2. Moves(t, "waiting_timed", "timed_out")
    BY <1>2, <1>3, <1>12, <2>1
  <2>3. QED
    BY <1>12, <2>2 DEF Event!Expire, Event!Move, CallPhase
<1>13. ASSUME NEW t \in Threads, WaitExpire(t)
       PROVE  Event!Expire(t)
  BY <1>12, <1>13 DEF WaitExpire, Waiting
<1>14. ASSUME NEW t \in Threads, WaitSleep(t)
       PROVE  Event!Expire(t) \/ Stutters
  <2>1. CASE Posix /\ overdue[t]
    BY <1>12, <1>14, <2>1 DEF WaitSleep, Waiting
  <2>2. CASE ~(Posix /\ overdue[t])
    <3>1. PhaseOf(t)' = PhaseOf(t)
      BY <1>14, <2>2 DEF WaitSleep, PhaseOf
    <3>2. QED
      BY <1>4, <1>14, <2>2, <3>1 DEF WaitSleep
  <2>3. QED
    BY <2>1, <2>2
<1>15. ASSUME NEW t \in Threads, RaiseLock(t) \/ WaitLock(t) \/ WaitLeaveLoop(t)
                                  \/ WaitRelock(t) \/ WakeSpuriously(t)
       PROVE  Stutters
  <2>1. PhaseOf(t)' = PhaseOf(t)
    BY <1>15 DEF RaiseLock, WaitLock, WaitLeaveLoop, WaitRelock, WakeSpuriously, PhaseOf
  <2>2. QED
    BY <1>4, <1>15, <2>1 DEF RaiseLock, WaitLock, WaitLeaveLoop, WaitRelock, WakeSpuriously
<1>16. ASSUME NEW t \in Threads, WaitRelockExpired(t) \/ WaitGiveUp(t)
       PROVE  Stutters
  <2>1. PhaseOf(t)' = PhaseOf(t)
    BY <1>16 DEF WaitRelockExpired, WaitGiveUp, PhaseOf
  <2>2. QED
    BY <1>4, <1>16, <2>1 DEF WaitRelockExpired, WaitGiveUp
<1>17. ASSUME NEW t \in Threads, DeadlinePasses(t)
       PROVE  Stutters
  <2>1. \A u \in Threads : PhaseOf(u)' = PhaseOf(u)
    BY <1>17, PhaseKept DEF DeadlinePasses
  <2>2. QED
    BY <1>17, <2>1 DEF DeadlinePasses, CallPhase
<1>18. ASSUME NEW t \in Threads, Step(t)
       PROVE  Event!Next \/ Stutters
  BY <1>7, <1>8, <1>10, <1>11, <1>13, <1>14, <1>15, <1>16, <1>18
  DEF Step, Event!Next, Event!Threads, Threads
<1>19. ASSUME NEW t \in Threads,
              RaiseCall(t) \/ WaitCall(t) \/ DeadlinePasses(t) \/ WakeSpuriously(t)
       PROVE  Event!Next \/ Stutters
  BY <1>6, <1>9, <1>15, <1>17, <1>19 DEF Event!Next, Event!Threads, Threads
<1>20. QED
  BY NextCases, <1>1, <1>5, <1>18, <1>19

\* thread.h:865-1027: for any threads and any kinds of wait, in every interleaving of the
\* lock, the flag and the condition variable, the signal behaves as an auto-reset event:
\* each wait that returns 1 has taken a raise of its own.
THEOREM SignalImplementsEvent == Spec => ImplementsEvent
<1>1. Init => Event!Init
  BY InitRefines
<1>2. IInv /\ [Next]_vars => [Event!Next]_(Event!vars)
  BY StepRefines
<1>3. QED
  BY <1>1, <1>2, IInvInvariant, PTL DEF Spec, ImplementsEvent, Event!Spec

-----------------------------------------------------------------------------
(* No raise is left behind. *)

\* The threads that keep a raised flag from being forgotten.
Pending == {"raise_notify", "wait_lock", "woken", "wait_test", "wait_clear"}

\* No step leaves a raised flag to threads that sleep on it, unless a wakeup was used up.
LEMMA StrandedStep ==
  ASSUME IInv, NoStrandedRaise, [Next]_vars
  PROVE  NoStrandedRaise'
<1> SUFFICES ASSUME value' = 1, NEW s \in Waiters, pc'[s] = "asleep", ~swallowed'
             PROVE  \E t \in Threads : pc'[t] \in Pending
  BY DEF NoStrandedRaise, Sleepers, Pending
<1> USE DEF IInv, TypeOK, Pending, Goto, Call, CountEvent, Threads
<1>1. ASSUME value = 1, pc[s] = "asleep", ~swallowed
      PROVE  \E t \in Threads : pc[t] \in Pending
  BY <1>1 DEF NoStrandedRaise, Sleepers
<1>2. CASE UNCHANGED vars
  BY <1>1, <1>2 DEF vars
<1>3. ASSUME NEW t \in Threads, RaiseCall(t) \/ WaitCall(t)
      PROVE  \E u \in Threads : pc'[u] \in Pending
  BY <1>1, <1>3 DEF RaiseCall, WaitCall
<1>4. ASSUME NEW t \in Threads, DeadlinePasses(t)
      PROVE  \E u \in Threads : pc'[u] \in Pending
  BY <1>1, <1>4 DEF DeadlinePasses
<1>5. ASSUME NEW t \in Threads, WakeSpuriously(t)
      PROVE  \E u \in Threads : pc'[u] \in Pending
  BY <1>5 DEF WakeSpuriously
<1>6. ASSUME NEW t \in Threads, Step(t)
      PROVE  \E u \in Threads : pc'[u] \in Pending
  <2>1. CASE RaiseLock(t)
    BY <1>1, <2>1 DEF RaiseLock
  <2>2. CASE RaiseSet(t)
    BY <2>2 DEF RaiseSet
  \* The notification wakes one of the sleepers, and s was one.
  <2>3. CASE RaiseNotify(t)
    <3>1. s \in Sleepers
      BY <2>3 DEF RaiseNotify, Sleepers
    <3>2. PICK w \in Sleepers : pc' = [pc EXCEPT ![t] = "idle", ![w] = "woken"]
      BY <2>3, <3>1 DEF RaiseNotify
    <3>3. QED
      BY <3>2 DEF Sleepers
  <2>4. CASE WaitLock(t) \/ WaitLeaveLoop(t) \/ WaitRelock(t)
    BY <2>4 DEF WaitLock, WaitLeaveLoop, WaitRelock
  \* Both need value = 0 afterwards.
  <2>5. CASE WaitSleep(t) \/ WaitClear(t)
    BY <2>5 DEF WaitSleep, WaitClear
  \* s sleeps on, so that a wakeup used up by the timeout of t would be on record.
  <2>6. CASE WaitExpire(t)
    BY <1>1, <2>6 DEF WaitExpire, Sleepers
  <2>7. CASE WaitRelockExpired(t) \/ WaitGiveUp(t) \/ WaitReturn(t)
    BY <1>1, <2>7 DEF WaitRelockExpired, WaitGiveUp, WaitReturn
  <2>8. QED
    BY <1>6, <2>1, <2>2, <2>3, <2>4, <2>5, <2>6, <2>7 DEF Step
<1>7. QED
  BY NextCases, <1>2, <1>3, <1>4, <1>5, <1>6

\* thread.h:952-965, 1008-1026: a thread never sleeps on a raised flag without someone on
\* the way to wake it or to take the flag, short of a timeout that used up the wakeup.
THEOREM NoRaiseStranded == Spec => []NoStrandedRaise
<1>1. Init => NoStrandedRaise
  BY DEF Init, NoStrandedRaise
<1>2. IInv /\ NoStrandedRaise /\ [Next]_vars => NoStrandedRaise'
  BY StrandedStep
<1>3. QED
  BY <1>1, <1>2, IInvInvariant, PTL DEF Spec

\* Where no wakeup can be used up: SleepConditionVariableCS, or no wait with a timeout, or
\* nobody else to wake.
NotificationsSafe ==
  ~Posix \/ TRUE \notin Timeouts \/ \A a, b \in Waiters : a = b

\* There no step uses a wakeup up.
LEMMA SwallowedStep ==
  ASSUME NotificationsSafe, IInv, ~swallowed, [Next]_vars
  PROVE  ~swallowed'
<1>1. CASE UNCHANGED vars
  BY <1>1 DEF vars
<1>2. ASSUME NEW t \in Threads, RaiseCall(t) \/ WaitCall(t) \/ DeadlinePasses(t) \/ WakeSpuriously(t)
      PROVE  ~swallowed'
  BY <1>2 DEF RaiseCall, WaitCall, DeadlinePasses, WakeSpuriously
<1>3. ASSUME NEW t \in Threads, WaitExpire(t)
      PROVE  ~swallowed'
  <2>1. CASE Goto(t, "asleep", "expired") /\ UNCHANGED swallowed
    BY <2>1
  <2>2. CASE Posix /\ Goto(t, "woken", "expired") /\ swallowed' = (swallowed \/ Sleepers # {})
    <3>1. t \in Waiters /\ TRUE \in Timeouts /\ pc[t] # "asleep"
      BY <1>3, <2>2 DEF WaitExpire, IInv, WaitersWait, OverdueTimed, Waiting, Goto
    <3>2. Sleepers = {}
      BY <2>2, <3>1 DEF NotificationsSafe, Sleepers
    <3>3. QED
      BY <2>2, <3>2
  <2>3. QED
    BY <1>3, <2>1, <2>2 DEF WaitExpire
<1>4. ASSUME NEW t \in Threads, Step(t)
      PROVE  ~swallowed'
  BY <1>3, <1>4 DEF Step, RaiseLock, RaiseSet, RaiseNotify, WaitLock, WaitSleep, WaitLeaveLoop,
                    WaitClear, WaitRelock, WaitRelockExpired, WaitGiveUp, WaitReturn
<1>5. QED
  BY NextCases, <1>1, <1>2, <1>4

\* thread.h:282-283 says a signal "can be waited on by one thread".  With one waiter, with
\* infinite waits only, or on Windows, no wakeup is used up by a timeout, so that the
\* exception NoStrandedRaise makes never arises.
THEOREM NoWakeupIsUsedUp ==
  ASSUME NotificationsSafe
  PROVE  Spec => []~swallowed
<1>1. Init => ~swallowed
  BY DEF Init
<1>2. IInv /\ ~swallowed /\ [Next]_vars => ~swallowed'
  BY SwallowedStep
<1>3. QED
  BY <1>1, <1>2, IInvInvariant, PTL DEF Spec

-----------------------------------------------------------------------------
(* A wait whose deadline has passed. *)

\* The places from which a wait has still to come back.
Unreturned == Waiting \cup {"expired", "wait_give_up"}

\* How many steps a wait whose deadline has passed has left at most.
StepsLeft(t) ==
  CASE pc[t] = "asleep"                      -> 5
    [] pc[t] \in {"wait_lock", "woken"}      -> 4
    [] pc[t] = "wait_test"                   -> 3
    [] pc[t] = "expired"                     -> 2
    [] pc[t] \in {"wait_clear", "wait_give_up"} -> 1
    [] OTHER                                 -> 0

(***************************************************************************)
(* thread.h:996-1017: once its deadline has passed, whatever happens next  *)
(* to a wait on POSIX brings it closer to its return: a wakeup, its own or *)
(* a spurious one, never sends it back to sleep.                           *)
(***************************************************************************)
OverdueComesCloser ==
  [][\A w \in Waiters :
       (overdue[w] /\ pc[w] \in Unreturned /\ pc'[w] # pc[w])
         => StepsLeft(w)' < StepsLeft(w)]_vars

(***************************************************************************)
(* thread.h:963-1021: nothing stands in its way but a mutex that another   *)
(* thread holds, at a place where that thread waits for nobody.            *)
(***************************************************************************)
OverdueGoesOn ==
  \A w \in Waiters : (overdue[w] /\ pc[w] \in Unreturned) =>
    \/ pc[w] \in Holding \cup {"asleep"}
    \/ mutex = NoThread
    \/ \E u \in Threads \ {w} : mutex = u /\ pc[u] \in Holding

LEMMA StepComesCloser ==
  ASSUME Posix, IInv, [Next]_vars,
         NEW w \in Waiters, overdue[w], pc[w] \in Unreturned, pc'[w] # pc[w]
  PROVE  StepsLeft(w)' < StepsLeft(w)
<1> w \in Threads /\ pc \in [Threads -> Locations]
  BY DEF Threads, IInv, TypeOK
<1>1. ASSUME NEW from \in Locations, NEW to \in Locations, pc[w] = from, pc'[w] = to,
             <<from, to>> \in {<<"wait_lock", "wait_test">>, <<"woken", "wait_test">>,
                               <<"wait_test", "expired">>, <<"wait_test", "wait_clear">>,
                               <<"wait_clear", "return_1">>, <<"asleep", "woken">>,
                               <<"asleep", "expired">>, <<"woken", "expired">>,
                               <<"expired", "wait_give_up">>, <<"wait_give_up", "return_0">>}
      PROVE  StepsLeft(w)' < StepsLeft(w)
  BY <1>1 DEF StepsLeft
<1>2. CASE UNCHANGED vars
  BY <1>2 DEF vars
<1>3. ASSUME NEW t \in Threads, RaiseCall(t) \/ WaitCall(t) \/ DeadlinePasses(t)
      PROVE  FALSE
  BY <1>3 DEF RaiseCall, WaitCall, DeadlinePasses, Call, Goto, Unreturned, Waiting
<1>4. ASSUME NEW t \in Threads, WakeSpuriously(t)
      PROVE  StepsLeft(w)' < StepsLeft(w)
  <2>1. pc[w] = "asleep" /\ pc'[w] = "woken"
    BY <1>4 DEF WakeSpuriously, Goto
  <2>2. QED
    BY <1>1, <2>1 DEF Locations
<1>5. ASSUME NEW t \in Threads, Step(t)
      PROVE  StepsLeft(w)' < StepsLeft(w)
  <2>1. CASE RaiseNotify(t)
    <3>1. pc[w] # "raise_notify"
      BY DEF Unreturned, Waiting
    <3>2. pc[w] = "asleep" /\ pc'[w] = "woken"
      BY <2>1, <3>1 DEF RaiseNotify, Sleepers
    <3>3. QED
      BY <1>1, <3>2 DEF Locations
  <2>2. CASE RaiseLock(t) \/ RaiseSet(t)
    BY <2>2 DEF RaiseLock, RaiseSet, Goto, Unreturned, Waiting
  <2>3. CASE WaitLock(t) \/ WaitRelock(t) \/ WaitRelockExpired(t)
    <3>1. \/ pc[w] = "wait_lock" /\ pc'[w] = "wait_test"
          \/ pc[w] = "woken" /\ pc'[w] = "wait_test"
          \/ pc[w] = "expired" /\ pc'[w] = "wait_give_up"
      BY <2>3 DEF WaitLock, WaitRelock, WaitRelockExpired, Goto
    <3>2. QED
      BY <1>1, <3>1 DEF Locations
  <2>4. CASE WaitSleep(t) \/ WaitLeaveLoop(t)
    <3>1. \/ pc[w] = "wait_test" /\ pc'[w] = "expired"
          \/ pc[w] = "wait_test" /\ pc'[w] = "wait_clear"
      BY <2>4 DEF WaitSleep, WaitLeaveLoop, Goto
    <3>2. QED
      BY <1>1, <3>1 DEF Locations
  <2>5. CASE WaitClear(t) \/ WaitGiveUp(t)
    <3>1. \/ pc[w] = "wait_clear" /\ pc'[w] = "return_1"
          \/ pc[w] = "wait_give_up" /\ pc'[w] = "return_0"
      BY <2>5 DEF WaitClear, WaitGiveUp, Goto
    <3>2. QED
      BY <1>1, <3>1 DEF Locations
  <2>6. CASE WaitExpire(t)
    <3>1. \/ pc[w] = "asleep" /\ pc'[w] = "expired"
          \/ pc[w] = "woken" /\ pc'[w] = "expired"
      BY <2>6 DEF WaitExpire, Goto
    <3>2. QED
      BY <1>1, <3>1 DEF Locations
  <2>7. CASE WaitReturn(t)
    BY <2>7 DEF WaitReturn, Goto, Unreturned, Waiting
  <2>8. QED
    BY <1>5, <2>1, <2>2, <2>3, <2>4, <2>5, <2>6, <2>7 DEF Step
<1>6. QED
  BY NextCases, <1>2, <1>3, <1>4, <1>5

\* thread.h:308: the safety half of TimedWaitReturns.  On POSIX, for any threads, kinds of
\* wait and number of spurious wakeups, a wait whose deadline has passed is at most five
\* steps from its return, each of which it can take once nobody else has the mutex.
THEOREM OverdueWaitComesBack ==
  ASSUME Posix
  PROVE  Spec => OverdueComesCloser /\ []OverdueGoesOn
<1>1. IInv /\ [Next]_vars =>
        [\A w \in Waiters :
           (overdue[w] /\ pc[w] \in Unreturned /\ pc'[w] # pc[w])
             => StepsLeft(w)' < StepsLeft(w)]_vars
  BY StepComesCloser
<1>2. IInv => OverdueGoesOn
  BY DEF IInv, TypeOK, MutexHeld, OverdueGoesOn, Threads
<1>3. QED
  BY <1>1, <1>2, IInvInvariant, PTL DEF Spec, OverdueComesCloser

-----------------------------------------------------------------------------
(* ThreadDeadline: when a timed wait on POSIX ends. *)

\* A second is a whole number of nanoseconds, and not zero.
LEMMA SecondType == Second \in Nat \ {0}
BY UnitsAssumption DEF Second

\* Quotient and remainder.
LEMMA Division ==
  ASSUME NEW n \in Nat, NEW d \in Nat \ {0}
  PROVE  /\ n = (d * (n \div d)) + (n % d)
         /\ n \div d \in Nat /\ n % d \in 0..(d - 1)
OBVIOUS

\* A later moment is not in an earlier second.
LEMMA DivisionMonotone ==
  ASSUME NEW m \in Nat, NEW n \in Nat, m <= n, NEW d \in Nat \ {0}
  PROVE  m \div d <= n \div d
<1> DEFINE q == m \div d
           r == n \div d
<1>1. /\ m = (d * q) + (m % d) /\ q \in Nat /\ m % d \in 0..(d - 1)
      /\ n = (d * r) + (n % d) /\ r \in Nat /\ n % d \in 0..(d - 1)
  BY Division
<1> HIDE DEF q, r
<1>2. SUFFICES ASSUME r + 1 <= q PROVE FALSE
  BY <1>1 DEF q, r
<1>3. d * (r + 1) <= d * q
  BY <1>1, <1>2
<1>4. d * (r + 1) = (d * r) + d
  BY <1>1
<1>5. QED
  BY <1>1, <1>3, <1>4

\* The same moment in a time.
LEMMA TimesMonotone ==
  ASSUME NEW q \in Nat, NEW r \in Nat, q <= r, NEW d \in Nat
  PROVE  d * q <= d * r /\ d * q \in Nat
OBVIOUS

\* timeout_ms in the unit of the clock.
Micro == timeout_ms * UsPerMs

\* Seconds and the rest, taken apart and put together again.
LEMMA TimeoutSplit ==
  ASSUME NEW t \in Nat
  PROVE  /\ t * UsPerMs = (Second * (t \div MsPerSec)) + (UsPerMs * (t % MsPerSec))
         /\ t \div MsPerSec \in Nat /\ UsPerMs * (t % MsPerSec) \in Nat /\ t * UsPerMs \in Nat
<1> DEFINE q == t \div MsPerSec
           r == t % MsPerSec
<1>1. t = (MsPerSec * q) + r /\ q \in Nat /\ r \in Nat
  BY UnitsAssumption, Division
<1> HIDE DEF q, r
<1>2. UsPerMs \in Nat /\ MsPerSec \in Nat
  BY UnitsAssumption
<1>3. t * UsPerMs = ((MsPerSec * q) * UsPerMs) + (r * UsPerMs)
  BY <1>1, <1>2
<1>4. (MsPerSec * q) * UsPerMs = Second * q
  BY <1>1, <1>2 DEF Second
<1>5. QED
  BY <1>1, <1>2, <1>3, <1>4 DEF q, r

\* What the code has worked out so far.
Worked ==
  /\ stage = "time" => tv_usec = tv_read % Second /\ tv_read <= clock
  /\ stage \in {"carry", "timedwait"} =>
       /\ TimeLag = 0 => Deadline >= tv_read + Micro
       /\ Deadline < sec_read + Micro + Second

DInv == DeadlineTypeOK /\ Worked

LEMMA TimeStep ==
  ASSUME DeadlineTypeOK, Worked, Time
  PROVE  /\ TimeLag = 0 => Deadline' >= tv_read' + Micro'
         /\ Deadline' < sec_read' + Micro' + Second
         /\ tv_sec' \in Nat /\ tv_nsec' \in Nat
<1>1. PICK lag \in 0..TimeLag :
        lag <= clock /\ tv_sec' = ((clock - lag) \div Second) + (timeout_ms \div MsPerSec)
  BY DEF Time
<1> DEFINE z == clock - lag
           k == z \div Second
           q == timeout_ms \div MsPerSec
           u == UsPerMs * (timeout_ms % MsPerSec)
           w == tv_read \div Second
<1>2. /\ clock \in Nat /\ tv_read \in Nat /\ timeout_ms \in Nat /\ z \in Nat /\ z <= clock
      /\ TimeLag \in Nat /\ (TimeLag = 0 => z = clock)
  BY <1>1, TimeLagAssumption, MaxClockAssumption DEF DeadlineTypeOK
<1>3. Second \in Nat \ {0}
  BY SecondType
<1>4. k \in Nat /\ z = (Second * k) + (z % Second) /\ z % Second \in 0..(Second - 1)
  BY <1>2, <1>3, Division
<1>5. /\ tv_usec = tv_read % Second /\ tv_read <= clock
      /\ tv_usec \in 0..(Second - 1) /\ w \in Nat
      /\ tv_read = (Second * w) + tv_usec
  BY <1>2, <1>3, Division DEF Worked, Time
<1>6. Micro = (Second * q) + u /\ q \in Nat /\ u \in Nat /\ Micro \in Nat
  BY <1>2, TimeoutSplit DEF Micro
<1>7. /\ tv_sec' = k + q /\ tv_nsec' = tv_usec + u
      /\ sec_read' = clock /\ tv_read' = tv_read /\ Micro' = Micro
  BY <1>1 DEF Time, Micro
<1>8. TimeLag = 0 => w <= k
  BY <1>2, <1>3, <1>5, DivisionMonotone
<1> HIDE DEF z, k, q, u, w
<1>9. Second * k \in Nat /\ Second * w \in Nat /\ (w <= k => Second * w <= Second * k)
  BY <1>3, <1>4, <1>5, TimesMonotone
<1>10. (k + q) * Second = (Second * k) + (Second * q)
  BY <1>3, <1>4, <1>6
<1>11. Deadline' = (Second * k) + tv_usec + Micro
  <2>1. Deadline' = ((k + q) * Second) + (tv_usec + u)
    BY <1>7 DEF Deadline
  <2>2. Second * q \in Nat
    BY <1>3, <1>6
  <2>3. QED
    BY <2>1, <2>2, <1>3, <1>5, <1>6, <1>9, <1>10
<1>12. QED
  BY <1>2, <1>3, <1>4, <1>5, <1>6, <1>7, <1>8, <1>9, <1>11

LEMMA CarryStep ==
  ASSUME DeadlineTypeOK, Carry
  PROVE  Deadline' = Deadline /\ tv_nsec' < Second /\ tv_sec' \in Nat /\ tv_nsec' \in Nat
<1> DEFINE q == tv_nsec \div Second
           r == tv_nsec % Second
<1>1. Second \in Nat \ {0} /\ tv_sec \in Nat /\ tv_nsec \in Nat
  BY SecondType DEF DeadlineTypeOK
<1>2. tv_nsec = (Second * q) + r /\ q \in Nat /\ r \in 0..(Second - 1)
  BY <1>1, Division
<1>3. tv_sec' = tv_sec + q /\ tv_nsec' = r
  BY DEF Carry
<1> HIDE DEF q, r
<1>4. (tv_sec + q) * Second = (tv_sec * Second) + (Second * q)
  BY <1>1, <1>2
<1>5. Second * q \in Nat /\ tv_sec * Second \in Nat
  BY <1>1, <1>2
<1>6. QED
  BY <1>1, <1>2, <1>3, <1>4, <1>5 DEF Deadline

\* DInv holds of every reachable state.
LEMMA DInvInvariant == DeadlineSpec => []DInv
<1>1. DeadlineInit => DInv
  BY SecondType, MaxClockAssumption DEF DeadlineInit, DInv, DeadlineTypeOK, Worked
<1>2. DInv /\ [DeadlineNext]_deadline_vars => DInv'
  <2> SUFFICES ASSUME DeadlineTypeOK, Worked, [DeadlineNext]_deadline_vars
               PROVE  DeadlineTypeOK' /\ Worked'
    BY DEF DInv
  <2>1. Second \in Nat \ {0} /\ MaxClock \in Nat
    BY SecondType, MaxClockAssumption
  <2>2. CASE UNCHANGED deadline_vars
    BY <2>2 DEF deadline_vars, DeadlineTypeOK, Worked, Deadline, Micro
  <2>3. CASE Tick
    BY <2>1, <2>3 DEF Tick, DeadlineTypeOK, Worked, Deadline, Micro
  <2>4. CASE TimedWaitCall
    BY <2>4, TimeoutValuesAssumption DEF TimedWaitCall, DeadlineTypeOK, Worked
  <2>5. CASE GetTimeOfDay
    <3>1. clock % Second \in 0..(Second - 1)
      BY <2>1 DEF DeadlineTypeOK
    <3>2. QED
      BY <2>1, <2>5, <3>1 DEF GetTimeOfDay, DeadlineTypeOK, Worked
  <2>6. CASE Time
    <3>1. DeadlineTypeOK'
      BY <2>6, TimeStep DEF Time, DeadlineTypeOK
    <3>2. Worked'
      BY <2>6, TimeStep DEF Time, Worked
    <3>3. QED
      BY <3>1, <3>2
  <2>7. CASE Carry
    <3>1. DeadlineTypeOK'
      BY <2>7, CarryStep DEF Carry, DeadlineTypeOK
    <3>2. Micro' = Micro /\ stage = "carry" /\ stage' = "timedwait"
          /\ sec_read' = sec_read /\ tv_read' = tv_read
      BY <2>7 DEF Carry, Micro
    <3>3. Worked'
      BY <2>7, <3>2, CarryStep DEF Worked
    <3>4. QED
      BY <3>1, <3>3
  <2>8. CASE Expire
    BY <2>8 DEF Expire, DeadlineTypeOK, Worked
  <2>9. QED
    BY <2>2, <2>3, <2>4, <2>5, <2>6, <2>7, <2>8 DEF DeadlineNext
<1>3. QED
  BY <1>1, <1>2, PTL DEF DeadlineSpec

\* thread.h:991-1004: every number the code works out is a natural number, tv_usec is less
\* than a second, and so is the tv_nsec that is handed over: the timed wait never fails at
\* once.
THEOREM DeadlineTypeOKInvariant == DeadlineSpec => []DeadlineTypeOK
<1>1. DInv => DeadlineTypeOK
  BY DEF DInv
<1>2. QED
  BY <1>1, DInvInvariant, PTL

\* thread.h:996-1004: a wait never asks to end before its time, for every timeout and every
\* moment at which it is called, if time() and gettimeofday() read the same clock.
THEOREM DeadlineIsNeverEarly ==
  ASSUME TimeLag = 0
  PROVE  DeadlineSpec => []NeverEarly
<1>1. DInv => NeverEarly
  BY DEF DInv, Worked, NeverEarly, Micro
<1>2. QED
  BY <1>1, DInvInvariant, PTL

\* thread.h:996-1004: and always less than a second after it.
THEOREM DeadlineIsWithinASecond == DeadlineSpec => []LateByLessThanASecond
<1>1. DInv => LateByLessThanASecond
  BY DEF DInv, Worked, LateByLessThanASecond, Micro
<1>2. QED
  BY <1>1, DInvInvariant, PTL
=============================================================================
