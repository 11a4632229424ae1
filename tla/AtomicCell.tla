----------------------------- MODULE AtomicCell -----------------------------
(***************************************************************************)
(* What the thread_atomic_ functions promise: an int (or a pointer) on     *)
(* which every operation of every thread takes effect in one step between  *)
(* its call and its return, and returns the value from before that step.   *)
(***************************************************************************)
EXTENDS Integers

CONSTANTS Threads, Operations, MaxInt

VARIABLES value,    \* what the cell holds
          op,       \* the operation each thread has called last
          phase,    \* idle, called, done
          ret       \* what it returned

vars == <<value, op, phase, ret>>

\* Two's complement in the width of an int.
Wrap(i) == ((i + MaxInt + 1) % (2 * MaxInt + 2)) - MaxInt - 1

\* What an operation makes of the value it finds.
After(o, v) ==
  CASE o.kind = "load"             -> v
    [] o.kind \in {"store", "swap"} -> o.arg
    [] o.kind = "inc"              -> Wrap(v + 1)
    [] o.kind = "dec"              -> Wrap(v - 1)
    [] o.kind = "add"              -> Wrap(v + o.arg)
    [] o.kind = "sub"              -> Wrap(v - o.arg)
    [] o.kind = "cas"              -> IF v = o.expected THEN o.arg ELSE v

Init ==
  /\ value = 0
  /\ op \in [Threads -> Operations]
  /\ phase = [t \in Threads |-> "idle"]
  /\ ret = [t \in Threads |-> 0]

Call(t) ==
  /\ phase[t] = "idle" /\ phase' = [phase EXCEPT ![t] = "called"]
  /\ \E o \in Operations : op' = [op EXCEPT ![t] = o]
  /\ UNCHANGED <<value, ret>>

TakeEffect(t) ==
  /\ phase[t] = "called" /\ phase' = [phase EXCEPT ![t] = "done"]
  /\ value' = After(op[t], value)
  /\ ret' = [ret EXCEPT ![t] = value]
  /\ UNCHANGED op

Return(t) ==
  /\ phase[t] = "done" /\ phase' = [phase EXCEPT ![t] = "idle"]
  /\ UNCHANGED <<value, op, ret>>

Next == \E t \in Threads : Call(t) \/ TakeEffect(t) \/ Return(t)

Spec == Init /\ [][Next]_vars
=============================================================================
