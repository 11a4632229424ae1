---------------------------- MODULE MCThreadAtomic ----------------------------
(* An instance of ThreadAtomic for TLC: the operations the threads call. *)
EXTENDS ThreadAtomic, TLC

CONSTANTS t1, t2

Plain(kind) == [kind |-> kind, arg |-> 0, expected |-> 0]
With(kind, arg) == [kind |-> kind, arg |-> arg, expected |-> 0]
Cas(expected, desired) == [kind |-> "cas", arg |-> desired, expected |-> expected]

\* Everything there is, with sums that overflow, stores of 0 and of other
\* values, and compares that can fail.
EveryOperation ==
  {Plain("load"), Plain("inc"), Plain("dec"), With("add", -2), With("sub", 1),
   With("store", 1), With("store", 0), With("swap", -1), Cas(0, 1), Cas(-1, 0)}
=============================================================================
