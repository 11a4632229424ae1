----------------------------- MODULE BoundedFifo -----------------------------
(***************************************************************************)
(* What a thread_queue_t promises its two users as long as no wait ends    *)
(* early: a first-in first-out buffer of Size entries between one producer *)
(* and one consumer.  A call, the moment it takes effect and its return    *)
(* are steps of their own.                                                 *)
(***************************************************************************)
EXTENDS Naturals, Sequences

CONSTANTS Size,     \* number of slots
          Values,   \* what a producer may add
          Nothing,  \* what a consumer gets from an empty queue: NULL
          Initial   \* the entries the queue starts with

VARIABLES buf,      \* the entries in the queue, oldest first
          put,      \* how far the producer is in its current call
          item,     \* what it is adding
          take,     \* how far the consumer is in its current call
          result    \* what its latest call has returned

vars == <<buf, put, item, take, result>>

Init ==
  /\ buf = Initial
  /\ put = "idle" /\ item = Nothing
  /\ take = "idle" /\ result = Nothing

CallPut ==
  /\ put = "idle" /\ put' = "called"
  /\ item' \in Values
  /\ UNCHANGED <<buf, take, result>>

Put ==
  /\ put = "called" /\ put' = "added"
  /\ Len(buf) < Size
  /\ buf' = Append(buf, item)
  /\ UNCHANGED <<item, take, result>>

\* Only a full queue turns the producer away.
Refuse ==
  /\ put = "called" /\ put' = "refused"
  /\ Len(buf) = Size
  /\ UNCHANGED <<buf, item, take, result>>

ReturnFromPut ==
  /\ put \in {"added", "refused"} /\ put' = "idle"
  /\ UNCHANGED <<buf, item, take, result>>

CallTake ==
  /\ take = "idle" /\ take' = "called"
  /\ UNCHANGED <<buf, put, item, result>>

Take ==
  /\ take = "called" /\ take' = "done"
  /\ buf # <<>>
  /\ result' = Head(buf)
  /\ buf' = Tail(buf)
  /\ UNCHANGED <<put, item>>

\* Only an empty queue gives the consumer nothing.
TakeNothing ==
  /\ take = "called" /\ take' = "done"
  /\ buf = <<>>
  /\ result' = Nothing
  /\ UNCHANGED <<buf, put, item>>

ReturnFromTake ==
  /\ take = "done" /\ take' = "idle"
  /\ UNCHANGED <<buf, put, item, result>>

Next ==
  \/ CallPut \/ Put \/ Refuse \/ ReturnFromPut
  \/ CallTake \/ Take \/ TakeNothing \/ ReturnFromTake

Spec == Init /\ [][Next]_vars
=============================================================================
