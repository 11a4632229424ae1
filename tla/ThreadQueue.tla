----------------------------- MODULE ThreadQueue -----------------------------
(***************************************************************************)
(* thread_queue_t of thread.h: a ring of slots between one producer and    *)
(* one consumer.  The two share count, the slots and two signals, each of  *)
(* which is the auto-reset event that ThreadSignal implements; head        *)
(* belongs to the consumer and tail to the producer.                       *)
(*                                                                         *)
(* Each atomic operation, slot access and signal operation is an action.   *)
(* sent and got record the entries in the order in which count announces   *)
(* them and in which count gives their slots back.                         *)
(***************************************************************************)
EXTENDS Integers, Sequences

CONSTANTS Size,             \* size: number of slots
          Values,           \* what the producer adds
          Null,             \* NULL
          Junk,             \* what memory nobody wrote holds
          Initial,          \* the entries `values` holds when the queue is initialised
          Posix,            \* TRUE: gcc builtins; FALSE: Interlocked functions
          MaxInt,           \* the largest int
          ProduceTimeouts,  \* the producer's kinds of timeout_ms: zero, finite, infinite
          ConsumeTimeouts,  \* the consumer's
          MaxItems          \* bound: how many entries go in and how many come out

Timeouts == {"zero", "finite", "infinite"}

ASSUME SizeAssumption == Size \in Nat \ {0}
ASSUME ValuesAssumption == Null \notin Values /\ Junk \notin Values
ASSUME InitialAssumption == Initial \in Seq(Values)
ASSUME PosixAssumption == Posix \in BOOLEAN
ASSUME MaxIntAssumption == MaxInt \in Nat /\ Size <= MaxInt
ASSUME TimeoutsAssumption ==
  ProduceTimeouts \subseteq Timeouts /\ ConsumeTimeouts \subseteq Timeouts
ASSUME MaxItemsAssumption == MaxItems \in Nat

VARIABLES count, head, tail,       \* the atomic counters
          slots,                   \* values
          data_ready, space_open,  \* the signals
          ppc, ptimeout, pval,     \* the producer: place, timeout_ms, value,
          ptail, pret,             \*   its local tail, what its latest call returned
          cpc, ctimeout,           \* the consumer: place, timeout_ms,
          chead, cval,             \*   its local head and retval,
          cret,                    \*   what its latest call returned
          sent, got,               \* history: the entries that went in and came out
          early                    \* history: a wait has ended with nothing to go on with

queue == <<count, head, tail, slots, data_ready, space_open>>
producer == <<ppc, ptimeout, pval, ptail, pret>>
consumer == <<cpc, ctimeout, chead, cval, cret>>
vars == <<count, head, tail, slots, data_ready, space_open,
          ppc, ptimeout, pval, ptail, pret,
          cpc, ctimeout, chead, cval, cret, sent, got, early>>

Ints == (-MaxInt - 1)..MaxInt

\* Mutant: a counter that does not overflow.
IntIncUnbounded(i) == i + 1

\* Mutant: a counter that starts again from 0.
IntIncFromZero(i) == IF i = MaxInt THEN 0 ELSE i + 1

\* Two's complement: what thread_atomic_int_inc and thread_atomic_int_dec leave behind.
IntInc(i) == IF i = MaxInt THEN -MaxInt - 1 ELSE i + 1
IntDec(i) == IF i = -MaxInt - 1 THEN MaxInt ELSE i - 1

\* What thread_atomic_int_store leaves behind: __sync_lock_release writes 0.
Stored(desired) == IF Posix THEN 0 ELSE desired

\* i % queue->size: the remainder takes the sign of i.
SlotIndex(i) == IF i >= 0 THEN i % Size ELSE -((-i) % Size)

\* Mutant: count is taken as it is given.
InitialCountUnclamped == Len(Initial)

\* count > size ? size : count
InitialCount == IF Len(Initial) > Size THEN Size ELSE Len(Initial)

Init ==
  /\ slots = [i \in 0..(Size - 1) |-> IF i < InitialCount THEN Initial[i + 1] ELSE Junk]
  /\ data_ready = FALSE /\ space_open = FALSE
  /\ head = Stored(0)
  /\ tail = Stored(InitialCount)
  /\ count = Stored(InitialCount)
  /\ ppc = "idle" /\ ptimeout = "zero" /\ pval = Null /\ ptail = 0 /\ pret = 0
  /\ cpc = "idle" /\ ctimeout = "zero" /\ chead = 0 /\ cval = Null /\ cret = Null
  /\ sent = SubSeq(Initial, 1, InitialCount) /\ got = <<>>
  /\ early = FALSE

-----------------------------------------------------------------------------
(* thread_queue_produce *)

ProduceCall ==
  /\ ppc = "idle" /\ ppc' = "check"
  /\ Len(sent) < MaxItems
  /\ pval' \in Values
  /\ ptimeout' \in ProduceTimeouts
  /\ UNCHANGED <<queue, ptail, pret, consumer, sent, got, early>>

\* Mutant: the queue counts as full one entry too late.
ProduceCheckLate ==
  /\ ppc = "check"
  /\ \/ count # Size + 1 /\ ppc' = "claim" /\ pret' = pret
     \/ count = Size + 1 /\ ptimeout = "zero" /\ ppc' = "refused" /\ pret' = 0
     \/ count = Size + 1 /\ ptimeout # "zero" /\ ppc' = "wait" /\ pret' = pret
  /\ UNCHANGED <<queue, ptimeout, pval, ptail, consumer, sent, got, early>>

ProduceCheck ==
  /\ ppc = "check"
  /\ \/ count # Size /\ ppc' = "claim" /\ pret' = pret
     \/ count = Size /\ ptimeout = "zero" /\ ppc' = "refused" /\ pret' = 0
     \/ count = Size /\ ptimeout # "zero" /\ ppc' = "wait" /\ pret' = pret
  /\ UNCHANGED <<queue, ptimeout, pval, ptail, consumer, sent, got, early>>

\* thread_signal_wait returns 1.
ProduceWake ==
  /\ ppc = "wait" /\ ppc' = "claim"
  /\ space_open /\ space_open' = FALSE
  /\ early' = (early \/ count = Size)
  /\ UNCHANGED <<count, head, tail, slots, data_ready, ptimeout, pval, ptail, pret,
                 consumer, sent, got>>

\* thread_signal_wait returns 0, which nobody looks at.
ProduceTimeout ==
  /\ ppc = "wait" /\ ppc' = "claim"
  /\ ptimeout = "finite"
  /\ early' = (early \/ count = Size)
  /\ UNCHANGED <<queue, ptimeout, pval, ptail, pret, consumer, sent, got>>

ProduceClaim ==
  /\ ppc = "claim" /\ ppc' = "store"
  /\ ptail' = tail
  /\ tail' = IntInc(tail)
  /\ UNCHANGED <<count, head, slots, data_ready, space_open, ptimeout, pval, pret,
                 consumer, sent, got, early>>

\* A store outside the array changes memory that is not the queue's.
ProduceStore ==
  /\ ppc = "store" /\ ppc' = "publish"
  /\ slots' = [i \in 0..(Size - 1) |-> IF i = SlotIndex(ptail) THEN pval ELSE slots[i]]
  /\ UNCHANGED <<count, head, tail, data_ready, space_open, ptimeout, pval, ptail, pret,
                 consumer, sent, got, early>>

\* Mutant: the signal is raised by the value after the increment.
ProducePublishNewValue ==
  /\ ppc = "publish"
  /\ count' = IntInc(count)
  /\ ppc' = IF count' = 0 THEN "raise" ELSE "added"
  /\ pret' = 0
  /\ sent' = Append(sent, pval)
  /\ UNCHANGED <<head, tail, slots, data_ready, space_open, ptimeout, pval, ptail,
                 consumer, got, early>>

ProducePublish ==
  /\ ppc = "publish"
  /\ count' = IntInc(count)
  /\ ppc' = IF count = 0 THEN "raise" ELSE "added"
  /\ pret' = 0
  /\ sent' = Append(sent, pval)
  /\ UNCHANGED <<head, tail, slots, data_ready, space_open, ptimeout, pval, ptail,
                 consumer, got, early>>

ProduceRaise ==
  /\ ppc = "raise" /\ ppc' = "added"
  /\ data_ready' = TRUE
  /\ UNCHANGED <<count, head, tail, slots, space_open, ptimeout, pval, ptail, pret,
                 consumer, sent, got, early>>

ProduceReturn ==
  /\ ppc \in {"added", "refused"} /\ ppc' = "idle"
  /\ UNCHANGED <<queue, ptimeout, pval, ptail, pret, consumer, sent, got, early>>

-----------------------------------------------------------------------------
(* thread_queue_consume *)

ConsumeCall ==
  /\ cpc = "idle" /\ cpc' = "check"
  /\ Len(got) < MaxItems
  /\ ctimeout' \in ConsumeTimeouts
  /\ UNCHANGED <<queue, chead, cval, cret, producer, sent, got, early>>

ConsumeCheck ==
  /\ cpc = "check"
  /\ \/ count # 0 /\ cpc' = "claim" /\ cret' = cret
     \/ count = 0 /\ ctimeout = "zero" /\ cpc' = "done" /\ cret' = Null
     \/ count = 0 /\ ctimeout # "zero" /\ cpc' = "wait" /\ cret' = cret
  /\ UNCHANGED <<queue, ctimeout, chead, cval, producer, sent, got, early>>

\* The wait is THREAD_SIGNAL_WAIT_INFINITE whatever timeout_ms is.
ConsumeWake ==
  /\ cpc = "wait" /\ cpc' = "claim"
  /\ data_ready /\ data_ready' = FALSE
  /\ early' = (early \/ count = 0)
  /\ UNCHANGED <<count, head, tail, slots, space_open, ctimeout, chead, cval, cret,
                 producer, sent, got>>

ConsumeClaim ==
  /\ cpc = "claim" /\ cpc' = "read"
  /\ chead' = head
  /\ head' = IntInc(head)
  /\ UNCHANGED <<count, tail, slots, data_ready, space_open, ctimeout, cval, cret,
                 producer, sent, got, early>>

ConsumeRead ==
  /\ cpc = "read" /\ cpc' = "publish"
  /\ cval' = IF SlotIndex(chead) \in 0..(Size - 1) THEN slots[SlotIndex(chead)] ELSE Junk
  /\ UNCHANGED <<queue, ctimeout, chead, cret, producer, sent, got, early>>

ConsumePublish ==
  /\ cpc = "publish"
  /\ count' = IntDec(count)
  /\ cpc' = IF count = Size THEN "raise" ELSE "done"
  /\ cret' = cval
  /\ got' = Append(got, cval)
  /\ UNCHANGED <<head, tail, slots, data_ready, space_open, ctimeout, chead, cval,
                 producer, sent, early>>

ConsumeRaise ==
  /\ cpc = "raise" /\ cpc' = "done"
  /\ space_open' = TRUE
  /\ UNCHANGED <<count, head, tail, slots, data_ready, ctimeout, chead, cval, cret,
                 producer, sent, got, early>>

ConsumeReturn ==
  /\ cpc = "done" /\ cpc' = "idle"
  /\ UNCHANGED <<queue, ctimeout, chead, cval, cret, producer, sent, got, early>>

-----------------------------------------------------------------------------

ProducerStep ==
  \/ ProduceCheck \/ ProduceWake \/ ProduceTimeout \/ ProduceClaim \/ ProduceStore
  \/ ProducePublish \/ ProduceRaise \/ ProduceReturn

ConsumerStep ==
  \/ ConsumeCheck \/ ConsumeWake \/ ConsumeClaim \/ ConsumeRead
  \/ ConsumePublish \/ ConsumeRaise \/ ConsumeReturn

Next == ProduceCall \/ ConsumeCall \/ ProducerStep \/ ConsumerStep

Spec == Init /\ [][Next]_vars

\* A thread inside a call that can go on does; nobody has to make a call.
FairSpec == Spec /\ WF_vars(ProducerStep) /\ WF_vars(ConsumerStep)

-----------------------------------------------------------------------------

TypeOK ==
  /\ count \in Ints /\ head \in Ints /\ tail \in Ints
  /\ slots \in [0..(Size - 1) -> Values \cup {Null, Junk}]
  /\ data_ready \in BOOLEAN /\ space_open \in BOOLEAN
  /\ ppc \in {"idle", "check", "wait", "claim", "store", "publish", "raise",
              "added", "refused"}
  /\ ptimeout \in Timeouts /\ pval \in Values \cup {Null} /\ ptail \in Ints /\ pret \in {0, 1}
  /\ cpc \in {"idle", "check", "wait", "claim", "read", "publish", "raise", "done"}
  /\ ctimeout \in Timeouts /\ chead \in Ints
  /\ cval \in Values \cup {Null, Junk} /\ cret \in Values \cup {Null, Junk}
  /\ sent \in Seq(Values \cup {Null}) /\ got \in Seq(Values \cup {Null, Junk})
  /\ early \in BOOLEAN

(***************************************************************************)
(* Lines 1413-1422 and 1434-1442: each side tests count, then goes to      *)
(* sleep in a step of its own, and the other side raises its signal only   *)
(* when count leaves the very value it was tested for.  No interleaving    *)
(* loses the wakeup: whoever sleeps does so on a queue that is still full  *)
(* (or empty), or its signal is up, or about to be raised.                 *)
(***************************************************************************)
NoLostWakeup ==
  /\ ppc = "wait" => (count = Size \/ space_open \/ cpc = "raise")
  /\ cpc = "wait" => (count = 0 \/ data_ready \/ ppc = "raise")

(***************************************************************************)
(* As a promise: a producer asleep on a queue with room, and a consumer    *)
(* asleep on a queue with entries, get going again.                        *)
(***************************************************************************)
SleeperWakes ==
  /\ (ppc = "wait" /\ count < Size) ~> (ppc # "wait")
  /\ (cpc = "wait" /\ count > 0) ~> (cpc # "wait")

(***************************************************************************)
(* Lines 1418-1420 and 1439-1441: count, tail and head are three atomic    *)
(* words updated at three moments, and each of them overflows on its own.  *)
(* Modulo the range of an int, count always tells the entries in the queue *)
(* (below zero once a consumer has taken more than there was), and the     *)
(* three agree whenever both sides are between calls.                      *)
(***************************************************************************)
SameInt(i, j) == (i - j) % (2 * MaxInt + 2) = 0

CountersAgree ==
  /\ SameInt(count, Len(sent) - Len(got))
  /\ (ppc = "idle" /\ cpc = "idle") => SameInt(count, tail - head)

\* No wait has ended early, and the counters have not overflowed.
Orderly == ~early /\ Len(sent) <= MaxInt

(***************************************************************************)
(* thread.h:495, 507: the consumer is handed the entries, each once, in    *)
(* the order in which they were added, however the two sides poll, sleep   *)
(* and time out.  It takes a wait that ended on a queue still full (or     *)
(* still empty) to break this, by a timeout or by a signal left up from    *)
(* before (lines 1416, 1421, 1436 and 1441), or 2^31 entries.              *)
(***************************************************************************)
InOrder ==
  /\ Len(got) <= Len(sent)
  /\ \A i \in 1..Len(got) : got[i] = sent[i]

FifoOrder == Orderly => InOrder

(***************************************************************************)
(* Lines 1419 and 1439: the slots are plain memory, written and read with  *)
(* no lock.  The two sides never use one slot at the same time: what keeps *)
(* them apart is that the consumer gives its slot back only after it has   *)
(* read it, and the producer announces its own only after the write.       *)
(***************************************************************************)
NoSlotRace ==
  (Orderly /\ ppc = "store" /\ cpc = "read") => SlotIndex(ptail) # SlotIndex(chead)

(***************************************************************************)
(* thread.h:510-511: "If the queue is empty, the calling thread will sleep *)
(* until an element is added from another thread".  A call that takes an   *)
(* entry out finds one there.                                              *)
(***************************************************************************)
ConsumesOnlyEntries ==
  cpc \in {"read", "publish"} => count > 0

-----------------------------------------------------------------------------
(***************************************************************************)
(* The refinement mapping: count announces an entry and gives its slot     *)
(* back.                                                                   *)
(***************************************************************************)
Queued == SubSeq(sent, Len(got) + 1, Len(sent))

PutPhase ==
  CASE ppc = "idle"              -> "idle"
    [] ppc = "refused"           -> "refused"
    [] ppc \in {"raise", "added"} -> "added"
    [] OTHER                     -> "called"

TakePhase ==
  CASE cpc = "idle"             -> "idle"
    [] cpc \in {"raise", "done"} -> "done"
    [] OTHER                    -> "called"

Fifo == INSTANCE BoundedFifo
          WITH Nothing <- Null, Initial <- SubSeq(Initial, 1, InitialCount),
               buf <- Queued, put <- PutPhase, item <- pval,
               take <- TakePhase, result <- cret

(***************************************************************************)
(* thread.h:1405-1444: the queue is a bounded FIFO buffer, whose produce   *)
(* is turned away only when it is full at that moment and whose consume    *)
(* comes back with NULL only when it is empty at that moment, and into     *)
(* which nothing is put while it is full, nor anything taken from it while *)
(* it is empty, by callers that poll and callers that sleep, until a wait  *)
(* ends early or the counters overflow.                                    *)
(***************************************************************************)
ImplementsFifo ==
  /\ Fifo!Init
  /\ [][~Orderly' \/ Fifo!Next]_(Fifo!vars)
=============================================================================
