-------------------------- MODULE ThreadQueue_proof --------------------------
(* Theorems about ThreadQueue, for any size, values and number of entries. *)
EXTENDS ThreadQueue, TLAPS

-----------------------------------------------------------------------------
(* Types *)

\* The count a queue starts with is an int.
LEMMA InitialCountType ==
  /\ InitialCount \in 0..Size
  /\ InitialCount <= Len(Initial)
BY SizeAssumption, InitialAssumption DEF InitialCount

\* The ints are integers.
LEMMA IntType ==
  /\ 0 \in Ints
  /\ \A i \in Ints : IntInc(i) \in Ints /\ IntDec(i) \in Ints
BY MaxIntAssumption DEF Ints, IntInc, IntDec

\* What init stores into a counter is an int.
LEMMA StoredType == \A n \in 0..Size : Stored(n) \in Ints
BY SizeAssumption, MaxIntAssumption DEF Stored, Ints

\* thread.h:1383-1444: the counters stay ints through every overflow, the slots hold what
\* was put there, and each side is at one place of one call.
THEOREM TypeOKInvariant == Spec => []TypeOK
<1>1. Init => TypeOK
  <2> SUFFICES ASSUME Init PROVE TypeOK
    OBVIOUS
  <2> USE DEF Init
  <2>1. count \in Ints /\ head \in Ints /\ tail \in Ints /\ ptail \in Ints /\ chead \in Ints
    <3>1. InitialCount \in 0..Size /\ 0 \in 0..Size
      BY InitialCountType, SizeAssumption
    <3>2. Stored(InitialCount) \in Ints /\ Stored(0) \in Ints
      BY <3>1, StoredType
    <3>3. QED
      BY <3>2, IntType
  <2>2. slots \in [0..(Size - 1) -> Values \cup {Null, Junk}]
    BY InitialCountType, InitialAssumption, SizeAssumption
  <2>3. sent \in Seq(Values \cup {Null})
    BY InitialCountType, InitialAssumption, SizeAssumption
  <2>4. got \in Seq(Values \cup {Null, Junk})
    OBVIOUS
  <2>5. /\ ppc = "idle" /\ ptimeout \in Timeouts /\ pval = Null /\ pret \in {0, 1}
        /\ cpc = "idle" /\ ctimeout \in Timeouts /\ cval = Null /\ cret = Null
        /\ data_ready \in BOOLEAN /\ space_open \in BOOLEAN /\ early \in BOOLEAN
    BY DEF Timeouts
  <2> HIDE DEF Init
  <2>6. QED
    BY <2>1, <2>2, <2>3, <2>4, <2>5 DEF TypeOK
<1>2. TypeOK /\ [Next]_vars => TypeOK'
  <2> SUFFICES ASSUME TypeOK, [Next]_vars PROVE TypeOK'
    OBVIOUS
  <2> USE TimeoutsAssumption DEF TypeOK, queue, producer, consumer
  <2>1. CASE UNCHANGED vars
    BY <2>1 DEF vars
  <2>2. CASE ProduceCall \/ ConsumeCall
    BY <2>2 DEF ProduceCall, ConsumeCall
  <2>3. CASE ProduceCheck
    BY <2>3 DEF ProduceCheck
  <2>4. CASE ProduceWake \/ ProduceTimeout \/ ConsumeWake
    <3>1. early' \in BOOLEAN
      BY <2>4, ZenonT(60) DEF ProduceWake, ProduceTimeout, ConsumeWake
    <3>2. QED
      BY <2>4, <3>1 DEF ProduceWake, ProduceTimeout, ConsumeWake
  <2>5. CASE ProduceClaim
    BY <2>5, IntType DEF ProduceClaim
  <2>6. CASE ProduceStore
    BY <2>6 DEF ProduceStore
  <2>7. CASE ProducePublish
    BY <2>7, IntType DEF ProducePublish
  <2>8. CASE ProduceRaise \/ ProduceReturn
    BY <2>8 DEF ProduceRaise, ProduceReturn
  <2>9. CASE ConsumeCheck
    BY <2>9 DEF ConsumeCheck
  <2>10. CASE ConsumeClaim
    BY <2>10, IntType DEF ConsumeClaim
  <2>11. CASE ConsumeRead
    BY <2>11 DEF ConsumeRead
  <2>12. CASE ConsumePublish
    BY <2>12, IntType DEF ConsumePublish
  <2>13. CASE ConsumeRaise \/ ConsumeReturn
    BY <2>13 DEF ConsumeRaise, ConsumeReturn
  <2>14. QED
    BY <2>1, <2>2, <2>3, <2>4, <2>5, <2>6, <2>7, <2>8, <2>9, <2>10, <2>11, <2>12, <2>13
    DEF Next, ProducerStep, ConsumerStep
<1>3. QED
  BY <1>1, <1>2, PTL DEF Spec

-----------------------------------------------------------------------------
(* Wakeups *)

\* thread.h:1413-1416, 1420-1421, 1433-1436, 1440-1441: the test of count and the sleep are
\* two steps, and still no wakeup is lost, whatever mix of timeouts the callers use.
THEOREM WakeupsAreKept == Spec => []NoLostWakeup
<1>1. Init => NoLostWakeup
  BY DEF Init, NoLostWakeup
<1>2. TypeOK /\ NoLostWakeup /\ [Next]_vars => NoLostWakeup'
  <2> SUFFICES ASSUME TypeOK, NoLostWakeup, [Next]_vars PROVE NoLostWakeup'
    OBVIOUS
  <2> USE DEF NoLostWakeup, queue, producer, consumer
  <2>1. CASE UNCHANGED vars
    BY <2>1 DEF vars
  <2>2. CASE ProduceCall \/ ConsumeCall
    BY <2>2 DEF ProduceCall, ConsumeCall
  <2>3. CASE ProduceCheck \/ ConsumeCheck
    BY <2>3 DEF ProduceCheck, ConsumeCheck
  <2>4. CASE ProduceWake \/ ConsumeWake \/ ProduceTimeout
    BY <2>4 DEF ProduceWake, ConsumeWake, ProduceTimeout
  <2>5. CASE ProduceClaim \/ ProduceStore \/ ConsumeClaim \/ ConsumeRead
    BY <2>5 DEF ProduceClaim, ProduceStore, ConsumeClaim, ConsumeRead
  \* count was 0 while the consumer slept: the producer goes on to raise data_ready.
  <2>6. CASE ProducePublish
    BY <2>6 DEF ProducePublish
  <2>7. CASE ConsumePublish
    BY <2>7 DEF ConsumePublish
  <2>8. CASE ProduceRaise \/ ProduceReturn
    BY <2>8 DEF ProduceRaise, ProduceReturn
  <2>9. CASE ConsumeRaise \/ ConsumeReturn
    BY <2>9 DEF ConsumeRaise, ConsumeReturn
  <2>10. QED
    BY <2>1, <2>2, <2>3, <2>4, <2>5, <2>6, <2>7, <2>8, <2>9
    DEF Next, ProducerStep, ConsumerStep
<1>3. QED
  BY <1>1, <1>2, TypeOKInvariant, PTL DEF Spec

-----------------------------------------------------------------------------
(* The three counters, through every overflow *)

\* thread_queue_init sets the counters it is asked for: thread_atomic_int_store keeps the
\* value it is given, or the value is 0.
InitKeepsCount == ~Posix \/ InitialCount = 0

\* How many ints there are.
Modulus == 2 * MaxInt + 2

\* There is at least one int, and their number is a natural number.
LEMMA ModulusType == Modulus \in Nat /\ Modulus > 0 /\ MaxInt \in Nat
BY MaxIntAssumption DEF Modulus

\* A number is a multiple of another when its remainder is 0, and only then.
LEMMA MultipleMod ==
  ASSUME NEW m \in Nat, m > 0, NEW k \in Int
  PROVE  (k * m) % m = 0
<1>1. k * m \in Int
  OBVIOUS
<1> DEFINE b == k * m
<1>2. b = k * m /\ b \in Int
  BY <1>1
<1> HIDE DEF b
<1>3. b = m * (b \div m) + (b % m) /\ (b % m) \in 0..(m - 1) /\ (b \div m) \in Int
  BY <1>2
<1> DEFINE d == k - (b \div m)
<1>4. d \in Int /\ m * d = b % m
  <2>1. m * (k - (b \div m)) = m * k - m * (b \div m)
    BY <1>3
  <2>2. QED
    BY <1>2, <1>3, <2>1
<1> HIDE DEF d
<1>5. d \in Int /\ m * d \in Int /\ m * d < m /\ m * d >= 0
  BY <1>3, <1>4, SMTT(60)
<1>6. d < 1
  <2>1. d >= 1 => m * d >= m
    BY <1>5
  <2>2. QED
    BY <1>5, <2>1
<1>7. d > -1
  <2>1. d <= -1 => m * d <= -m
    BY <1>5
  <2>2. QED
    BY <1>5, <2>1
<1>8. d = 0
  BY <1>5, <1>6, <1>7
<1>9. QED
  BY <1>2, <1>4, <1>8

\* Two numbers are the same int when they are a multiple of the number of ints apart.
LEMMA SameIntMultiple ==
  ASSUME NEW i \in Int, NEW j \in Int
  PROVE  SameInt(i, j) <=> \E k \in Int : i - j = k * Modulus
<1>1. ASSUME SameInt(i, j) PROVE \E k \in Int : i - j = k * Modulus
  <2> DEFINE e == i - j
             m == Modulus
  <2>1. e \in Int /\ m \in Nat /\ m > 0 /\ e % m = 0
    BY <1>1, ModulusType DEF SameInt, Modulus
  <2> HIDE DEF e, m
  <2>2. e = m * (e \div m) + (e % m) /\ (e \div m) \in Int
    BY <2>1
  <2>3. e = (e \div m) * m
    BY <2>1, <2>2
  <2>4. QED
    BY <2>2, <2>3 DEF e, m
<1>2. ASSUME NEW k \in Int, i - j = k * Modulus PROVE SameInt(i, j)
  <2>1. (k * Modulus) % Modulus = 0
    BY ModulusType, MultipleMod
  <2>2. QED
    BY <1>2, <2>1 DEF SameInt, Modulus
<1>3. QED
  BY <1>1, <1>2

\* An int is the same as itself, and as what a plain increment or decrement would make of it.
LEMMA SameIntSteps ==
  ASSUME NEW i \in Ints, NEW j \in Int
  PROVE  /\ SameInt(j, j)
         /\ SameInt(i, j) => SameInt(IntInc(i), j + 1)
         /\ SameInt(i, j) => SameInt(IntDec(i), j - 1)
<1>1. i \in Int /\ Modulus \in Int
  BY ModulusType DEF Ints
<1>2. SameInt(j, j)
  <2>1. j - j = 0 * Modulus
    BY <1>1
  <2>2. QED
    BY <2>1, SameIntMultiple
<1>3. ASSUME NEW k \in Int, i - j = k * Modulus
      PROVE  SameInt(IntInc(i), j + 1) /\ SameInt(IntDec(i), j - 1)
  <2>1. /\ IntInc(i) \in Int /\ IntDec(i) \in Int
        /\ IntInc(i) = i + 1 \/ IntInc(i) = i + 1 - Modulus
        /\ IntDec(i) = i - 1 \/ IntDec(i) = i - 1 + Modulus
    BY <1>1, ModulusType DEF IntInc, IntDec, Modulus
  <2>2. k * Modulus - Modulus = (k - 1) * Modulus /\ k * Modulus + Modulus = (k + 1) * Modulus
    BY <1>1
  <2>3. k * Modulus \in Int
    BY <1>1
  <2>4. /\ \/ IntInc(i) - (j + 1) = k * Modulus
           \/ IntInc(i) - (j + 1) = (k - 1) * Modulus
        /\ \/ IntDec(i) - (j - 1) = k * Modulus
           \/ IntDec(i) - (j - 1) = (k + 1) * Modulus
    BY <1>1, <1>3, <2>1, <2>2, <2>3
  <2>5. k - 1 \in Int /\ k + 1 \in Int /\ j + 1 \in Int /\ j - 1 \in Int
    OBVIOUS
  <2>6. QED
    BY <2>1, <2>4, <2>5, SameIntMultiple
<1>4. QED
  BY <1>1, <1>2, <1>3, SameIntMultiple, ZenonT(60)

\* What is the same int as two others tells that those are the same, differences included.
LEMMA SameIntDifference ==
  ASSUME NEW c \in Int, NEW t \in Int, NEW h \in Int, NEW m \in Int, NEW n \in Int,
         SameInt(c, m - n), SameInt(t, m), SameInt(h, n)
  PROVE  SameInt(c, t - h)
<1>1. PICK x \in Int : c - (m - n) = x * Modulus
  BY SameIntMultiple
<1>2. PICK y \in Int : t - m = y * Modulus
  BY SameIntMultiple
<1>3. PICK z \in Int : h - n = z * Modulus
  BY SameIntMultiple
<1>4. Modulus \in Int
  BY ModulusType
<1>5. c - (t - h) = x * Modulus - y * Modulus + z * Modulus
  BY <1>1, <1>2, <1>3, <1>4
<1>6. x * Modulus - y * Modulus + z * Modulus = (x - y + z) * Modulus
  BY <1>4
<1>7. x - y + z \in Int /\ t - h \in Int
  OBVIOUS
<1>8. QED
  BY <1>5, <1>6, <1>7, SameIntMultiple

\* The entries announced and the slots claimed on each side.
ClaimedByProducer == IF ppc \in {"store", "publish"} THEN Len(sent) + 1 ELSE Len(sent)
ClaimedByConsumer == IF cpc \in {"read", "publish"} THEN Len(got) + 1 ELSE Len(got)

\* Each counter counts one thing, as far as an int can.
CountersCount ==
  /\ SameInt(count, Len(sent) - Len(got))
  /\ SameInt(tail, ClaimedByProducer)
  /\ SameInt(head, ClaimedByConsumer)

\* Each step of either side moves each counter with what it counts.
LEMMA CountersStep ==
  ASSUME TypeOK, CountersCount, [Next]_vars
  PROVE  CountersCount'
<1>1. /\ count \in Ints /\ tail \in Ints /\ head \in Ints
      /\ Len(sent) \in Nat /\ Len(got) \in Nat
  BY DEF TypeOK
<1> USE DEF CountersCount, ClaimedByProducer, ClaimedByConsumer
<1>2. CASE UNCHANGED vars
  BY <1>2 DEF vars
<1>3. CASE ProduceCall \/ ConsumeCall
  BY <1>3 DEF ProduceCall, ConsumeCall, queue, producer, consumer
<1>4. CASE ProduceCheck \/ ConsumeCheck
  BY <1>4 DEF ProduceCheck, ConsumeCheck, queue, producer, consumer
<1>5. CASE ProduceWake \/ ProduceTimeout \/ ConsumeWake
  BY <1>5 DEF ProduceWake, ProduceTimeout, ConsumeWake, queue, producer, consumer
<1>6. CASE ProduceClaim
  <2>1. SameInt(tail, Len(sent)) /\ ppc' = "store" /\ tail' = IntInc(tail)
    BY <1>6 DEF ProduceClaim
  <2>2. SameInt(IntInc(tail), Len(sent) + 1)
    BY <1>1, <2>1, SameIntSteps
  <2>3. UNCHANGED <<count, head, cpc, sent, got>>
    BY <1>6 DEF ProduceClaim, consumer
  <2>4. QED
    BY <2>1, <2>2, <2>3
<1>7. CASE ProduceStore \/ ConsumeRead
  BY <1>7 DEF ProduceStore, ConsumeRead, queue, producer, consumer
<1>8. CASE ProducePublish
  <2>1. /\ count' = IntInc(count) /\ Len(sent') = Len(sent) + 1
        /\ ppc = "publish" /\ ppc' \in {"raise", "added"}
        /\ UNCHANGED <<tail, head, cpc, got>>
    BY <1>8 DEF ProducePublish, consumer, TypeOK
  <2>2. SameInt(IntInc(count), (Len(sent) - Len(got)) + 1)
    BY <1>1, SameIntSteps
  <2>3. (Len(sent) - Len(got)) + 1 = Len(sent') - Len(got')
    BY <1>1, <2>1
  <2>4. QED
    BY <2>1, <2>2, <2>3
<1>9. CASE ProduceRaise \/ ProduceReturn \/ ConsumeRaise \/ ConsumeReturn
  BY <1>9 DEF ProduceRaise, ProduceReturn, ConsumeRaise, ConsumeReturn, queue, producer, consumer
<1>10. CASE ConsumeClaim
  <2>1. SameInt(head, Len(got)) /\ cpc' = "read" /\ head' = IntInc(head)
    BY <1>10 DEF ConsumeClaim
  <2>2. SameInt(IntInc(head), Len(got) + 1)
    BY <1>1, <2>1, SameIntSteps
  <2>3. UNCHANGED <<count, tail, ppc, sent, got>>
    BY <1>10 DEF ConsumeClaim, producer
  <2>4. QED
    BY <2>1, <2>2, <2>3
<1>11. CASE ConsumePublish
  <2>1. /\ count' = IntDec(count) /\ Len(got') = Len(got) + 1
        /\ cpc = "publish" /\ cpc' \in {"raise", "done"}
        /\ UNCHANGED <<tail, head, ppc, sent>>
    BY <1>11 DEF ConsumePublish, producer, TypeOK
  <2>2. SameInt(IntDec(count), (Len(sent) - Len(got)) - 1)
    BY <1>1, SameIntSteps
  <2>3. (Len(sent) - Len(got)) - 1 = Len(sent') - Len(got')
    BY <1>1, <2>1
  <2>4. QED
    BY <2>1, <2>2, <2>3
<1>12. QED
  BY <1>2, <1>3, <1>4, <1>5, <1>6, <1>7, <1>8, <1>9, <1>10, <1>11
  DEF Next, ProducerStep, ConsumerStep

\* thread.h:1418-1420, 1439-1441: count, tail and head overflow each on its own, and through
\* every overflow, every interleaving and every wait that timed out count tells the entries
\* in the queue and the three agree between calls, as long as the queue starts with the
\* counters it was asked for.
THEOREM CountersStayTogether ==
  ASSUME InitKeepsCount
  PROVE  Spec => []CountersAgree
<1>1. Init => CountersCount
  <2> SUFFICES ASSUME Init PROVE CountersCount
    OBVIOUS
  <2>1. InitialCount \in 0..Size /\ InitialCount <= Len(Initial) /\ InitialCount \in Int
    BY InitialCountType, SizeAssumption
  <2>2. Stored(InitialCount) = InitialCount /\ Stored(0) = 0
    BY DEF InitKeepsCount, Stored
  <2>3. Len(sent) = InitialCount /\ Len(got) = 0
    BY <2>1, InitialAssumption, SizeAssumption DEF Init
  <2>4. count = InitialCount /\ tail = InitialCount /\ head = 0 /\ ppc = "idle" /\ cpc = "idle"
    BY <2>2 DEF Init
  <2>5. 0 \in Ints /\ InitialCount - 0 = InitialCount
    BY <2>1, IntType
  <2>6. SameInt(InitialCount, InitialCount) /\ SameInt(0, 0)
    BY <2>1, <2>5, SameIntSteps
  <2>7. QED
    BY <2>3, <2>4, <2>5, <2>6 DEF CountersCount, ClaimedByProducer, ClaimedByConsumer
<1>2. TypeOK /\ CountersCount /\ [Next]_vars => CountersCount'
  BY CountersStep
<1>3. TypeOK /\ CountersCount => CountersAgree
  <2> SUFFICES ASSUME TypeOK, CountersCount PROVE CountersAgree
    OBVIOUS
  <2>1. /\ count \in Int /\ tail \in Int /\ head \in Int
        /\ Len(sent) \in Int /\ Len(got) \in Int
    BY MaxIntAssumption DEF TypeOK, Ints
  <2>2. ASSUME ppc = "idle", cpc = "idle" PROVE SameInt(count, tail - head)
    <3>1. SameInt(count, Len(sent) - Len(got)) /\ SameInt(tail, Len(sent)) /\ SameInt(head, Len(got))
      BY <2>2 DEF CountersCount, ClaimedByProducer, ClaimedByConsumer
    <3>2. QED
      BY <2>1, <3>1, SameIntDifference
  <2>3. QED
    BY <2>2 DEF CountersCount, CountersAgree
<1>4. QED
  BY <1>1, <1>2, <1>3, TypeOKInvariant, PTL DEF Spec

-----------------------------------------------------------------------------
(* First in, first out *)

\* The slot of a counter that is not below zero lies in the array.
LEMMA SlotIndexNat ==
  \A i \in Nat : SlotIndex(i) = i % Size /\ i % Size \in 0..(Size - 1)
BY SizeAssumption DEF SlotIndex

\* Two numbers less than Size apart are in different slots.
LEMMA SlotsDiffer ==
  ASSUME NEW i \in Nat, NEW j \in Nat, j < i, i - j < Size
  PROVE  i % Size # j % Size
<1>1. Size \in Nat /\ Size > 0
  BY SizeAssumption
<1>2. /\ i = (Size * (i \div Size)) + (i % Size)
      /\ j = (Size * (j \div Size)) + (j % Size)
      /\ i \div Size \in Int /\ j \div Size \in Int
      /\ i % Size \in Int /\ j % Size \in Int
  BY <1>1
<1>3. SUFFICES ASSUME i % Size = j % Size PROVE FALSE
  OBVIOUS
<1>4. PICK d \in Int : i - j = Size * d
  <2>1. i - j = Size * ((i \div Size) - (j \div Size))
    BY <1>1, <1>2, <1>3
  <2>2. QED
    BY <1>2, <2>1
<1>5. d >= 1
  BY <1>1, <1>4
<1>6. Size * d >= Size
  BY <1>1, <1>5
<1>7. QED
  BY <1>4, <1>6, <1>1

\* count is exact, and stays on the safe side of what each side has tested it for.
CountExact ==
  /\ count = Len(sent) - Len(got) /\ count \in 0..Size
  /\ ppc \in {"claim", "store", "publish"} => count < Size
  /\ cpc \in {"claim", "read", "publish"} => count > 0

\* Each side's counter runs ahead of the history by the slot it has claimed; the last
\* increment of tail may be the one that overflows.
ClaimsExact ==
  /\ tail = IF ppc \in {"store", "publish"} THEN IntInc(Len(sent)) ELSE Len(sent)
  /\ ppc \in {"store", "publish"} => ptail = Len(sent)
  /\ head = IF cpc \in {"read", "publish"} THEN Len(got) + 1 ELSE Len(got)
  /\ cpc \in {"read", "publish"} => chead = Len(got)

\* The slots hold the entries in the queue, and the one about to be announced.
SlotsHold ==
  /\ \A i \in Len(got)..(Len(sent) - 1) : slots[i % Size] = sent[i + 1]
  /\ ppc = "publish" => slots[Len(sent) % Size] = pval
  /\ cpc = "publish" => cval = sent[Len(got) + 1]

\* How things are while no wait has ended early and no counter has overflowed.
Ordered ==
  TypeOK /\ CountExact /\ ClaimsExact /\ SlotsHold /\ InOrder

\* What has gone wrong stays wrong, so that a step to an orderly state is a step from one.
LEMMA OrderlyBefore ==
  ASSUME TypeOK, [Next]_vars, Orderly'
  PROVE  /\ Orderly
         /\ ProduceWake \/ ProduceTimeout => count # Size
         /\ ConsumeWake => count # 0
<1>1. ~early' /\ Len(sent') <= MaxInt
  BY DEF Orderly
<1>2. /\ ProduceWake \/ ProduceTimeout => count # Size
      /\ ConsumeWake => count # 0
  BY <1>1 DEF ProduceWake, ProduceTimeout, ConsumeWake
<1>3. ~early
  BY <1>1 DEF Next, ProducerStep, ConsumerStep, vars, ProduceCall, ProduceCheck, ProduceWake,
     ProduceTimeout, ProduceClaim, ProduceStore, ProducePublish, ProduceRaise, ProduceReturn,
     ConsumeCall, ConsumeCheck, ConsumeWake, ConsumeClaim, ConsumeRead, ConsumePublish,
     ConsumeRaise, ConsumeReturn
<1>4. Len(sent) <= MaxInt
  <2>1. CASE ProducePublish
    <3>1. sent \in Seq(Values \cup {Null}) /\ sent' = Append(sent, pval) /\ MaxInt \in Nat
      BY <2>1, MaxIntAssumption DEF ProducePublish, TypeOK
    <3>2. Len(sent') = Len(sent) + 1 /\ Len(sent) \in Nat
      BY <3>1
    <3>3. QED
      BY <1>1, <3>1, <3>2
  <2>2. CASE ~ProducePublish
    <3>1. sent' = sent
      BY <2>2 DEF Next, ProducerStep, ConsumerStep, vars, ProduceCall, ProduceCheck,
         ProduceWake, ProduceTimeout, ProduceClaim, ProduceStore, ProduceRaise, ProduceReturn,
         ConsumeCall, ConsumeCheck, ConsumeWake, ConsumeClaim, ConsumeRead, ConsumePublish,
         ConsumeRaise, ConsumeReturn
    <3>2. QED
      BY <1>1, <3>1
  <2>3. QED
    BY <2>1, <2>2
<1>5. QED
  BY <1>2, <1>3, <1>4 DEF Orderly

\* It is how things are at the start.
LEMMA OrderedInit ==
  ASSUME InitKeepsCount, Init
  PROVE  CountExact /\ ClaimsExact /\ SlotsHold /\ InOrder
<1> DEFINE n == InitialCount
<1>1. n \in 0..Size /\ n <= Len(Initial) /\ Stored(n) = n /\ Stored(0) = 0
  BY InitialCountType, SizeAssumption DEF InitKeepsCount, Stored
<1>2. Size \in Nat /\ Size > 0 /\ MaxInt \in Nat /\ Size <= MaxInt
  BY SizeAssumption, MaxIntAssumption
<1>3. sent \in Seq(Values) /\ Len(sent) = n /\ \A i \in 1..n : sent[i] = Initial[i]
  BY <1>1, <1>2, InitialAssumption DEF Init
<1>4. got = <<>> /\ Len(got) = 0
  BY DEF Init
<1>5. head = 0 /\ tail = n /\ count = n
  BY <1>1 DEF Init
<1>6. ppc = "idle" /\ cpc = "idle" /\ ptimeout = "zero" /\ ctimeout = "zero"
  BY DEF Init
<1>7. \A i \in 0..(n - 1) : slots[i % Size] = sent[i + 1]
  <2>1. \A i \in 0..(n - 1) : i % Size = i
    BY <1>1, <1>2
  <2>2. \A i \in 0..(n - 1) : slots[i] = Initial[i + 1]
    BY <1>1, <1>2 DEF Init
  <2>3. ASSUME NEW i \in 0..(n - 1)
        PROVE  slots[i % Size] = sent[i + 1]
    <3>1. i % Size = i /\ slots[i] = Initial[i + 1]
      BY <2>1, <2>2
    <3>2. i + 1 \in 1..n
      BY <1>1, <1>2
    <3>3. QED
      BY <1>3, <3>1, <3>2
  <2>4. QED
    BY <2>3
<1>8. CountExact /\ ClaimsExact
  BY <1>1, <1>2, <1>3, <1>4, <1>5, <1>6 DEF CountExact, ClaimsExact
<1>9. SlotsHold /\ InOrder
  BY <1>1, <1>2, <1>3, <1>4, <1>6, <1>7 DEF SlotsHold, InOrder
<1>10. QED
  BY <1>8, <1>9

\* Every step keeps it.
LEMMA OrderedStep ==
  ASSUME Ordered, Orderly, TypeOK', Orderly', [Next]_vars
  PROVE  CountExact' /\ ClaimsExact' /\ SlotsHold' /\ InOrder'
<1>1. /\ Size \in Nat /\ Size > 0 /\ MaxInt \in Nat /\ Size <= MaxInt
  BY SizeAssumption, MaxIntAssumption
<1>2. /\ Len(sent) \in Nat /\ Len(got) \in Nat /\ Len(got) <= Len(sent)
      /\ Len(sent) <= MaxInt /\ Len(sent)' <= MaxInt
  BY DEF Ordered, Orderly, TypeOK, InOrder
<1>3. TypeOK
  BY DEF Ordered
<1> USE <1>1, <1>2 DEF Ordered, CountExact, ClaimsExact, SlotsHold, InOrder
<1>4. CASE UNCHANGED vars
  BY <1>4 DEF vars
<1>5. CASE ProduceCall \/ ConsumeCall
  BY <1>5 DEF ProduceCall, ConsumeCall, queue, producer, consumer
<1>6. CASE ProduceCheck \/ ConsumeCheck
  <2>1. CASE ProduceCheck
    <3>1. /\ ppc = "check" /\ ppc' \in {"claim", "refused", "wait"}
          /\ ppc' = "claim" => count < Size
      <4>1. ppc = "check" /\ (count # Size => count < Size)
        BY <2>1 DEF ProduceCheck
      <4>2. \/ count # Size /\ ppc' = "claim"
            \/ ppc' \in {"refused", "wait"}
        BY <2>1 DEF ProduceCheck
      <4>3. QED
        BY <4>1, <4>2
    <3>2. CountExact' /\ ClaimsExact'
      BY <2>1, <3>1 DEF ProduceCheck, queue, consumer
    <3>3. SlotsHold' /\ InOrder'
      BY <2>1, <3>1 DEF ProduceCheck, queue, consumer
    <3>4. QED
      BY <3>2, <3>3
  <2>2. CASE ConsumeCheck
    BY <2>2 DEF ConsumeCheck, queue, producer
  <2>3. QED
    BY <1>6, <2>1, <2>2
\* A wait that does not end early ends on room, or on an entry.
<1>7. CASE ProduceWake \/ ProduceTimeout \/ ConsumeWake
  <2>1. CASE ProduceWake \/ ProduceTimeout
    <3>1. count # Size
      BY <1>3, <2>1, OrderlyBefore, ZenonT(60)
    <3>2. count < Size
      BY <3>1
    <3>3. QED
      BY <2>1, <3>2 DEF ProduceWake, ProduceTimeout, queue, consumer
  <2>2. CASE ConsumeWake
    <3>1. count # 0
      BY <1>3, <2>2, OrderlyBefore, ZenonT(60)
    <3>2. count > 0
      BY <3>1
    <3>3. QED
      BY <2>2, <3>2 DEF ConsumeWake, queue, producer
  <2>3. QED
    BY <1>7, <2>1, <2>2
<1>8. CASE ProduceRaise \/ ProduceReturn \/ ConsumeRaise \/ ConsumeReturn
  BY <1>8 DEF ProduceRaise, ProduceReturn, ConsumeRaise, ConsumeReturn, queue, producer, consumer
<1>9. CASE ProduceClaim
  <2>1. tail' = IntInc(Len(sent)) /\ ptail' = Len(sent)
    BY <1>9 DEF ProduceClaim
  <2>2. QED
    BY <1>9, <2>1 DEF ProduceClaim, consumer
\* The slot at ptail holds no entry: every entry lies less than Size before it.
<1>10. CASE ProduceStore
  <2>1. SlotIndex(ptail) = Len(sent) % Size /\ Len(sent) % Size \in 0..(Size - 1)
    BY <1>10, SlotIndexNat DEF ProduceStore
  <2>2. ASSUME NEW i \in Len(got)..(Len(sent) - 1)
        PROVE  (i % Size) # (Len(sent) % Size) /\ (i % Size) \in 0..(Size - 1)
    <3>1. i \in Nat /\ i < Len(sent) /\ Len(sent) - i < Size
      BY <1>10 DEF ProduceStore
    <3>2. QED
      BY <3>1, SlotsDiffer, SlotIndexNat
  <2>3. \A i \in Len(got)..(Len(sent) - 1) : slots'[i % Size] = sent[i + 1]
    BY <1>10, <2>1, <2>2 DEF ProduceStore
  <2>4. slots'[Len(sent) % Size] = pval
    BY <1>10, <2>1 DEF ProduceStore
  <2>5. QED
    BY <1>10, <2>3, <2>4 DEF ProduceStore, consumer
<1>11. CASE ProducePublish
  <2>1. count' = count + 1
    BY <1>11 DEF ProducePublish, IntInc
  <2>2. /\ sent' = Append(sent, pval) /\ Len(sent') = Len(sent) + 1
        /\ sent'[Len(sent) + 1] = pval
        /\ \A i \in 1..Len(sent) : sent'[i] = sent[i]
    BY <1>11 DEF ProducePublish, TypeOK
  <2>3. IntInc(Len(sent)) = Len(sent')
    BY <2>2 DEF IntInc
  <2>4. CountExact' /\ ClaimsExact'
    BY <1>11, <2>1, <2>2, <2>3 DEF ProducePublish, consumer
  <2>5. SlotsHold'
    <3>1. ASSUME NEW i \in Len(got)..Len(sent)
          PROVE  slots[i % Size] = sent'[i + 1]
      <4>1. CASE i = Len(sent)
        BY <1>11, <2>2, <4>1 DEF ProducePublish
      <4>2. CASE i # Len(sent)
        <5>1. i \in Len(got)..(Len(sent) - 1) /\ i + 1 \in 1..Len(sent)
          BY <4>2
        <5>2. QED
          BY <2>2, <5>1
      <4>3. QED
        BY <4>1, <4>2
    <3>2. cpc = "publish" => cval = sent'[Len(got) + 1]
      BY <2>2
    <3>3. slots' = slots /\ got' = got /\ cval' = cval /\ cpc' = cpc /\ ppc' # "publish"
      BY <1>11 DEF ProducePublish, consumer
    <3>4. Len(got)'..(Len(sent') - 1) = Len(got)..Len(sent)
      BY <2>2, <3>3
    <3>5. \A i \in Len(got)'..(Len(sent') - 1) : slots'[i % Size] = sent'[i + 1]
      BY <3>1, <3>3, <3>4
    <3>6. QED
      BY <3>2, <3>3, <3>5
  <2>6. InOrder'
    BY <1>11, <2>2 DEF ProducePublish
  <2>7. QED
    BY <2>4, <2>5, <2>6
<1>12. CASE ConsumeClaim
  <2>1. head' = head + 1
    BY <1>12 DEF ConsumeClaim, IntInc
  <2>2. QED
    BY <1>12, <2>1 DEF ConsumeClaim, producer
<1>13. CASE ConsumeRead
  <2>1. SlotIndex(chead) = Len(got) % Size /\ SlotIndex(chead) \in 0..(Size - 1)
    BY <1>13, SlotIndexNat DEF ConsumeRead
  <2>2. cval' = slots[Len(got) % Size]
    BY <1>13, <2>1 DEF ConsumeRead
  <2>3. Len(got) \in Len(got)..(Len(sent) - 1)
    BY <1>13 DEF ConsumeRead
  <2>4. slots[Len(got) % Size] = sent[Len(got) + 1]
    BY <2>3 DEF SlotsHold
  <2>5. QED
    BY <1>13, <2>2, <2>4 DEF ConsumeRead, producer, queue
<1>14. CASE ConsumePublish
  <2>1. count' = count - 1
    BY <1>14 DEF ConsumePublish, IntDec
  <2>2. /\ got' = Append(got, cval) /\ Len(got') = Len(got) + 1
        /\ got'[Len(got) + 1] = cval
        /\ \A i \in 1..Len(got) : got'[i] = got[i]
    BY <1>14 DEF ConsumePublish, TypeOK
  <2>3. CountExact' /\ ClaimsExact'
    BY <1>14, <2>1, <2>2 DEF ConsumePublish, producer
  <2>4. SlotsHold'
    BY <1>14, <2>2 DEF ConsumePublish, producer
  <2>5. InOrder'
    BY <1>14, <2>2 DEF ConsumePublish
  <2>6. QED
    BY <2>3, <2>4, <2>5
<1>15. QED
  BY <1>4, <1>5, <1>6, <1>7, <1>8, <1>9, <1>10, <1>11, <1>12, <1>13, <1>14
  DEF Next, ProducerStep, ConsumerStep

\* While nothing has gone wrong, that is how things are.
LEMMA OrderedInvariant ==
  ASSUME InitKeepsCount
  PROVE  Spec => [](Orderly => Ordered)
<1>1. Init /\ TypeOK => (Orderly => Ordered)
  BY OrderedInit DEF Ordered
<1>2. TypeOK /\ (Orderly => Ordered) /\ TypeOK' /\ [Next]_vars => (Orderly => Ordered)'
  <2> SUFFICES ASSUME TypeOK, Orderly => Ordered, TypeOK', [Next]_vars, Orderly'
               PROVE  Ordered'
    OBVIOUS
  <2>1. Ordered /\ Orderly
    BY OrderlyBefore
  <2>2. QED
    BY <2>1, OrderedStep DEF Ordered
<1>3. QED
  BY <1>1, <1>2, TypeOKInvariant, PTL DEF Spec

\* thread.h:495, 507, 1406-1443: however the two sides interleave, poll, sleep and time out,
\* the consumer is handed the entries in order, each once and none lost, as long as no wait
\* ended on a queue that was still full, or still empty.
THEOREM QueueIsFifo ==
  ASSUME InitKeepsCount
  PROVE  Spec => []FifoOrder
<1>1. (Orderly => Ordered) => FifoOrder
  BY DEF Ordered, FifoOrder
<1>2. QED
  BY <1>1, OrderedInvariant, PTL

\* thread.h:1419, 1439: as long as no wait ended so, the producer never writes the slot that
\* the consumer is reading, although nothing but the order of their steps keeps them apart.
THEOREM SlotsAreNotRaced ==
  ASSUME InitKeepsCount
  PROVE  Spec => []NoSlotRace
<1>1. ASSUME Ordered, ppc = "store", cpc = "read" PROVE SlotIndex(ptail) # SlotIndex(chead)
  <2>1. ptail = Len(sent) /\ chead = Len(got)
    BY <1>1 DEF Ordered, ClaimsExact
  <2>2. Len(sent) \in Nat /\ Len(got) \in Nat /\ Len(got) < Len(sent) /\ Len(sent) - Len(got) < Size
    BY <1>1 DEF Ordered, TypeOK, CountExact
  <2>3. Len(sent) % Size # Len(got) % Size
    BY <2>2, SlotsDiffer
  <2>4. QED
    BY <2>1, <2>2, <2>3, SlotIndexNat
<1>2. (Orderly => Ordered) => NoSlotRace
  BY <1>1 DEF NoSlotRace
<1>3. QED
  BY <1>2, OrderedInvariant, PTL

-----------------------------------------------------------------------------
(* The queue implements the bounded buffer. *)

\* What is left of a sequence without its first m elements.
LEMMA QueuedFacts ==
  ASSUME NEW S, NEW s \in Seq(S), NEW m \in Nat, m <= Len(s)
  PROVE  /\ SubSeq(s, m + 1, Len(s)) \in Seq(S)
         /\ Len(SubSeq(s, m + 1, Len(s))) = Len(s) - m
         /\ \A i \in 1..(Len(s) - m) : SubSeq(s, m + 1, Len(s))[i] = s[m + i]
OBVIOUS

\* A sequence with one element more.
LEMMA AppendFacts ==
  ASSUME NEW S, NEW s \in Seq(S), NEW e \in S
  PROVE  /\ Append(s, e) \in Seq(S)
         /\ Len(Append(s, e)) = Len(s) + 1
         /\ \A i \in 1..Len(s) : Append(s, e)[i] = s[i]
         /\ Append(s, e)[Len(s) + 1] = e
OBVIOUS

\* Two sequences of the same length with the same elements are the same.
LEMMA SameSeq ==
  ASSUME NEW S, NEW s \in Seq(S), NEW t \in Seq(S), Len(s) = Len(t),
         \A i \in 1..Len(s) : s[i] = t[i]
  PROVE  s = t
OBVIOUS

\* Announcing an entry appends it to what is queued.
LEMMA AnnounceQueued ==
  ASSUME Ordered, ProducePublish
  PROVE  Queued' = Append(Queued, pval) /\ Len(Queued) < Size
<1> DEFINE S == Values \cup {Null}
<1>1. /\ sent \in Seq(S) /\ pval \in S /\ Len(got) \in Nat /\ Len(got) <= Len(sent)
      /\ count = Len(sent) - Len(got) /\ count < Size
  BY DEF Ordered, TypeOK, CountExact, InOrder, ProducePublish
<1>2. sent' = Append(sent, pval) /\ got' = got
  BY DEF ProducePublish
<1>3. /\ sent' \in Seq(S) /\ Len(sent') = Len(sent) + 1
      /\ \A i \in 1..Len(sent) : sent'[i] = sent[i]
      /\ sent'[Len(sent) + 1] = pval
  BY <1>1, <1>2
<1>4. /\ Queued \in Seq(S) /\ Len(Queued) = Len(sent) - Len(got)
      /\ \A i \in 1..(Len(sent) - Len(got)) : Queued[i] = sent[Len(got) + i]
  BY <1>1, QueuedFacts DEF Queued
<1>5. /\ Queued' \in Seq(S) /\ Len(Queued') = Len(sent) + 1 - Len(got)
      /\ \A i \in 1..(Len(sent) + 1 - Len(got)) : Queued'[i] = sent'[Len(got) + i]
  <2>1. Len(got) <= Len(sent')
    BY <1>1, <1>3
  <2> HIDE DEF S
  <2>2. QED
    BY <1>1, <1>2, <1>3, <2>1, QueuedFacts DEF Queued
<1>6. /\ Append(Queued, pval) \in Seq(S)
      /\ Len(Append(Queued, pval)) = Len(sent) + 1 - Len(got)
      /\ \A i \in 1..Len(Queued) : Append(Queued, pval)[i] = Queued[i]
      /\ Append(Queued, pval)[Len(Queued) + 1] = pval
  <2>1. Queued \in Seq(S) /\ pval \in S
    BY <1>1, <1>4
  <2> HIDE DEF S
  <2>2. /\ Append(Queued, pval) \in Seq(S)
        /\ Len(Append(Queued, pval)) = Len(Queued) + 1
        /\ \A i \in 1..Len(Queued) : Append(Queued, pval)[i] = Queued[i]
        /\ Append(Queued, pval)[Len(Queued) + 1] = pval
    BY <2>1, AppendFacts
  <2>3. Len(Queued) = Len(sent) - Len(got) /\ Len(sent) \in Nat /\ Len(got) \in Nat
    BY <1>1, <1>4
  <2>4. QED
    BY <2>2, <2>3
<1>7. ASSUME NEW i \in 1..Len(Queued')
      PROVE  Queued'[i] = Append(Queued, pval)[i]
  <2>1. CASE i = Len(Queued) + 1
    <3>1. Queued'[i] = sent'[Len(got) + i]
      BY <1>5
    <3>2. Len(got) + i = Len(sent) + 1
      <4>1. Len(Queued) = Len(sent) - Len(got) /\ Len(sent) \in Nat /\ Len(got) \in Nat
        BY <1>1, <1>4
      <4> HIDE DEF S
      <4>2. QED
        BY <2>1, <4>1
    <3>3. QED
      BY <1>3, <1>6, <2>1, <3>1, <3>2
  <2>2. CASE i # Len(Queued) + 1
    <3>1. i \in 1..Len(Queued) /\ Len(got) + i \in 1..Len(sent)
      <4>1. /\ Len(sent) \in Nat /\ Len(got) \in Nat /\ Len(got) <= Len(sent)
            /\ Len(Queued) = Len(sent) - Len(got)
            /\ Len(Queued') = Len(sent) + 1 - Len(got)
        BY <1>1, <1>4, <1>5
      <4>2. QED
        BY <2>2, <4>1
    <3>2. Queued'[i] = sent'[Len(got) + i]
      BY <1>5
    <3>3. sent'[Len(got) + i] = sent[Len(got) + i]
      BY <1>3, <3>1
    <3>4. QED
      BY <1>4, <1>6, <3>1, <3>2, <3>3
  <2>3. QED
    BY <2>1, <2>2
<1>8. Queued' = Append(Queued, pval)
  <2> HIDE DEF S
  <2>1. QED
    BY <1>5, <1>6, <1>7, SameSeq
<1>9. QED
  BY <1>1, <1>4, <1>8

\* Giving a slot back takes the oldest entry, which is the one that was read.
LEMMA GiveBackQueued ==
  ASSUME Ordered, ConsumePublish
  PROVE  Queued # <<>> /\ cret' = Head(Queued) /\ Queued' = Tail(Queued)
<1> DEFINE S == Values \cup {Null}
<1>1. /\ sent \in Seq(S) /\ Len(got) \in Nat /\ Len(got) < Len(sent)
      /\ cval = sent[Len(got) + 1]
  BY DEF Ordered, TypeOK, CountExact, InOrder, SlotsHold, ConsumePublish
<1>2. sent' = sent /\ Len(got') = Len(got) + 1 /\ cret' = cval
  BY DEF Ordered, TypeOK, ConsumePublish
<1>3. /\ Queued \in Seq(S) /\ Len(Queued) = Len(sent) - Len(got)
      /\ \A i \in 1..(Len(sent) - Len(got)) : Queued[i] = sent[Len(got) + i]
  BY <1>1, QueuedFacts DEF Queued
<1>4. /\ Queued' \in Seq(S) /\ Len(Queued') = Len(sent) - Len(got) - 1
      /\ \A i \in 1..(Len(sent) - Len(got) - 1) : Queued'[i] = sent[Len(got) + 1 + i]
  <2>1. Queued' = SubSeq(sent, (Len(got) + 1) + 1, Len(sent))
    BY <1>2 DEF Queued
  <2>2. Len(got) + 1 \in Nat /\ Len(got) + 1 <= Len(sent)
    BY <1>1
  <2> HIDE DEF S
  <2>3. /\ Queued' \in Seq(S) /\ Len(Queued') = Len(sent) - (Len(got) + 1)
        /\ \A i \in 1..(Len(sent) - (Len(got) + 1)) : Queued'[i] = sent[(Len(got) + 1) + i]
    BY <1>1, <2>1, <2>2, QueuedFacts
  <2>4. QED
    BY <1>1, <2>3
<1>5. Queued # <<>> /\ Head(Queued) = Queued[1]
  BY <1>1, <1>3
<1>6. /\ Tail(Queued) \in Seq(S) /\ Len(Tail(Queued)) = Len(sent) - Len(got) - 1
      /\ \A i \in 1..(Len(sent) - Len(got) - 1) : Tail(Queued)[i] = Queued[i + 1]
  BY <1>1, <1>3, <1>5
<1>7. ASSUME NEW i \in 1..Len(Queued')
      PROVE  Queued'[i] = Tail(Queued)[i]
  <2>1. i \in 1..(Len(sent) - Len(got) - 1) /\ i + 1 \in 1..(Len(sent) - Len(got))
    BY <1>1, <1>4
  <2>2. Queued'[i] = sent[Len(got) + 1 + i] /\ Tail(Queued)[i] = sent[Len(got) + (i + 1)]
    BY <1>3, <1>4, <1>6, <2>1
  <2>3. Len(got) + 1 + i = Len(got) + (i + 1)
    BY <1>1, <2>1
  <2>4. QED
    BY <2>2, <2>3
<1>8. Queued' = Tail(Queued)
  <2> HIDE DEF S
  <2>1. QED
    BY <1>4, <1>6, <1>7, SameSeq
<1>9. cret' = Head(Queued)
  BY <1>1, <1>2, <1>3, <1>5
<1>10. QED
  BY <1>5, <1>8, <1>9

\* The queue starts as the abstract FIFO does.
LEMMA FifoInit == Init => Fifo!Init
<1> SUFFICES ASSUME Init PROVE Fifo!Init
  OBVIOUS
<1>1. sent \in Seq(Values) /\ got = <<>>
  BY InitialCountType, InitialAssumption, SizeAssumption DEF Init
<1>2. Queued = sent
  BY <1>1 DEF Queued
<1>3. QED
  BY <1>2 DEF Init, Fifo!Init, PutPhase, TakePhase

\* Until a wait ends early, every step of the code is a step of the abstract FIFO or none.
LEMMA FifoStep ==
  ASSUME Ordered, Orderly', [Next]_vars
  PROVE  [Fifo!Next]_(Fifo!vars)
<1> DEFINE PutKept == PutPhase' = PutPhase /\ pval' = pval
           TakeKept == TakePhase' = TakePhase /\ cret' = cret
           BufKept == Queued' = Queued
<1>1. PutKept /\ TakeKept /\ BufKept => UNCHANGED Fifo!vars
  BY DEF Fifo!vars
<1>2. UNCHANGED producer => PutKept
  BY DEF producer, PutPhase
<1>3. UNCHANGED consumer => TakeKept
  BY DEF consumer, TakePhase
<1>4. UNCHANGED <<sent, got>> => BufKept
  BY DEF Queued
<1>5. CASE UNCHANGED vars
  BY <1>1, <1>2, <1>3, <1>4, <1>5 DEF vars, producer, consumer
<1>6. Len(Queued) = count /\ (Queued = <<>> <=> count = 0)
  <2>1. sent \in Seq(Values \cup {Null}) /\ Len(got) \in Nat /\ Len(got) <= Len(sent)
        /\ count = Len(sent) - Len(got)
    BY DEF Ordered, TypeOK, CountExact, InOrder
  <2>2. Len(Queued) = count /\ Queued \in Seq(Values \cup {Null})
    BY <2>1, QueuedFacts DEF Queued
  <2>3. QED
    BY <2>2
<1>7. CASE ProduceCall
  BY <1>3, <1>4, <1>7 DEF ProduceCall, PutPhase, Fifo!Next, Fifo!CallPut
<1>8. CASE ProduceCheck
  <2>1. TakeKept /\ BufKept /\ pval' = pval
    BY <1>3, <1>4, <1>8 DEF ProduceCheck
  <2>2. CASE ppc' = "refused"
    BY <1>6, <1>8, <2>1, <2>2 DEF ProduceCheck, PutPhase, Fifo!Next, Fifo!Refuse
  <2>3. CASE ppc' # "refused"
    BY <1>1, <1>8, <2>1, <2>3 DEF ProduceCheck, PutPhase
  <2>4. QED
    BY <2>2, <2>3
<1>9. CASE ProduceWake \/ ProduceTimeout \/ ConsumeWake
  <2>1. BufKept
    BY <1>4, <1>9 DEF ProduceWake, ProduceTimeout, ConsumeWake
  <2>2. PutKept
    BY <1>2, <1>9 DEF ProduceWake, ProduceTimeout, ConsumeWake, PutPhase
  <2>3. TakeKept
    BY <1>3, <1>9 DEF ProduceWake, ProduceTimeout, ConsumeWake, TakePhase
  <2>4. QED
    BY <1>1, <2>1, <2>2, <2>3
<1>10. CASE ProduceClaim \/ ProduceStore \/ ProduceRaise
  <2>1. TakeKept /\ BufKept
    BY <1>3, <1>4, <1>10 DEF ProduceClaim, ProduceStore, ProduceRaise
  <2>2. PutKept
    BY <1>10 DEF ProduceClaim, ProduceStore, ProduceRaise, PutPhase
  <2>3. QED
    BY <1>1, <2>1, <2>2
<1>11. CASE ProducePublish
  <2>1. TakeKept /\ Queued' = Append(Queued, pval) /\ Len(Queued) < Size
    BY <1>3, <1>11, AnnounceQueued DEF ProducePublish
  <2>2. PutPhase = "called" /\ PutPhase' = "added" /\ pval' = pval
    BY <1>11 DEF ProducePublish, PutPhase
  <2>3. QED
    BY <2>1, <2>2 DEF Fifo!Next, Fifo!Put
<1>12. CASE ProduceReturn
  BY <1>3, <1>4, <1>12 DEF ProduceReturn, PutPhase, Fifo!Next, Fifo!ReturnFromPut
<1>13. CASE ConsumeCall
  BY <1>2, <1>4, <1>13 DEF ConsumeCall, TakePhase, Fifo!Next, Fifo!CallTake
<1>14. CASE ConsumeCheck
  <2>1. PutKept /\ BufKept
    BY <1>2, <1>4, <1>14 DEF ConsumeCheck
  <2>2. CASE cpc' = "done"
    BY <1>6, <1>14, <2>1, <2>2 DEF ConsumeCheck, TakePhase, Fifo!Next, Fifo!TakeNothing
  <2>3. CASE cpc' # "done"
    BY <1>1, <1>14, <2>1, <2>3 DEF ConsumeCheck, TakePhase
  <2>4. QED
    BY <2>2, <2>3
<1>15. CASE ConsumeClaim \/ ConsumeRead \/ ConsumeRaise
  <2>1. PutKept /\ BufKept
    BY <1>2, <1>4, <1>15 DEF ConsumeClaim, ConsumeRead, ConsumeRaise
  <2>2. TakeKept
    BY <1>15 DEF ConsumeClaim, ConsumeRead, ConsumeRaise, TakePhase
  <2>3. QED
    BY <1>1, <2>1, <2>2
<1>16. CASE ConsumePublish
  <2>1. PutKept /\ Queued # <<>> /\ cret' = Head(Queued) /\ Queued' = Tail(Queued)
    BY <1>2, <1>16, GiveBackQueued DEF ConsumePublish
  <2>2. TakePhase = "called" /\ TakePhase' = "done"
    BY <1>16 DEF ConsumePublish, TakePhase
  <2>3. QED
    BY <2>1, <2>2 DEF Fifo!Next, Fifo!Take
<1>17. CASE ConsumeReturn
  BY <1>2, <1>4, <1>17 DEF ConsumeReturn, TakePhase, Fifo!Next, Fifo!ReturnFromTake
<1>18. QED
  BY <1>5, <1>7, <1>8, <1>9, <1>10, <1>11, <1>12, <1>13, <1>14, <1>15, <1>16, <1>17
  DEF Next, ProducerStep, ConsumerStep

\* thread.h:1383-1444: until a wait ends early or the counters overflow, the ring of slots
\* and its three counters are a bounded buffer, for callers that poll and callers that
\* sleep: a produce is refused only on a full one, a consume comes back empty-handed only
\* from an empty one, and no entry goes into a full one or comes out of an empty one.
THEOREM QueueImplementsFifo ==
  ASSUME InitKeepsCount
  PROVE  Spec => ImplementsFifo
<1>1. Init => Fifo!Init
  BY FifoInit
<1>2. TypeOK /\ (Orderly => Ordered) /\ [Next]_vars => [~Orderly' \/ Fifo!Next]_(Fifo!vars)
  <2> SUFFICES ASSUME TypeOK, Orderly => Ordered, [Next]_vars, Orderly'
               PROVE  [Fifo!Next]_(Fifo!vars)
    OBVIOUS
  <2>1. Ordered
    BY OrderlyBefore
  <2>2. QED
    BY <2>1, FifoStep
<1>3. QED
  BY <1>1, <1>2, TypeOKInvariant, OrderedInvariant, PTL DEF Spec, ImplementsFifo
=============================================================================
