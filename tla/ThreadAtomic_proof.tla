-------------------------- MODULE ThreadAtomic_proof --------------------------
(* Theorems about ThreadAtomic, for any threads, operations and widths. *)
EXTENDS ThreadAtomic, TLAPS

\* Overflow ends in range, and a number in range is itself.
LEMMA WrapRange ==
  ASSUME NEW max \in Nat, NEW i \in Int
  PROVE  /\ WrapTo(i, max) \in (-max - 1)..max
         /\ i \in (-max - 1)..max => WrapTo(i, max) = i
<1>1. 2 * max + 2 \in Nat /\ 2 * max + 2 > 0
  OBVIOUS
<1>2. (i + max + 1) % (2 * max + 2) \in 0..(2 * max + 1)
  BY <1>1
<1>3. ASSUME i \in (-max - 1)..max
      PROVE  (i + max + 1) % (2 * max + 2) = i + max + 1
  <2>1. i + max + 1 \in 0..(2 * max + 1)
    BY <1>3
  <2>2. QED
    BY <1>1, <2>1
<1>4. WrapTo(i, max) = ((i + max + 1) % (2 * max + 2)) - max - 1
  BY DEF WrapTo
<1>5. QED
  BY <1>2, <1>3, <1>4

\* The bounds of the words and of the ints of their width.
LEMMA WidthFacts ==
  ASSUME posix \in BOOLEAN
  PROVE  /\ MaxInt \in Nat /\ MaxCell \in Nat
         /\ Ints \subseteq Words /\ Ints \subseteq Int /\ Words \subseteq Int /\ 0 \in Ints
         /\ \A i \in Int : WrapTo(i, MaxCell) \in Words /\ ToInt(i) \in Ints
<1>1. MaxInt \in Nat /\ MaxCell \in Nat /\ MaxCell >= MaxInt
  BY MaxIntAssumption, MaxWordAssumption DEF MaxCell
<1>2. QED
  BY <1>1, WrapRange DEF Ints, Words, ToInt

\* What every operation of one instruction has in common.
LEMMA FetchTypeOK ==
  ASSUME TypeOK, NEW t \in Threads, NEW kind, NEW w \in Words, NEW next \in {"done", "exchanged"},
         Fetch(t, kind, w, next)
  PROVE  TypeOK'
<1>1. ToInt(word) \in Ints
  BY WidthFacts DEF TypeOK
<1>2. QED
  BY <1>1 DEF TypeOK, Fetch, cell, Words, MaxCell

\* thread.h:1030-1231: the cell stays in the range of its type through every overflow, and
\* what a function returns is always an int.
THEOREM TypeOKInvariant == Spec => []TypeOK
<1>1. Init => TypeOK
  BY WidthFacts, PlatformsAssumption, TypesAssumption DEF Init, TypeOK, Words, MaxCell
<1>2. TypeOK /\ [Next]_vars => TypeOK'
  <2> SUFFICES ASSUME TypeOK, [Next]_vars PROVE TypeOK'
    OBVIOUS
  <2>1. CASE UNCHANGED vars
    BY <2>1 DEF vars, TypeOK, Words, MaxCell
  <2>2. ASSUME NEW t \in Threads, Call(t) PROVE TypeOK'
    BY <2>2 DEF Call, cell, TypeOK, Words, MaxCell
  <2>3. ASSUME NEW t \in Threads, Step(t) PROVE TypeOK'
    <3>1. /\ word \in Words /\ word \in Int
          /\ op[t].arg \in Words /\ op[t].arg \in Int /\ op[t].expected \in Int
      <4>1. op[t] \in [kind : IntKinds, arg : Ints, expected : Ints]
        BY OperationsAssumption DEF TypeOK
      <4>2. QED
        BY <4>1, WidthFacts DEF TypeOK
    <3>2. CASE Load(t)
      BY <3>1, <3>2, FetchTypeOK DEF Load
    <3>3. CASE Inc(t) \/ Dec(t)
      <4>1. WrapTo(word + 1, MaxCell) \in Words /\ WrapTo(word - 1, MaxCell) \in Words
        BY <3>1, WidthFacts DEF TypeOK
      <4>2. QED
        BY <3>3, <4>1, FetchTypeOK DEF Inc, Dec
    <3>4. CASE Add(t) \/ Sub(t)
      <4>1. /\ WrapTo(word + op[t].arg, MaxCell) \in Words
            /\ WrapTo(word - op[t].arg, MaxCell) \in Words
        BY <3>1, WidthFacts DEF TypeOK
      <4>2. QED
        BY <3>4, <4>1, FetchTypeOK DEF Add, Sub
    <3>5. CASE Store(t) \/ Swap(t)
      BY <3>1, <3>5, FetchTypeOK DEF Store, Swap
    <3>6. CASE CompareAndSwap(t)
      BY <3>1, <3>6, FetchTypeOK DEF CompareAndSwap
    <3>7. CASE Release(t)
      BY <3>7, WidthFacts DEF Release, cell, TypeOK, Words, MaxCell
    <3>8. CASE Return(t)
      BY <3>8 DEF Return, cell, TypeOK, Words, MaxCell
    <3>9. QED
      BY <2>3, <3>2, <3>3, <3>4, <3>5, <3>6, <3>7, <3>8 DEF Step
  <2>4. QED
    BY <2>1, <2>2, <2>3 DEF Next
<1>3. QED
  BY <1>1, <1>2, PTL DEF Spec

-----------------------------------------------------------------------------
(* Arithmetic in two widths *)

\* Quotient and remainder are unique.
LEMMA ModUnique ==
  ASSUME NEW m \in Nat, m > 0, NEW q \in Int, NEW d \in Int, NEW r \in 0..(m - 1), NEW s \in 0..(m - 1),
         q * m + r = d * m + s
  PROVE  r = s
<1>1. (q - d) * m = s - r
  OBVIOUS
<1>2. CASE q - d >= 1
  <2>1. (q - d) * m >= m
    BY <1>2
  <2>2. QED
    BY <1>1, <2>1
<1>3. CASE q - d <= -1
  <2>1. (q - d) * m <= -m
    BY <1>3
  <2>2. QED
    BY <1>1, <2>1
<1>4. CASE q = d
  BY <1>4
<1>5. QED
  BY <1>2, <1>3, <1>4

\* A multiple of the modulus changes nothing.
LEMMA ModShift ==
  ASSUME NEW m \in Nat, m > 0, NEW a \in Int, NEW k \in Int
  PROVE  (a + k * m) % m = a % m
<1>0. k * m \in Int /\ a + k * m \in Int
  OBVIOUS
<1> DEFINE b == a + k * m
<1>1. a = (a \div m) * m + (a % m) /\ (a % m) \in 0..(m - 1) /\ (a \div m) \in Int
  OBVIOUS
<1>2. b \in Int
  BY <1>0
<1> HIDE DEF b
<1>3. b = (b \div m) * m + (b % m) /\ (b % m) \in 0..(m - 1) /\ (b \div m) \in Int
  BY <1>2
<1>4. (b \div m) * m + (b % m) = (a \div m + k) * m + (a % m)
  <2>1. (a \div m + k) * m = (a \div m) * m + k * m
    BY <1>1
  <2>2. QED
    BY <1>0, <1>1, <1>3, <2>1 DEF b
<1>5. (a \div m) + k \in Int
  BY <1>1
<1>6. b % m = a % m
  BY <1>1, <1>3, <1>4, <1>5, ModUnique
<1>7. QED
  BY <1>6 DEF b

\* Wrapping a number to a word moves it by whole words.
LEMMA WrapAddsMultiple ==
  ASSUME NEW max \in Nat, NEW i \in Int
  PROVE  \E q \in Int : WrapTo(i, max) = i + q * (2 * max + 2)
<1> DEFINE m == 2 * max + 2
           a == i + max + 1
<1>1. m \in Nat /\ m > 0 /\ a \in Int
  OBVIOUS
<1>2. WrapTo(i, max) = (a % m) - max - 1
  BY DEF WrapTo
<1>3. i = a - max - 1
  OBVIOUS
<1> HIDE DEF m, a
<1>4. a = (a \div m) * m + (a % m) /\ (a \div m) \in Int /\ (a % m) \in Int
  BY <1>1
<1>5. (-(a \div m)) * m = -((a \div m) * m) /\ -(a \div m) \in Int
  BY <1>1, <1>4
<1>6. WrapTo(i, max) = i + (-(a \div m)) * m
  <2>1. (a \div m) * m \in Int
    BY <1>1, <1>4
  <2>2. QED
    BY <1>1, <1>2, <1>3, <1>4, <1>5, <2>1
<1>7. QED
  BY <1>5, <1>6 DEF m

\* A word and that word moved by whole words are the same int.
LEMMA ToIntShift ==
  ASSUME NEW i \in Int, NEW k \in Int
  PROVE  ToInt(i + k * (2 * MaxInt + 2)) = ToInt(i)
<1> DEFINE m == 2 * MaxInt + 2
           a == i + MaxInt + 1
<1>1. m \in Nat /\ m > 0 /\ a \in Int /\ k * m \in Int /\ MaxInt \in Int
  BY MaxIntAssumption
<1>2. (a + k * m) % m = a % m
  <2> HIDE DEF m, a
  <2>1. QED
    BY <1>1, ModShift
<1>3. (i + k * m) + MaxInt + 1 = a + k * m
  BY <1>1
<1>4. QED
  BY <1>2, <1>3 DEF ToInt, WrapTo

\* The word is a whole number of ints wide.
LEMMA WholeInts == \E k \in Int : 2 * MaxWord + 2 = k * (2 * MaxInt + 2)
<1> DEFINE m == 2 * MaxInt + 2
           a == 2 * MaxWord + 2
<1>1. m \in Nat /\ m > 0 /\ a \in Int /\ (a % m) = 0
  BY MaxIntAssumption, MaxWordAssumption, WidthAssumption
<1>2. a = (a \div m) * m /\ (a \div m) \in Int
  <2> HIDE DEF m, a
  <2>1. a = (a \div m) * m + (a % m) /\ (a \div m) \in Int
    BY <1>1
  <2>2. QED
    BY <1>1, <2>1
<1>3. QED
  BY <1>2

\* An int of a wrapped sum does not depend on where it was wrapped.
LEMMA ToIntOfSum ==
  ASSUME posix \in BOOLEAN, NEW w \in Int, NEW d \in Int
  PROVE  ToInt(WrapTo(w + d, MaxCell)) = Cell!Wrap(ToInt(w) + d)
<1> DEFINE m == 2 * MaxInt + 2
<1>1. MaxInt \in Nat /\ MaxCell \in Nat /\ m \in Int /\ w + d \in Int
  BY WidthFacts
<1>2. PICK k \in Int : 2 * MaxCell + 2 = k * m
  <2>1. CASE posix /\ type = "int"
    BY <2>1, WholeInts DEF MaxCell
  <2>2. CASE ~(posix /\ type = "int")
    BY <2>2, <1>1 DEF MaxCell
  <2>3. QED
    BY <2>1, <2>2
<1>3. PICK q \in Int : WrapTo(w + d, MaxCell) = (w + d) + q * (2 * MaxCell + 2)
  BY <1>1, WrapAddsMultiple
<1>4. q * (k * m) = (q * k) * m /\ q * k \in Int
  BY <1>1, <1>2, <1>3
<1>5. ToInt(WrapTo(w + d, MaxCell)) = ToInt(w + d)
  <2>1. ToInt((w + d) + (q * k) * m) = ToInt(w + d)
    BY <1>1, <1>4, ToIntShift
  <2>2. QED
    BY <2>1, <1>2, <1>3, <1>4
<1>6. PICK p \in Int : ToInt(w) = w + p * m
  BY <1>1, WrapAddsMultiple DEF ToInt
<1>7. ToInt(w) + d = (w + d) + p * m
  <2>1. p * m \in Int
    BY <1>1, <1>6
  <2>2. QED
    BY <1>6, <2>1
<1>8. ToInt(ToInt(w) + d) = ToInt(w + d)
  <2>1. ToInt((w + d) + p * m) = ToInt(w + d)
    BY <1>1, <1>6, ToIntShift
  <2>2. QED
    BY <2>1, <1>7
<1>9. QED
  BY <1>5, <1>8 DEF ToInt, WrapTo, Cell!Wrap

-----------------------------------------------------------------------------
(* Atomicity *)

\* The steps of the cell, and the two kinds of step it has not.
CellOrException ==
  (\E t \in Threads : Release(t) \/ WideCompare(t)) \/ Cell!Next

\* Every step of the code is a step of the abstract cell or none.
LEMMA CellStep ==
  ASSUME TypeOK, TypeOK', [Next]_vars
  PROVE  [CellOrException]_(Cell!vars)
<1> DEFINE phase == [t \in Threads |-> IF pc[t] = "exchanged" THEN "done" ELSE pc[t]]
<1>1. CASE UNCHANGED vars
  BY <1>1 DEF vars, Cell!vars, ToInt
<1>2. ASSUME NEW t \in Threads, Call(t) PROVE Cell!Call(t)
  <2>1. phase[t] = "idle" /\ phase' = [phase EXCEPT ![t] = "called"]
    BY <1>2 DEF Call, TypeOK
  <2>2. QED
    BY <1>2, <2>1 DEF Call, Cell!Call, ToInt
<1>3. ASSUME NEW t \in Threads, Return(t) PROVE Cell!Return(t)
  <2>1. phase[t] = "done" /\ phase' = [phase EXCEPT ![t] = "idle"]
    BY <1>3 DEF Return, TypeOK
  <2>2. QED
    BY <1>3, <2>1 DEF Return, Cell!Return, ToInt
<1>4. ASSUME NEW t \in Threads, NEW kind, NEW w, NEW next \in {"done", "exchanged"},
             Fetch(t, kind, w, next), ToInt(w) = Cell!After(op[t], ToInt(word))
      PROVE  Cell!TakeEffect(t)
  <2>1. phase[t] = "called" /\ phase' = [phase EXCEPT ![t] = "done"]
    BY <1>4 DEF Fetch, TypeOK
  <2>2. ToInt(word)' = ToInt(w)
    BY <1>4 DEF Fetch, ToInt
  <2>3. QED
    BY <1>4, <2>1, <2>2 DEF Fetch, Cell!TakeEffect
<1>5. ASSUME NEW t \in Threads, Step(t) PROVE CellOrException
  <2>1. /\ word \in Int /\ op[t].arg \in Int /\ op[t].arg \in Ints
        /\ \A i \in Ints : ToInt(i) = i
    <3>1. op[t] \in [kind : IntKinds, arg : Ints, expected : Ints]
      BY OperationsAssumption DEF TypeOK
    <3>2. QED
      BY <3>1, MaxIntAssumption, WidthFacts, WrapRange DEF TypeOK, Ints, ToInt
  <2>2. CASE Load(t)
    BY <1>4, <2>2 DEF Load, Fetch, Cell!After, CellOrException, Cell!Next
  <2>3. CASE Inc(t) \/ Dec(t)
    <3>1. /\ ToInt(WrapTo(word + 1, MaxCell)) = Cell!Wrap(ToInt(word) + 1)
          /\ ToInt(WrapTo(word - 1, MaxCell)) = Cell!Wrap(ToInt(word) - 1)
      <4>1. word + (-1) = word - 1 /\ ToInt(word) + (-1) = ToInt(word) - 1
        BY <2>1, WidthFacts DEF TypeOK
      <4>2. QED
        BY <2>1, <4>1, ToIntOfSum DEF TypeOK
    <3>2. CASE Inc(t)
      BY <1>4, <3>1, <3>2 DEF Inc, Fetch, Cell!After, CellOrException, Cell!Next
    <3>3. CASE Dec(t)
      BY <1>4, <3>1, <3>3 DEF Dec, Fetch, Cell!After, CellOrException, Cell!Next
    <3>4. QED
      BY <2>3, <3>2, <3>3
  <2>4. CASE Add(t) \/ Sub(t)
    <3>1. /\ ToInt(WrapTo(word + op[t].arg, MaxCell)) = Cell!Wrap(ToInt(word) + op[t].arg)
          /\ ToInt(WrapTo(word - op[t].arg, MaxCell)) = Cell!Wrap(ToInt(word) - op[t].arg)
      <4>1. /\ word + (-op[t].arg) = word - op[t].arg /\ -op[t].arg \in Int
            /\ ToInt(word) + (-op[t].arg) = ToInt(word) - op[t].arg
        BY <2>1, WidthFacts DEF TypeOK
      <4>2. QED
        BY <2>1, <4>1, ToIntOfSum DEF TypeOK
    <3>2. CASE Add(t)
      BY <1>4, <3>1, <3>2 DEF Add, Fetch, Cell!After, CellOrException, Cell!Next
    <3>3. CASE Sub(t)
      BY <1>4, <3>1, <3>3 DEF Sub, Fetch, Cell!After, CellOrException, Cell!Next
    <3>4. QED
      BY <2>4, <3>2, <3>3
  <2>5. CASE Store(t) \/ Swap(t)
    BY <1>4, <2>1, <2>5 DEF Store, Swap, Fetch, Cell!After, CellOrException, Cell!Next
  <2>6. CASE CompareAndSwap(t)
    <3>1. CASE word \in Ints
      BY <1>4, <2>1, <2>6, <3>1 DEF CompareAndSwap, Fetch, Cell!After, CellOrException, Cell!Next
    <3>2. CASE word \notin Ints
      BY <2>6, <3>2 DEF WideCompare, CellOrException
    <3>3. QED
      BY <3>1, <3>2
  <2>7. CASE Release(t)
    BY <2>7 DEF CellOrException
  <2>8. CASE Return(t)
    BY <1>3, <2>8 DEF CellOrException, Cell!Next
  <2>9. QED
    BY <1>5, <2>2, <2>3, <2>4, <2>5, <2>6, <2>7, <2>8 DEF Step
<1>6. QED
  BY <1>1, <1>2, <1>5 DEF Next, Cell!Next, CellOrException

\* thread.h:1030-1231: on either platform every mix of operations of any threads is atomic
\* on the int they share, through overflow and on a cell wider than an int, but for the
\* second write of a gcc store or swap and the compare of a word that is no int.
THEOREM OperationsAreAtomic == Spec => ImplementsCell
<1>1. Init => Cell!Init
  <2>1. ToInt(0) = 0
    BY MaxIntAssumption, WrapRange DEF ToInt
  <2>2. QED
    BY <2>1 DEF Init, Cell!Init
<1>2. TypeOK /\ TypeOK' /\ [Next]_vars => [CellOrException]_(Cell!vars)
  BY CellStep
<1>3. QED
  BY <1>1, <1>2, TypeOKInvariant, PTL DEF Spec, ImplementsCell, CellOrException

=============================================================================
