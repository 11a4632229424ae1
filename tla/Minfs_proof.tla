----------------------------- MODULE Minfs_proof -----------------------------
(* Theorems about Minfs, for any programs, paths, leaves and size of buffer. *)
EXTENDS Minfs, SequenceTheorems, WellFoundedInduction, TLAPS

-----------------------------------------------------------------------------
(* Looking for a byte. *)

\* A set of numbers that is not empty has a least one.
LEMMA LeastExists ==
  ASSUME NEW S, S \subseteq Nat, S # {}
  PROVE  \E m \in S : \A n \in S : m <= n
<1>1. PICK m \in S : \A n \in S : ~(<<n, m>> \in OpToRel(<, Nat))
  BY NatLessThanWellFounded, WFMin
<1>2. ASSUME NEW n \in S PROVE m <= n
  <2>1. n \in Nat /\ m \in Nat /\ <<n, m>> \in Nat \X Nat
    OBVIOUS
  <2>2. ~(n < m)
    BY <1>1, <2>1 DEF OpToRel
  <2>3. QED
    BY <2>1, <2>2
<1>3. QED
  BY <1>2

LEMMA MinFacts ==
  ASSUME NEW n \in Nat, NEW I \in SUBSET (1..n), I # {}
  PROVE  Min(I) \in 1..n /\ Min(I) \in I
<1>1. \E m \in I : \A j \in I : m <= j
  <2>1. I \subseteq Nat
    OBVIOUS
  <2>2. QED
    BY <2>1, LeastExists
<1>2. \E m \in I : \A j \in I : m =< j
  BY <1>1
<1>3. Min(I) \in I
  BY <1>2 DEF Min
<1>4. QED
  BY <1>3

\* So has one that is bounded a greatest one.
LEMMA MaxFacts ==
  ASSUME NEW n \in Nat, NEW I \in SUBSET (1..n), I # {}
  PROVE  Max(I) \in 1..n /\ Max(I) \in I /\ \A j \in I : j <= Max(I)
<1> DEFINE S == {n - i : i \in I}
<1>1. PICK m \in S : \A k \in S : m <= k
  <2>1. S \subseteq Nat /\ S # {}
    OBVIOUS
  <2> HIDE DEF S
  <2>2. QED
    BY <2>1, LeastExists
<1>2. PICK i \in I : m = n - i
  BY <1>1
<1>3. \A j \in I : i >= j
  <2>1. ASSUME NEW j \in I PROVE i >= j
    <3>1. n - j \in S
      OBVIOUS
    <3>2. n - i <= n - j
      BY <1>1, <1>2, <3>1
    <3>3. i \in Int /\ j \in Int
      OBVIOUS
    <3>4. QED
      BY <3>2, <3>3
  <2>2. QED
    BY <2>1
<1>4. Max(I) \in I /\ \A j \in I : Max(I) >= j
  BY <1>3 DEF Max
<1>5. QED
  BY <1>4

\* LastOf finds the last one, and 0 where there is none.
LEMMA LastOfFacts ==
  ASSUME NEW s \in Strings, NEW byte
  PROVE  /\ LastOf(s, byte) \in 0..Len(s)
         /\ LastOf(s, byte) # 0 => s[LastOf(s, byte)] = byte
         /\ \A j \in (LastOf(s, byte) + 1)..Len(s) : s[j] # byte
<1> DEFINE I == {i \in 1..Len(s) : s[i] = byte}
<1>1. LastOf(s, byte) = IF I # {} THEN Max(I) ELSE 0
  BY DEF LastOf, SelectLastInSeq
<1>2. Len(s) \in Nat /\ I \in SUBSET (1..Len(s))
  BY DEF Strings
<1>3. I # {} => Max(I) \in 1..Len(s) /\ Max(I) \in I /\ \A j \in I : j <= Max(I)
  <2> HIDE DEF I
  <2>1. QED
    BY <1>2, MaxFacts
<1>4. CASE I = {}
  BY <1>1, <1>2, <1>4
<1>5. CASE I # {}
  <2> DEFINE k == LastOf(s, byte)
  <2>1. k \in 1..Len(s) /\ k \in I /\ \A j \in I : j <= k
    BY <1>1, <1>3, <1>5
  <2> HIDE DEF k
  <2>2. s[k] = byte /\ k \in 0..Len(s) /\ k \in Nat
    BY <1>2, <2>1
  <2>3. ASSUME NEW j \in (k + 1)..Len(s) PROVE s[j] # byte
    BY <1>2, <2>1, <2>2
  <2>4. QED
    BY <2>2, <2>3 DEF k
<1>6. QED
  BY <1>4, <1>5

LEMMA LastOfIs ==
  ASSUME NEW s \in Strings, NEW byte, NEW k \in 0..Len(s),
         k # 0 => s[k] = byte, \A j \in (k + 1)..Len(s) : s[j] # byte
  PROVE  LastOf(s, byte) = k
<1>1. Len(s) \in Nat
  BY DEF Strings
<1>2. PICK m : m = LastOf(s, byte)
  OBVIOUS
<1>3. m \in 0..Len(s) /\ (m # 0 => s[m] = byte) /\ \A j \in (m + 1)..Len(s) : s[j] # byte
  BY <1>2, LastOfFacts
<1>4. ~(m < k) /\ ~(k < m)
  BY <1>1, <1>3
<1>5. QED
  BY <1>2, <1>3, <1>4

-----------------------------------------------------------------------------
(* What the path functions write. *)

LEMMA SlashedFacts ==
  ASSUME NEW s \in Strings
  PROVE  /\ Slashed(s) \in Strings /\ Len(Slashed(s)) = Len(s) /\ Len(s) \in Nat
         /\ \A i \in 1..Len(s) : Slashed(s)[i] = IF s[i] = "\\" THEN "/" ELSE s[i]
<1>1. Len(s) \in Nat /\ \A i \in 1..Len(s) : s[i] \in Bytes
  BY DEF Strings
<1> DEFINE f == [i \in 1..Len(s) |-> IF s[i] = "\\" THEN "/" ELSE s[i]]
<1>2. f \in [1..Len(s) -> Bytes]
  BY <1>1, BytesAssumption
<1>3. f \in Seq(Bytes) /\ Len(f) = Len(s)
  <2> HIDE DEF f
  <2>1. QED
    BY <1>1, <1>2
<1>4. QED
  BY <1>1, <1>3 DEF Slashed, Strings

\* A result that a buffer of size bytes has room for.
Fits(result, size) ==
  result.path \in Strings /\ result.wrote \in Nat /\ result.wrote <= size

LEMMA NoMemFits ==
  ASSUME NEW size \in Nat
  PROVE  Fits(NoMem, size)
<1>1. <<>> \in Strings
  BY EmptySeq DEF Strings
<1>2. QED
  BY <1>1 DEF Fits, NoMem

LEMMA WrittenFits ==
  ASSUME NEW size \in Nat, NEW s \in Strings, Len(s) + 1 <= size
  PROVE  Fits(Written(s), size)
<1>1. Len(s) \in Nat
  BY DEF Strings
<1>2. QED
  BY <1>1 DEF Fits, Written

LEMMA PartFacts ==
  ASSUME NEW s \in Strings, NEW m \in 1..(Len(s) + 1), NEW n \in 0..Len(s)
  PROVE  /\ SubSeq(s, m, n) \in Strings
         /\ Len(SubSeq(s, m, n)) = IF m <= n THEN n - m + 1 ELSE 0
         /\ \A i \in 1..(n - m + 1) : SubSeq(s, m, n)[i] = s[m + i - 1]
<1>1. Len(s) \in Nat /\ \A i \in m..n : s[i] \in Bytes
  BY DEF Strings
<1>2. /\ SubSeq(s, m, n) \in Seq(Bytes)
      /\ Len(SubSeq(s, m, n)) = IF m <= n THEN n - m + 1 ELSE 0
      /\ \A i \in 1..(n - m + 1) : SubSeq(s, m, n)[i] = s[m + i - 1]
  BY <1>1, SubSeqProperties DEF Strings
<1>3. QED
  BY <1>2 DEF Strings

LEMMA StartFacts ==
  ASSUME NEW s \in Strings, NEW n \in 0..Len(s)
  PROVE  /\ Len(s) \in Nat /\ SubSeq(s, 1, n) \in Strings /\ Len(SubSeq(s, 1, n)) = n
         /\ \A i \in 1..n : SubSeq(s, 1, n)[i] = s[i]
<1>1. Len(s) \in Nat
  BY DEF Strings
<1>2. 1 \in 1..(Len(s) + 1) /\ n - 1 + 1 = n /\ \A i \in 1..n : 1 + i - 1 = i
  BY <1>1
<1>3. /\ SubSeq(s, 1, n) \in Strings
      /\ Len(SubSeq(s, 1, n)) = IF 1 <= n THEN n - 1 + 1 ELSE 0
      /\ \A i \in 1..(n - 1 + 1) : SubSeq(s, 1, n)[i] = s[1 + i - 1]
  BY <1>2, PartFacts
<1>4. QED
  BY <1>1, <1>2, <1>3

LEMMA FirstBytesFit ==
  ASSUME NEW size \in Nat, NEW s \in Strings, NEW n \in 0..Len(s)
  PROVE  Fits(FirstBytes(s, n, size), size)
<1>1. Len(s) \in Nat /\ SubSeq(s, 1, n) \in Strings /\ Len(SubSeq(s, 1, n)) = n
  BY StartFacts
<1>2. CASE size > n
  <2>1. Len(SubSeq(s, 1, n)) + 1 <= size
    BY <1>1, <1>2
  <2>2. Fits(Written(SubSeq(s, 1, n)), size)
    BY <1>1, <2>1, WrittenFits
  <2>3. QED
    BY <1>2, <2>2 DEF FirstBytes
<1>3. CASE ~(size > n)
  BY <1>3, NoMemFits DEF FirstBytes
<1>4. QED
  BY <1>2, <1>3

LEMMA BeforeFits ==
  ASSUME NEW size \in Nat, NEW s \in Strings, NEW byte
  PROVE  Fits(Before(Slashed(s), byte, size), size)
<1>1. Slashed(s) \in Strings /\ Len(Slashed(s)) \in Nat
  BY SlashedFacts
<1>2. LastOf(Slashed(s), byte) \in 0..Len(Slashed(s))
  BY <1>1, LastOfFacts
<1>3. (IF LastOf(Slashed(s), byte) = 0 THEN Len(Slashed(s)) ELSE LastOf(Slashed(s), byte) - 1)
        \in 0..Len(Slashed(s))
  BY <1>1, <1>2
<1>4. QED
  BY <1>1, <1>3, FirstBytesFit DEF Before

\* minfs_common.c:94: of a path with a slash one byte too many is asked for.
LEMMA LeafFits ==
  ASSUME NEW size \in Nat, NEW s \in Strings
  PROVE  Fits(path_leaf(s, size), size)
<1> DEFINE slash == LastOf(Slashed(s), "/")
           name  == SubSeq(Slashed(s), slash + 1, Len(s))
           room  == IF slash = 0 THEN Len(name) ELSE Len(name) + 1
<1>1. Slashed(s) \in Strings /\ Len(Slashed(s)) = Len(s) /\ Len(s) \in Nat
  BY SlashedFacts
<1>2. slash \in 0..Len(s)
  BY <1>1, LastOfFacts
<1>3. name \in Strings
  BY <1>1, <1>2, PartFacts
<1>4. Len(name) \in Nat
  BY <1>3 DEF Strings
<1>5. path_leaf(s, size) = IF size > room THEN Written(name) ELSE NoMem
  BY DEF path_leaf
<1> HIDE DEF name, slash
<1>6. CASE size > room
  BY <1>3, <1>4, <1>5, <1>6, WrittenFits
<1>7. CASE ~(size > room)
  BY <1>5, <1>7, NoMemFits
<1>8. QED
  BY <1>6, <1>7

LEMMA JoinParentFacts ==
  ASSUME NEW s \in Strings
  PROVE  JoinParent(s) \in Strings
<1>1. CASE Len(s) > 1 /\ Last(s) = "/"
  <2>1. Len(s) \in Nat /\ Front(s) = SubSeq(s, 1, Len(s) - 1)
    BY DEF Front, Strings
  <2>2. QED
    BY <1>1, <2>1, PartFacts DEF JoinParent
<1>2. QED
  BY <1>1 DEF JoinParent

\* Two parts that fit together, and the separator.
LEMMA JoinWrites ==
  ASSUME NEW size \in Nat, NEW s \in Strings, NEW t \in Strings
  PROVE  Fits(path_join(s, t, size), IF Len(JoinParent(s)) > 1 THEN size + 1 ELSE size)
<1> DEFINE p == JoinParent(s)
           l == JoinLeaf(t)
<1>1. p \in Strings
  BY JoinParentFacts
<1>2. l \in Strings
  <2>1. CASE t # <<>> /\ Head(t) = "/"
    BY <2>1, HeadTailProperties DEF JoinLeaf, Strings
  <2>2. QED
    BY <2>1 DEF JoinLeaf
<1>3. path_join(s, t, size) = IF JoinFits(p, l, size) THEN Written(Joined(p, l)) ELSE NoMem
  BY DEF path_join
<1> HIDE DEF p, l
<1>4. Len(p) \in Nat /\ Len(l) \in Nat
  BY <1>1, <1>2 DEF Strings
<1>5. Joined(p, l) \in Strings
      /\ Len(Joined(p, l)) <= Len(l) + Len(p) + (IF Len(p) > 1 THEN 1 ELSE 0)
  <2>1. <<"/">> \in Seq(Bytes) /\ Len(<<"/">>) = 1
    BY BytesAssumption
  <2>2. p \o l \in Seq(Bytes) /\ Len(p \o l) = Len(p) + Len(l)
    BY <1>1, <1>2, ConcatProperties DEF Strings
  <2>3. p \o <<"/">> \in Seq(Bytes) /\ Len(p \o <<"/">>) = Len(p) + 1
    BY <1>1, <2>1, ConcatProperties DEF Strings
  <2>4. (p \o <<"/">>) \o l \in Seq(Bytes) /\ Len((p \o <<"/">>) \o l) = Len(p) + 1 + Len(l)
    BY <1>2, <2>3, ConcatProperties DEF Strings
  <2>5. CASE l = <<>>
    BY <1>1, <1>4, <2>5 DEF Joined
  <2>6. CASE l # <<>> /\ Len(p) > 1
    <3>1. Joined(p, l) = (p \o <<"/">>) \o l
      BY <2>6, <1>1, <1>2, ConcatAssociative, <2>1 DEF Joined, Strings
    <3>2. QED
      BY <1>4, <2>4, <2>6, <3>1 DEF Strings
  <2>7. CASE l # <<>> /\ ~(Len(p) > 1)
    BY <1>4, <2>2, <2>7 DEF Joined, Strings
  <2>8. QED
    BY <2>5, <2>6, <2>7
<1>6. CASE JoinFits(p, l, size)
  <2>1. Len(Joined(p, l)) \in Nat
    BY <1>5 DEF Strings
  <2>2. Len(Joined(p, l)) + 1 <= IF Len(p) > 1 THEN size + 1 ELSE size
    BY <1>4, <1>5, <1>6, <2>1 DEF JoinFits
  <2>3. Fits(Written(Joined(p, l)), IF Len(p) > 1 THEN size + 1 ELSE size)
    BY <1>5, <2>2, WrittenFits
  <2>4. QED
    BY <1>3, <1>6, <2>3 DEF p
<1>7. CASE ~JoinFits(p, l, size)
  <2>1. Fits(NoMem, IF Len(p) > 1 THEN size + 1 ELSE size)
    BY NoMemFits
  <2>2. QED
    BY <1>3, <1>7, <2>1 DEF p
<1>8. QED
  BY <1>6, <1>7

-----------------------------------------------------------------------------
(* The names in a path. *)

\* What holds at 0, and at a number when it holds at all smaller ones, holds up to n.
LEMMA InductionUpTo ==
  ASSUME NEW n \in Nat, NEW S,
         \A k \in 0..n : (\A j \in 0..(k - 1) : j \in S) => k \in S
  PROVE  \A k \in 0..n : k \in S
<1> DEFINE T == {k \in 0..n : k \notin S}
<1>1. SUFFICES ASSUME T # {} PROVE FALSE
  OBVIOUS
<1>2. PICK m \in T : \A k \in T : m <= k
  <2>1. T \subseteq Nat
    OBVIOUS
  <2> HIDE DEF T
  <2>2. QED
    BY <1>1, <2>1, LeastExists
<1>3. \A j \in 0..(m - 1) : j \in S
  BY <1>2
<1>4. QED
  BY <1>2, <1>3

\* A part of a part, empty or not.
LEMMA PartOfPart ==
  ASSUME NEW s \in Strings, NEW i \in 1..(Len(s) + 1), NEW j \in 0..Len(s),
         NEW m \in Nat \ {0}, NEW n \in Nat, n <= j - i + 1
  PROVE  SubSeq(SubSeq(s, i, j), m, n) = SubSeq(s, i + m - 1, i + n - 1)
<1>1. Len(s) \in Nat
  BY DEF Strings
<1>2. CASE n < m
  <2>1. SubSeq(SubSeq(s, i, j), m, n) = <<>>
    BY <1>2, SubSeqEmpty
  <2>2. i + n - 1 < i + m - 1 /\ i + m - 1 \in Int /\ i + n - 1 \in Int
    BY <1>1, <1>2
  <2>3. SubSeq(s, i + m - 1, i + n - 1) = <<>>
    BY <2>2, SubSeqEmpty
  <2>4. QED
    BY <2>1, <2>3
<1>3. CASE m <= n
  <2>1. /\ i \in 1..Len(s) /\ j \in 1..Len(s)
        /\ m \in 1..(j - i + 1) /\ n \in 1..(j - i + 1)
    BY <1>1, <1>3
  <2>2. QED
    BY <2>1, SubSeqOfSubSeq DEF Strings
<1>4. QED
  BY <1>2, <1>3

\* What NamesIn needs of the names it is given.
LEMMA NamesInFacts ==
  ASSUME NEW s \in Strings, NEW n \in 0..Len(s), NEW f, NEW g,
         \A j \in 0..(n - 1) : f[j] \in Seq(Strings) /\ g[j] = f[j]
  PROVE  NamesIn(s, n, f) \in Seq(Strings) /\ NamesIn(s, n, g) = NamesIn(s, n, f)
<1> DEFINE k == LastOf(SubSeq(s, 1, n), "/")
           name == SubSeq(s, k + 1, n)
           before(h) == IF k = 0 THEN <<>> ELSE h[k - 1]
           last == IF name = <<>> THEN <<>> ELSE <<name>>
<1>1. Len(s) \in Nat /\ SubSeq(s, 1, n) \in Strings /\ Len(SubSeq(s, 1, n)) = n
  BY StartFacts
<1>2. k \in 0..n
  BY <1>1, LastOfFacts
<1>3. name \in Strings
  BY <1>1, <1>2, PartFacts
<1>4. NamesIn(s, n, f) = before(f) \o last /\ NamesIn(s, n, g) = before(g) \o last
  BY DEF NamesIn
<1> HIDE DEF name, k
<1>5. before(f) \in Seq(Strings) /\ before(g) = before(f)
  BY <1>1, <1>2
<1>6. last \in Seq(Strings)
  BY <1>3
<1> HIDE DEF before, last
<1>7. QED
  BY <1>4, <1>5, <1>6, ConcatProperties

\* There is such a function: from that of n - 1 bytes the one of n is made.
LEMMA NamesUpToExists ==
  ASSUME NEW s \in Strings
  PROVE  \E f : f = [n \in 0..Len(s) |-> NamesIn(s, n, f)]
<1> DEFINE L == Len(s)
           S == {n \in 0..L : \E f \in [0..n -> Seq(Strings)] :
                                \A i \in 0..n : f[i] = NamesIn(s, i, f)}
<1>1. L \in Nat
  BY DEF Strings
<1>2. ASSUME NEW n \in 0..L, \A m \in 0..(n - 1) : m \in S
      PROVE  n \in S
  <2>1. PICK g : /\ \A i \in 0..(n - 1) : g[i] \in Seq(Strings) /\ g[i] = NamesIn(s, i, g)
    <3>1. CASE n = 0
      BY <3>1
    <3>2. CASE n > 0
      <4>1. n - 1 \in S
        <5>1. n - 1 \in 0..(n - 1)
          BY <1>1, <3>2
        <5> HIDE DEF S
        <5>2. QED
          BY <1>2, <5>1
      <4>2. QED
        BY <4>1
    <3>3. QED
      BY <1>1, <3>1, <3>2
  <2> DEFINE h == [i \in 0..n |-> IF i = n THEN NamesIn(s, n, g) ELSE g[i]]
  <2>2. \A i \in 0..(n - 1) : h[i] = g[i]
    BY <1>1
  <2>3. \A i \in 0..n : h[i] = NamesIn(s, i, g)
    BY <1>1, <2>1
  <2>4. ASSUME NEW i \in 0..n
        PROVE  NamesIn(s, i, g) \in Seq(Strings) /\ NamesIn(s, i, h) = NamesIn(s, i, g)
    <3>1. i \in 0..Len(s) /\ \A j \in 0..(i - 1) : g[j] \in Seq(Strings) /\ h[j] = g[j]
      BY <1>1, <2>1, <2>2
    <3> HIDE DEF h
    <3>2. QED
      BY <3>1, NamesInFacts
  <2>5. h \in [0..n -> Seq(Strings)]
    BY <2>3, <2>4
  <2> HIDE DEF h
  <2>6. QED
    BY <2>3, <2>4, <2>5
<1>3. L \in S
  <2> HIDE DEF S, L
  <2>1. \A k \in 0..L : k \in S
    BY <1>1, <1>2, InductionUpTo
  <2>2. QED
    BY <1>1, <2>1
<1>4. PICK f \in [0..L -> Seq(Strings)] : \A i \in 0..L : f[i] = NamesIn(s, i, f)
  BY <1>3
<1>5. f = [n \in 0..L |-> NamesIn(s, n, f)]
  <2> HIDE DEF L
  <2>1. QED
    BY <1>4
<1>6. QED
  BY <1>5

LEMMA NamesUpToFacts ==
  ASSUME NEW s \in Strings, NEW n \in 0..Len(s)
  PROVE  /\ NamesUpTo(s)[n] = NamesIn(s, n, NamesUpTo(s))
         /\ NamesUpTo(s)[n] \in Seq(Strings)
<1> DEFINE L == Len(s)
           f == NamesUpTo(s)
           S == {m \in 0..L : f[m] \in Seq(Strings)}
<1>1. L \in Nat
  BY DEF Strings
<1>2. f = [m \in 0..L |-> NamesIn(s, m, f)]
  <2>1. f = CHOOSE g : g = [m \in 0..L |-> NamesIn(s, m, g)]
    BY DEF NamesUpTo
  <2>2. \E g : g = [m \in 0..L |-> NamesIn(s, m, g)]
    BY NamesUpToExists
  <2> HIDE DEF f
  <2>3. QED
    BY <2>1, <2>2
<1> HIDE DEF f
<1>3. \A m \in 0..L : f[m] = NamesIn(s, m, f)
  BY <1>2
<1>4. ASSUME NEW m \in 0..L, \A j \in 0..(m - 1) : j \in S
      PROVE  m \in S
  <2>1. NamesIn(s, m, f) \in Seq(Strings)
    BY <1>4, NamesInFacts
  <2>2. QED
    BY <1>3, <2>1
<1>5. \A m \in 0..L : m \in S
  <2> HIDE DEF S, L
  <2>1. QED
    BY <1>1, <1>4, InductionUpTo
<1>6. QED
  BY <1>3, <1>5 DEF f

\* The names in the first bytes are those of the string they are.
LEMMA NamesUpToPart ==
  ASSUME NEW s \in Strings, NEW m \in 0..Len(s)
  PROVE  \A n \in 0..m : NamesUpTo(SubSeq(s, 1, m))[n] = NamesUpTo(s)[n]
<1> DEFINE t == SubSeq(s, 1, m)
           f == NamesUpTo(s)
           g == NamesUpTo(t)
           S == {n \in 0..m : g[n] = f[n]}
<1>1. Len(s) \in Nat /\ m \in Nat /\ t \in Strings /\ Len(t) = m
  BY StartFacts
<1>2. ASSUME NEW n \in 0..m, \A j \in 0..(n - 1) : j \in S
      PROVE  n \in S
  <2>1. /\ f[n] = NamesIn(s, n, f) /\ g[n] = NamesIn(t, n, g)
        /\ \A j \in 0..(n - 1) : f[j] \in Seq(Strings)
    <3> HIDE DEF t
    <3>1. n \in 0..Len(s) /\ n \in 0..Len(t) /\ \A j \in 0..(n - 1) : j \in 0..Len(s)
      BY <1>1
    <3>2. QED
      BY <1>1, <3>1, NamesUpToFacts
  <2>2. NamesIn(s, n, g) = NamesIn(s, n, f)
    <3>1. n \in 0..Len(s) /\ \A j \in 0..(n - 1) : f[j] \in Seq(Strings) /\ g[j] = f[j]
      BY <1>1, <1>2, <2>1
    <3> HIDE DEF f, g
    <3>2. QED
      BY <3>1, NamesInFacts
  <2>3. SubSeq(t, 1, n) = SubSeq(s, 1, n)
    <3>1. n \in Nat /\ n <= m - 1 + 1 /\ 1 \in 1..(Len(s) + 1) /\ 1 \in Nat \ {0}
      BY <1>1
    <3>2. SubSeq(t, 1, n) = SubSeq(s, 1 + 1 - 1, 1 + n - 1)
      BY <3>1, PartOfPart
    <3>3. 1 + 1 - 1 = 1 /\ 1 + n - 1 = n
      BY <3>1
    <3>4. QED
      BY <3>2, <3>3
  <2> DEFINE k == LastOf(SubSeq(s, 1, n), "/")
  <2>4. k \in 0..n
    <3>1. SubSeq(s, 1, n) \in Strings /\ Len(SubSeq(s, 1, n)) = n
      BY <1>1, StartFacts
    <3>2. QED
      BY <3>1, LastOfFacts
  <2>5. SubSeq(t, k + 1, n) = SubSeq(s, k + 1, n)
    <3> HIDE DEF k
    <3>1. n \in Nat /\ n <= m - 1 + 1 /\ 1 \in 1..(Len(s) + 1) /\ k + 1 \in Nat \ {0}
      BY <1>1, <2>4
    <3>2. SubSeq(t, k + 1, n) = SubSeq(s, 1 + (k + 1) - 1, 1 + n - 1)
      BY <3>1, PartOfPart, ZenonT(60)
    <3>3. 1 + (k + 1) - 1 = k + 1 /\ 1 + n - 1 = n
      BY <3>1
    <3>4. QED
      BY <3>2, <3>3
  <2>6. NamesIn(t, n, g) = NamesIn(s, n, g)
    <3> HIDE DEF t, g
    <3>1. QED
      BY <2>3, <2>5 DEF NamesIn
  <2>7. QED
    BY <2>1, <2>2, <2>6
<1>3. \A n \in 0..m : n \in S
  <2> HIDE DEF S
  <2>1. QED
    BY <1>1, <1>2, InductionUpTo
<1>4. QED
  BY <1>3

-----------------------------------------------------------------------------
(* How the names of a path come from those of its parts. *)

\* The names of a string with no \ in it.
Parts(s) == NamesUpTo(s)[Len(s)]

Piece(s) == IF s = <<>> THEN <<>> ELSE <<s>>

LEMMA PartsTyped ==
  ASSUME NEW s \in Strings
  PROVE  Parts(s) \in Seq(Strings) /\ Piece(s) \in Seq(Strings)
<1>1. Len(s) \in Nat
  BY DEF Strings
<1>2. QED
  BY <1>1, NamesUpToFacts DEF Parts, Piece

LEMMA PartsAtLast ==
  ASSUME NEW s \in Strings, NEW k, k = LastOf(s, "/")
  PROVE  /\ k = 0 => Parts(s) = Piece(s)
         /\ k # 0 => Parts(s) = Parts(SubSeq(s, 1, k - 1)) \o Piece(SubSeq(s, k + 1, Len(s)))
<1>1. Len(s) \in Nat /\ k \in 0..Len(s) /\ SubSeq(s, 1, Len(s)) = s
  <2>1. Len(s) \in Nat
    BY DEF Strings
  <2>2. QED
    BY <2>1, LastOfFacts, SubSeqFull DEF Strings
<1>2. Parts(s) = NamesIn(s, Len(s), NamesUpTo(s))
  BY <1>1, NamesUpToFacts DEF Parts
<1>3. Parts(s) = (IF k = 0 THEN <<>> ELSE NamesUpTo(s)[k - 1]) \o Piece(SubSeq(s, k + 1, Len(s)))
  BY <1>1, <1>2 DEF NamesIn, Piece
<1>4. ASSUME k = 0 PROVE Parts(s) = Piece(s)
  <2>1. k + 1 = 1
    BY <1>4
  <2>2. SubSeq(s, k + 1, Len(s)) = s
    BY <1>1, <2>1
  <2>3. Parts(s) = <<>> \o Piece(s)
    BY <1>3, <1>4, <2>2
  <2>4. QED
    BY <2>3, PartsTyped, ConcatEmptySeq
<1>5. ASSUME k # 0 PROVE NamesUpTo(s)[k - 1] = Parts(SubSeq(s, 1, k - 1))
  <2>1. k - 1 \in 0..Len(s) /\ k - 1 \in 0..(k - 1)
    BY <1>1, <1>5
  <2>2. Len(SubSeq(s, 1, k - 1)) = k - 1
    BY <1>1, <2>1, StartFacts
  <2>3. NamesUpTo(SubSeq(s, 1, k - 1))[k - 1] = NamesUpTo(s)[k - 1]
    BY <2>1, NamesUpToPart
  <2>4. QED
    BY <2>2, <2>3 DEF Parts
<1>6. QED
  BY <1>3, <1>4, <1>5

LEMMA NamesAssociative ==
  ASSUME NEW a \in Seq(Strings), NEW b \in Seq(Strings), NEW c \in Seq(Strings)
  PROVE  (a \o b) \o c = a \o (b \o c)
BY ConcatAssociative

\* A slash anywhere in a path parts its names.
LEMMA PartsSplit ==
  ASSUME NEW s \in Strings, NEW k \in 1..Len(s), s[k] = "/"
  PROVE  Parts(s) = Parts(SubSeq(s, 1, k - 1)) \o Parts(SubSeq(s, k + 1, Len(s)))
<1> DEFINE Splits(u, i) == Parts(u) = Parts(SubSeq(u, 1, i - 1)) \o Parts(SubSeq(u, i + 1, Len(u)))
           S == {n \in 0..Len(s) : \A u \in Strings : \A i \in 1..Len(u) :
                                     (Len(u) = n /\ u[i] = "/") => Splits(u, i)}
<1>1. ASSUME NEW n \in 0..Len(s), \A m \in 0..(n - 1) : m \in S
      PROVE  n \in S
  <2> SUFFICES ASSUME NEW u \in Strings, NEW i \in 1..Len(u), Len(u) = n, u[i] = "/"
               PROVE  Splits(u, i)
    OBVIOUS
  <2>1. PICK j : j = LastOf(u, "/")
    OBVIOUS
  <2>2. /\ Len(u) \in Nat /\ i \in Nat /\ i <= Len(u) /\ j \in i..Len(u)
        /\ u[j] = "/" /\ \A l \in (j + 1)..Len(u) : u[l] # "/"
    <3>1. Len(u) \in Nat
      BY DEF Strings
    <3>2. /\ j \in 0..Len(u) /\ (j # 0 => u[j] = "/")
          /\ \A l \in (j + 1)..Len(u) : u[l] # "/"
      BY <2>1, LastOfFacts
    <3>3. ~(j < i)
      BY <3>1, <3>2
    <3>4. QED
      BY <3>1, <3>2, <3>3
  <2> DEFINE t == SubSeq(u, i + 1, Len(u))
             p == SubSeq(u, 1, i - 1)
             q == SubSeq(u, i + 1, j - 1)
             r == SubSeq(u, j + 1, Len(u))
             v == SubSeq(u, 1, j - 1)
  <2>3. /\ t \in Strings /\ Len(t) = Len(u) - i
        /\ \A l \in 1..(Len(u) - i) : t[l] = u[i + l]
    <3>1. i + 1 \in 1..(Len(u) + 1) /\ Len(u) \in 0..Len(u)
      BY <2>2
    <3>2. /\ t \in Strings /\ Len(t) = IF i + 1 <= Len(u) THEN Len(u) - (i + 1) + 1 ELSE 0
          /\ \A l \in 1..(Len(u) - (i + 1) + 1) : t[l] = u[(i + 1) + l - 1]
      BY <3>1, PartFacts
    <3> HIDE DEF t
    <3>3. \A l \in 1..(Len(u) - i) : (i + 1) + l - 1 = i + l
      BY <2>2
    <3>4. QED
      BY <2>2, <3>2, <3>3
  <2>4. p \in Strings /\ q \in Strings /\ r \in Strings /\ v \in Strings /\ Len(v) = j - 1
    <3>1. i - 1 \in 0..Len(u) /\ j - 1 \in 0..Len(u)
      BY <2>2
    <3>2. p \in Strings /\ v \in Strings /\ Len(v) = j - 1
      BY <3>1, StartFacts
    <3>3. i + 1 \in 1..(Len(u) + 1) /\ j + 1 \in 1..(Len(u) + 1) /\ Len(u) \in 0..Len(u)
      BY <2>2
    <3>4. QED
      BY <3>1, <3>2, <3>3, PartFacts
  <2>5. Parts(u) = Parts(v) \o Piece(r)
    <3>1. j # 0
      BY <2>2
    <3>2. QED
      BY <2>1, <3>1, PartsAtLast
  <2>6. CASE j = i
    <3>1. LastOf(t, "/") = 0
      <4>1. \A l \in 1..Len(t) : t[l] # "/"
        <5> HIDE DEF t
        <5>1. QED
          BY <2>2, <2>3, <2>6
      <4>2. Len(t) \in Nat
        BY <2>3 DEF Strings
      <4> HIDE DEF t
      <4>3. QED
        BY <2>3, <4>1, <4>2, LastOfIs
    <3>2. Parts(t) = Piece(t)
      BY <2>3, <3>1, PartsAtLast
    <3>3. QED
      BY <2>5, <2>6, <3>2
  <2>7. CASE j > i
    <3>1. LastOf(t, "/") = j - i
      <4>1. /\ j - i \in 0..Len(t) /\ t[j - i] = "/"
            /\ \A l \in (j - i + 1)..Len(t) : t[l] # "/"
        <5>1. j - i \in 1..(Len(u) - i) /\ i + (j - i) = j
          BY <2>2, <2>7
        <5>2. \A l \in (j - i + 1)..(Len(u) - i) :
                 l \in 1..(Len(u) - i) /\ i + l \in (j + 1)..Len(u)
          BY <2>2, <2>7
        <5> HIDE DEF t
        <5>3. QED
          BY <2>2, <2>3, <5>1, <5>2
      <4> HIDE DEF t
      <4>2. QED
        BY <2>3, <4>1, LastOfIs
    <3>2. /\ SubSeq(t, 1, j - i - 1) = q
          /\ SubSeq(t, j - i + 1, Len(t)) = r
      <4>1. /\ i + 1 \in 1..(Len(u) + 1) /\ Len(u) \in 0..Len(u)
            /\ 1 \in Nat \ {0} /\ j - i - 1 \in Nat /\ j - i - 1 <= Len(u) - (i + 1) + 1
            /\ j - i + 1 \in Nat \ {0} /\ Len(u) - i \in Nat /\ Len(u) - i <= Len(u) - (i + 1) + 1
            /\ (i + 1) + 1 - 1 = i + 1 /\ (i + 1) + (j - i - 1) - 1 = j - 1
            /\ (i + 1) + (j - i + 1) - 1 = j + 1 /\ (i + 1) + (Len(u) - i) - 1 = Len(u)
        BY <2>2, <2>7
      <4>2. SubSeq(t, 1, j - i - 1) = SubSeq(u, (i + 1) + 1 - 1, (i + 1) + (j - i - 1) - 1)
        BY <4>1, PartOfPart, ZenonT(60)
      <4>3. SubSeq(t, j - i + 1, Len(u) - i)
              = SubSeq(u, (i + 1) + (j - i + 1) - 1, (i + 1) + (Len(u) - i) - 1)
        BY <4>1, PartOfPart, ZenonT(60)
      <4>4. Len(t) = Len(u) - i
        BY <2>3
      <4> HIDE DEF t
      <4>5. QED
        BY <4>1, <4>2, <4>3, <4>4
    <3>3. Parts(t) = Parts(q) \o Piece(r)
      <4>1. j - i # 0
        BY <2>2, <2>7
      <4> HIDE DEF t, q, r
      <4>2. QED
        BY <2>3, <3>1, <3>2, <4>1, PartsAtLast
    <3>4. Parts(v) = Parts(p) \o Parts(q)
      <4>1. j - 1 \in 0..(n - 1) /\ i \in 1..(j - 1)
        BY <2>2, <2>7
      <4>2. v[i] = "/"
        BY <2>2, <4>1, StartFacts
      <4>3. Splits(v, i)
        <5>1. j - 1 \in S
          BY <1>1, <4>1
        <5> HIDE DEF v, Splits
        <5>2. QED
          BY <2>4, <4>1, <4>2, <5>1
      <4>4. SubSeq(v, 1, i - 1) = p /\ SubSeq(v, i + 1, j - 1) = q
        <5>1. /\ 1 \in 1..(Len(u) + 1) /\ j - 1 \in 0..Len(u)
              /\ 1 \in Nat \ {0} /\ i - 1 \in Nat /\ i - 1 <= (j - 1) - 1 + 1
              /\ i + 1 \in Nat \ {0} /\ j - 1 \in Nat /\ j - 1 <= (j - 1) - 1 + 1
              /\ 1 + 1 - 1 = 1 /\ 1 + (i - 1) - 1 = i - 1
              /\ 1 + (i + 1) - 1 = i + 1 /\ 1 + (j - 1) - 1 = j - 1
          BY <2>2, <2>7
        <5>2. SubSeq(v, 1, i - 1) = SubSeq(u, 1 + 1 - 1, 1 + (i - 1) - 1)
          BY <5>1, PartOfPart
        <5>3. SubSeq(v, i + 1, j - 1) = SubSeq(u, 1 + (i + 1) - 1, 1 + (j - 1) - 1)
          BY <5>1, PartOfPart, ZenonT(60)
        <5> HIDE DEF v
        <5>4. QED
          BY <5>1, <5>2, <5>3
      <4> HIDE DEF v, p, q
      <4>5. QED
        BY <2>4, <4>3, <4>4
    <3>5. (Parts(p) \o Parts(q)) \o Piece(r) = Parts(p) \o (Parts(q) \o Piece(r))
      <4>1. Parts(p) \in Seq(Strings) /\ Parts(q) \in Seq(Strings) /\ Piece(r) \in Seq(Strings)
        BY <2>4, PartsTyped
      <4> HIDE DEF p, q, r, S, t, v
      <4>2. QED
        BY <4>1, NamesAssociative
    <3>6. QED
      BY <2>5, <3>3, <3>4, <3>5
  <2>8. QED
    BY <2>2, <2>6, <2>7
<1>2. Len(s) \in Nat
  BY DEF Strings
<1>3. \A n \in 0..Len(s) : n \in S
  <2> HIDE DEF S
  <2>1. QED
    BY <1>1, <1>2, InductionUpTo
<1>4. Len(s) \in S
  <2> HIDE DEF S
  <2>1. QED
    BY <1>2, <1>3
<1>5. QED
  BY <1>4

-----------------------------------------------------------------------------
(* Nodes. *)

Root(s) == IF s # <<>> /\ Slashed(s)[1] = "/" THEN "/" ELSE "."

NodeSeqs == Seq({"/", "."} \cup Strings)

LEMMA StringsEqual ==
  ASSUME NEW s \in Strings, NEW t \in Strings, Len(s) = Len(t),
         \A i \in 1..Len(s) : s[i] = t[i]
  PROVE  s = t
BY SeqEqual DEF Strings

\* A string without \ is left as it is.
LEMMA PlainFacts ==
  ASSUME NEW s \in Strings
  PROVE  /\ Slashed(s) = s <=> \A i \in 1..Len(s) : s[i] # "\\"
         /\ Slashed(Slashed(s)) = Slashed(s)
<1>1. ASSUME NEW t \in Strings
      PROVE  Slashed(t) = t <=> \A i \in 1..Len(t) : t[i] # "\\"
  <2>1. /\ Slashed(t) \in Strings /\ Len(Slashed(t)) = Len(t) /\ Len(t) \in Nat
        /\ \A i \in 1..Len(t) : Slashed(t)[i] = IF t[i] = "\\" THEN "/" ELSE t[i]
    BY SlashedFacts
  <2>2. "/" # "\\"
    OBVIOUS
  <2>3. ASSUME \A i \in 1..Len(t) : t[i] # "\\" PROVE Slashed(t) = t
    BY <2>1, <2>3, StringsEqual
  <2>4. ASSUME Slashed(t) = t PROVE \A i \in 1..Len(t) : t[i] # "\\"
    BY <2>1, <2>2, <2>4
  <2>5. QED
    BY <2>3, <2>4
<1>2. /\ Slashed(s) \in Strings /\ Len(Slashed(s)) = Len(s)
      /\ \A i \in 1..Len(s) : Slashed(s)[i] = IF s[i] = "\\" THEN "/" ELSE s[i]
  BY SlashedFacts
<1>3. \A i \in 1..Len(Slashed(s)) : Slashed(s)[i] # "\\"
  BY <1>2
<1>4. QED
  BY <1>1, <1>2, <1>3

LEMMA PlainPart ==
  ASSUME NEW s \in Strings, Slashed(s) = s,
         NEW m \in 1..(Len(s) + 1), NEW n \in 0..Len(s)
  PROVE  Slashed(SubSeq(s, m, n)) = SubSeq(s, m, n)
<1>1. /\ SubSeq(s, m, n) \in Strings
      /\ Len(SubSeq(s, m, n)) = IF m <= n THEN n - m + 1 ELSE 0
      /\ \A i \in 1..(n - m + 1) : SubSeq(s, m, n)[i] = s[m + i - 1]
      /\ Len(s) \in Nat
  BY PartFacts DEF Strings
<1>2. \A i \in 1..Len(s) : s[i] # "\\"
  BY PlainFacts
<1>3. \A i \in 1..Len(SubSeq(s, m, n)) : SubSeq(s, m, n)[i] # "\\"
  <2> DEFINE t == SubSeq(s, m, n)
  <2> SUFFICES ASSUME NEW i \in 1..Len(t) PROVE t[i] # "\\"
    OBVIOUS
  <2>1. i \in 1..(n - m + 1) /\ m + i - 1 \in 1..Len(s)
    BY <1>1
  <2>2. QED
    BY <1>1, <1>2, <2>1
<1>4. QED
  BY <1>1, <1>3, PlainFacts

LEMMA NodeFacts ==
  ASSUME NEW s \in Strings
  PROVE  /\ Names(s) = Parts(Slashed(s)) /\ Names(s) \in Seq(Strings)
         /\ Node(s) = <<Root(s)>> \o Names(s) /\ Root(s) \in {"/", "."}
<1>1. Slashed(s) \in Strings /\ Len(Slashed(s)) = Len(s)
  BY SlashedFacts
<1>2. Names(s) = Parts(Slashed(s))
  BY <1>1 DEF Names, Parts
<1>3. Names(s) \in Seq(Strings)
  BY <1>1, <1>2, PartsTyped
<1>4. QED
  BY <1>2, <1>3 DEF Node, Root

LEMMA NodeLength ==
  ASSUME NEW r \in {"/", "."}, NEW ns \in Seq(Strings)
  PROVE  /\ <<r>> \o ns \in NodeSeqs /\ Len(<<r>> \o ns) = Len(ns) + 1 /\ Len(ns) \in Nat
         /\ (<<r>> \o ns)[1] = r
         /\ \A i \in 1..Len(ns) : (<<r>> \o ns)[i + 1] = ns[i]
<1> DEFINE T == {"/", "."} \cup Strings
<1>1. ns \in Seq(T) /\ <<r>> \in Seq(T) /\ Len(<<r>>) = 1 /\ Len(ns) \in Nat
  <2>1. Strings \subseteq T
    OBVIOUS
  <2>2. ns \in Seq(T)
    BY <2>1, SeqMonotonic
  <2>3. r \in T
    OBVIOUS
  <2> HIDE DEF T
  <2>4. QED
    BY <2>2, <2>3
<1> HIDE DEF T
<1>2. /\ <<r>> \o ns \in Seq(T) /\ Len(<<r>> \o ns) = 1 + Len(ns)
      /\ \A i \in 1..(1 + Len(ns)) :
           (<<r>> \o ns)[i] = IF i <= 1 THEN <<r>>[i] ELSE ns[i - 1]
  BY <1>1, ConcatProperties
<1>3. (<<r>> \o ns)[1] = r
  BY <1>1, <1>2
<1>4. \A i \in 1..Len(ns) : i + 1 \in 1..(1 + Len(ns)) /\ ~(i + 1 <= 1) /\ i + 1 - 1 = i
  BY <1>1
<1>5. \A i \in 1..Len(ns) : (<<r>> \o ns)[i + 1] = ns[i]
  BY <1>2, <1>4
<1>6. QED
  BY <1>1, <1>2, <1>3, <1>5 DEF T, NodeSeqs

\* What is above a node, and below it.
LEMMA NodeAbove ==
  ASSUME NEW r \in {"/", "."}, NEW ns \in Seq(Strings), NEW ms \in Seq(Strings)
  PROVE  SubSeq(<<r>> \o (ns \o ms), 1, Len(ns) + 1) = <<r>> \o ns
<1> DEFINE T == {"/", "."} \cup Strings
           x == <<r>> \o (ns \o ms)
           y == <<r>> \o ns
<1>1. /\ ns \o ms \in Seq(Strings) /\ Len(ns \o ms) = Len(ns) + Len(ms)
      /\ Len(ns) \in Nat /\ Len(ms) \in Nat
      /\ \A i \in 1..Len(ns) : (ns \o ms)[i] = ns[i]
  <2>1. Len(ns) \in Nat /\ Len(ms) \in Nat
    OBVIOUS
  <2>2. /\ ns \o ms \in Seq(Strings) /\ Len(ns \o ms) = Len(ns) + Len(ms)
        /\ \A i \in 1..Len(ns) + Len(ms) : (ns \o ms)[i] = IF i <= Len(ns) THEN ns[i] ELSE ms[i - Len(ns)]
    BY ConcatProperties
  <2>3. QED
    BY <2>1, <2>2
<1>2. /\ x \in Seq(T) /\ Len(x) = Len(ns) + Len(ms) + 1 /\ x[1] = r
      /\ \A i \in 1..Len(ns) : x[i + 1] = ns[i]
  <2>1. /\ x \in NodeSeqs /\ Len(x) = Len(ns \o ms) + 1 /\ x[1] = r
        /\ \A i \in 1..Len(ns \o ms) : x[i + 1] = (ns \o ms)[i]
    BY <1>1, NodeLength
  <2> HIDE DEF x
  <2>2. QED
    BY <1>1, <2>1 DEF NodeSeqs
<1>3. /\ y \in Seq(T) /\ Len(y) = Len(ns) + 1 /\ y[1] = r
      /\ \A i \in 1..Len(ns) : y[i + 1] = ns[i]
  BY NodeLength DEF NodeSeqs
<1> HIDE DEF x, y, T
<1> DEFINE z == SubSeq(x, 1, Len(ns) + 1)
<1>4. /\ z \in Seq(T) /\ Len(z) = Len(ns) + 1
      /\ \A i \in 1..(Len(ns) + 1) : z[i] = x[i]
  <2>1. \A i \in 1..(Len(ns) + 1) : x[i] \in T
    BY <1>1, <1>2
  <2>2. 1 \in Int /\ Len(ns) + 1 \in Int /\ 1 <= Len(ns) + 1 /\ Len(ns) + 1 - 1 + 1 = Len(ns) + 1
        /\ \A i \in 1..(Len(ns) + 1) : 1 + i - 1 = i
    BY <1>1
  <2>3. /\ z \in Seq(T) /\ Len(z) = IF 1 <= Len(ns) + 1 THEN Len(ns) + 1 - 1 + 1 ELSE 0
        /\ \A i \in 1..(Len(ns) + 1 - 1 + 1) : z[i] = x[1 + i - 1]
    BY <2>1, <2>2, SubSeqProperties
  <2>4. QED
    BY <2>2, <2>3
<1> HIDE DEF z
<1>5. \A i \in 1..(Len(ns) + 1) : z[i] = y[i]
  <2> SUFFICES ASSUME NEW i \in 1..(Len(ns) + 1) PROVE z[i] = y[i]
    OBVIOUS
  <2>1. CASE i = 1
    BY <1>1, <1>2, <1>3, <1>4, <2>1
  <2>2. CASE i # 1
    <3>1. i - 1 \in 1..Len(ns) /\ (i - 1) + 1 = i
      BY <1>1, <2>2
    <3>2. x[(i - 1) + 1] = ns[i - 1] /\ y[(i - 1) + 1] = ns[i - 1]
      BY <1>2, <1>3, <3>1
    <3>3. QED
      BY <1>4, <3>1, <3>2
  <2>3. QED
    BY <2>1, <2>2
<1>6. z = y
  BY <1>3, <1>4, <1>5, SeqEqual
<1>7. QED
  BY <1>6 DEF x, y, z

LEMMA NodeEnd ==
  ASSUME NEW r \in {"/", "."}, NEW ns \in Seq(Strings), NEW t \in Strings
  PROVE  /\ Front(<<r>> \o (ns \o <<t>>)) = <<r>> \o ns
         /\ Last(<<r>> \o (ns \o <<t>>)) = t
         /\ Append(<<r>> \o ns, t) = <<r>> \o (ns \o <<t>>)
<1> DEFINE T == {"/", "."} \cup Strings
           ms == <<t>>
           x == <<r>> \o (ns \o ms)
<1>1. ms \in Seq(Strings) /\ Len(ms) = 1 /\ ms[1] = t /\ Len(ns) \in Nat
  OBVIOUS
<1> HIDE DEF ms
<1>2. /\ ns \o ms \in Seq(Strings) /\ Len(ns \o ms) = Len(ns) + 1
      /\ (ns \o ms)[Len(ns) + 1] = t
  <2>1. /\ ns \o ms \in Seq(Strings) /\ Len(ns \o ms) = Len(ns) + Len(ms)
        /\ \A i \in 1..Len(ns) + Len(ms) : (ns \o ms)[i] = IF i <= Len(ns) THEN ns[i] ELSE ms[i - Len(ns)]
    BY <1>1, ConcatProperties
  <2>2. Len(ns) + 1 \in 1..Len(ns) + Len(ms) /\ ~(Len(ns) + 1 <= Len(ns)) /\ Len(ns) + 1 - Len(ns) = 1
    BY <1>1
  <2>3. QED
    BY <1>1, <2>1, <2>2
<1>3. /\ Len(x) = Len(ns) + 2 /\ x[Len(ns) + 2] = t
  <2>1. /\ Len(x) = Len(ns \o ms) + 1
        /\ \A i \in 1..Len(ns \o ms) : x[i + 1] = (ns \o ms)[i]
    BY <1>2, NodeLength
  <2>2. Len(ns) + 1 \in 1..Len(ns \o ms) /\ (Len(ns) + 1) + 1 = Len(ns) + 2
    BY <1>1, <1>2
  <2> HIDE DEF x
  <2>3. QED
    BY <1>1, <1>2, <2>1, <2>2
<1>4. SubSeq(x, 1, Len(ns) + 1) = <<r>> \o ns
  BY <1>1, NodeAbove
<1>5. Front(x) = <<r>> \o ns /\ Last(x) = t
  <2> HIDE DEF x
  <2>1. Len(x) - 1 = Len(ns) + 1
    BY <1>1, <1>3
  <2>2. QED
    BY <1>3, <1>4, <2>1 DEF Front, Last
<1>6. Append(<<r>> \o ns, t) = x
  <2>1. <<r>> \o ns \in Seq(T) /\ <<r>> \in Seq(T) /\ ns \in Seq(T) /\ ms \in Seq(T) /\ t \in T
    <3>1. <<r>> \o ns \in NodeSeqs
      BY NodeLength
    <3>2. Strings \subseteq T /\ r \in T
      OBVIOUS
    <3>3. ns \in Seq(T) /\ ms \in Seq(T)
      BY <1>1, <3>2, SeqMonotonic
    <3>4. <<r>> \in Seq(T)
      <4> HIDE DEF T
      <4>1. QED
        BY <3>2
    <3>5. QED
      BY <3>1, <3>2, <3>3, <3>4 DEF NodeSeqs
  <2> HIDE DEF T
  <2>2. Append(<<r>> \o ns, t) = (<<r>> \o ns) \o <<t>>
    BY <2>1, AppendIsConcat
  <2>3. (<<r>> \o ns) \o ms = <<r>> \o (ns \o ms)
    BY <2>1, ConcatAssociative
  <2>4. QED
    BY <2>2, <2>3 DEF ms
<1>7. QED
  BY <1>5, <1>6 DEF ms

-----------------------------------------------------------------------------
(* The node a path function's result stands for. *)

LEMMA PartNames ==
  ASSUME NEW s \in Strings, NEW m \in 1..(Len(s) + 1), NEW n \in 0..Len(s)
  PROVE  /\ SubSeq(Slashed(s), m, n) \in Strings
         /\ Slashed(SubSeq(Slashed(s), m, n)) = SubSeq(Slashed(s), m, n)
         /\ Names(SubSeq(Slashed(s), m, n)) = Parts(SubSeq(Slashed(s), m, n))
<1>1. /\ Slashed(s) \in Strings /\ Len(Slashed(s)) = Len(s)
      /\ Slashed(Slashed(s)) = Slashed(s)
  BY SlashedFacts, PlainFacts
<1>2. /\ SubSeq(Slashed(s), m, n) \in Strings
      /\ Slashed(SubSeq(Slashed(s), m, n)) = SubSeq(Slashed(s), m, n)
  BY <1>1, PartFacts, PlainPart
<1>3. QED
  BY <1>2, NodeFacts

\* The last name of a path that does not end in a slash.
LEMMA NamesAtLast ==
  ASSUME NEW s \in Strings, LastOf(Slashed(s), "/") < Len(s)
  PROVE  LET k == LastOf(Slashed(s), "/")
             t == SubSeq(Slashed(s), k + 1, Len(s))
         IN  /\ k \in 0..Len(s) /\ t \in Strings /\ t # <<>> /\ Len(t) = Len(s) - k
             /\ k = 0 => Names(s) = <<>> \o <<t>>
             /\ k # 0 => Names(s) = Names(SubSeq(Slashed(s), 1, k - 1)) \o <<t>>
<1> DEFINE S == Slashed(s)
           k == LastOf(S, "/")
           t == SubSeq(S, k + 1, Len(s))
<1>1. S \in Strings /\ Len(S) = Len(s) /\ Len(s) \in Nat
  BY SlashedFacts
<1>2. k \in 0..Len(s) /\ k < Len(s)
  BY <1>1, LastOfFacts
<1>3. t \in Strings /\ Len(t) = Len(s) - k /\ t # <<>>
  <2>1. k + 1 \in 1..(Len(S) + 1) /\ Len(s) \in 0..Len(S) /\ k + 1 <= Len(s)
        /\ Len(s) - (k + 1) + 1 = Len(s) - k /\ Len(s) - k > 0
    BY <1>1, <1>2
  <2> HIDE DEF S, k
  <2>2. t \in Strings /\ Len(t) = Len(s) - k
    BY <1>1, <2>1, PartFacts
  <2> HIDE DEF t
  <2>3. Len(<<>>) = 0
    OBVIOUS
  <2>4. QED
    BY <2>1, <2>2, <2>3
<1>4. Piece(t) = <<t>>
  BY <1>3 DEF Piece
<1>5. Names(s) = Parts(S)
  BY NodeFacts
<1>6. /\ k = 0 => Parts(S) = Piece(S)
      /\ k # 0 => Parts(S) = Parts(SubSeq(S, 1, k - 1)) \o Piece(SubSeq(S, k + 1, Len(S)))
  <2> HIDE DEF S
  <2>1. QED
    BY <1>1, PartsAtLast
<1>7. ASSUME k = 0 PROVE Names(s) = <<>> \o <<t>>
  <2>1. SubSeq(S, 1, Len(S)) = S
    BY <1>1, SubSeqFull DEF Strings
  <2>2. k + 1 = 1
    BY <1>7
  <2>3. t = S
    BY <1>1, <2>1, <2>2
  <2>4. <<>> \o <<t>> = <<t>>
    OBVIOUS
  <2>5. QED
    BY <1>4, <1>5, <1>6, <1>7, <2>3, <2>4
<1>8. ASSUME k # 0 PROVE Names(s) = Names(SubSeq(S, 1, k - 1)) \o <<t>>
  <2>1. 1 \in 1..(Len(s) + 1) /\ k - 1 \in 0..Len(s)
    BY <1>1, <1>2, <1>8
  <2>2. Names(SubSeq(S, 1, k - 1)) = Parts(SubSeq(S, 1, k - 1))
    BY <2>1, PartNames
  <2>3. QED
    BY <1>1, <1>4, <1>5, <1>6, <1>8, <2>2
<1>9. QED
  BY <1>2, <1>3, <1>7, <1>8

LEMMA RootOfPart ==
  ASSUME NEW s \in Strings, NEW n \in 1..Len(s)
  PROVE  Root(SubSeq(Slashed(s), 1, n)) = Root(s)
<1> DEFINE S == Slashed(s)
           t == SubSeq(S, 1, n)
<1>1. S \in Strings /\ Len(S) = Len(s) /\ Len(s) \in Nat
  BY SlashedFacts
<1>2. t \in Strings /\ Len(t) = n /\ t[1] = S[1]
  <2>1. n \in 0..Len(S) /\ 1 \in 1..n
    BY <1>1
  <2> HIDE DEF S
  <2>2. QED
    BY <1>1, <2>1, StartFacts
<1>3. Slashed(t) = t
  <2>1. 1 \in 1..(Len(s) + 1) /\ n \in 0..Len(s)
    BY <1>1
  <2>2. QED
    BY <2>1, PartNames
<1>4. t # <<>> /\ s # <<>>
  <2>1. Len(<<>>) = 0 /\ n > 0 /\ Len(s) > 0
    BY <1>1
  <2> HIDE DEF t
  <2>2. QED
    BY <1>2, <2>1
<1> HIDE DEF t
<1>5. Root(t) = Root(s)
  BY <1>2, <1>3, <1>4 DEF Root
<1>6. QED
  BY <1>5 DEF t

LEMMA ParentMeans ==
  ASSUME NEW s \in Strings, NEW size, SlashInside(s), path_parent(s, size).ok
  PROVE  Node(path_parent(s, size).path) = Front(Node(s))
<1> DEFINE S == Slashed(s)
           k == LastOf(S, "/")
           u == SubSeq(S, 1, k - 1)
           t == SubSeq(S, k + 1, Len(s))
<1>1. k \in 2..(Len(s) - 1) /\ Len(s) \in Nat
  BY DEF SlashInside, Strings
<1>2. path_parent(s, size).path = u
  <2>1. path_parent(s, size) = FirstBytes(S, k - 1, size)
    BY <1>1 DEF path_parent, Before
  <2>2. CASE size > k - 1
    <3>1. path_parent(s, size) = Written(u)
      BY <2>1, <2>2 DEF FirstBytes
    <3> HIDE DEF u
    <3>2. QED
      BY <3>1 DEF Written
  <2>3. CASE ~(size > k - 1)
    <3>1. path_parent(s, size) = NoMem
      BY <2>1, <2>3 DEF FirstBytes
    <3>2. QED
      BY <3>1 DEF NoMem
  <2>4. QED
    BY <2>2, <2>3
<1>3. k < Len(s) /\ k # 0 /\ k - 1 \in 1..Len(s)
  BY <1>1
<1>4. t \in Strings /\ Names(s) = Names(u) \o <<t>>
  BY <1>3, NamesAtLast
<1>5. u \in Strings
  <2>1. 1 \in 1..(Len(s) + 1) /\ k - 1 \in 0..Len(s)
    BY <1>1
  <2>2. QED
    BY <2>1, PartNames
<1>6. Root(u) = Root(s)
  BY <1>3, RootOfPart
<1> HIDE DEF u, t
<1>7. /\ Node(s) = <<Root(s)>> \o Names(s) /\ Root(s) \in {"/", "."}
      /\ Node(u) = <<Root(u)>> \o Names(u) /\ Names(u) \in Seq(Strings)
  BY <1>5, NodeFacts
<1>8. Front(<<Root(s)>> \o (Names(u) \o <<t>>)) = <<Root(s)>> \o Names(u)
  BY <1>4, <1>7, NodeEnd
<1>9. QED
  BY <1>2, <1>4, <1>6, <1>7, <1>8

\* The last name of a path, and what is before it.
LEMMA LastName ==
  ASSUME NEW s \in Strings, s # <<>>, ~EndsInSlash(s)
  PROVE  LET k == LastOf(Slashed(s), "/")
             t == SubSeq(Slashed(s), k + 1, Len(s))
         IN  /\ k \in Nat /\ k < Len(s) /\ t \in Strings /\ t # <<>> /\ Len(t) = Len(s) - k
             /\ Last(Node(s)) = t
             /\ \E ns \in Seq(Strings) :
                  /\ k = 0 => ns = <<>>
                  /\ k # 0 => ns = Names(SubSeq(Slashed(s), 1, k - 1))
                  /\ Names(s) = ns \o <<t>>
                  /\ Front(Node(s)) = <<Root(s)>> \o ns
<1> DEFINE S == Slashed(s)
           k == LastOf(S, "/")
           t == SubSeq(S, k + 1, Len(s))
           u == SubSeq(S, 1, k - 1)
<1>1. S \in Strings /\ Len(S) = Len(s) /\ Len(s) \in Nat
  BY SlashedFacts
<1>2. k \in Nat /\ k < Len(s)
  <2>1. k \in 0..Len(s) /\ (k # 0 => S[k] = "/")
    BY <1>1, LastOfFacts
  <2>2. S[Len(s)] # "/"
    BY <1>1 DEF EndsInSlash, Last
  <2>3. Len(s) # 0
    BY EmptySeq DEF Strings
  <2>4. QED
    BY <1>1, <2>1, <2>2, <2>3
<1>3. /\ t \in Strings /\ t # <<>> /\ Len(t) = Len(s) - k
      /\ k = 0 => Names(s) = <<>> \o <<t>>
      /\ k # 0 => Names(s) = Names(u) \o <<t>>
  BY <1>2, NamesAtLast
<1>4. k # 0 => Names(u) \in Seq(Strings)
  <2>1. k # 0 => 1 \in 1..(Len(s) + 1) /\ k - 1 \in 0..Len(s)
    BY <1>1, <1>2
  <2>2. k # 0 => u \in Strings
    BY <2>1, PartNames
  <2>3. QED
    BY <2>2, NodeFacts
<1> DEFINE ns == IF k = 0 THEN <<>> ELSE Names(u)
<1>5. /\ ns \in Seq(Strings) /\ Names(s) = ns \o <<t>>
      /\ (k = 0 => ns = <<>>) /\ (k # 0 => ns = Names(u))
  <2> HIDE DEF k, u, t
  <2>1. CASE k = 0
    BY <1>3, <2>1
  <2>2. CASE k # 0
    BY <1>3, <1>4, <2>2
  <2>3. QED
    BY <2>1, <2>2
<1>6. Node(s) = <<Root(s)>> \o Names(s) /\ Root(s) \in {"/", "."}
  BY NodeFacts
<1> HIDE DEF ns, t
<1>7. /\ Front(<<Root(s)>> \o (ns \o <<t>>)) = <<Root(s)>> \o ns
      /\ Last(<<Root(s)>> \o (ns \o <<t>>)) = t
  BY <1>3, <1>5, <1>6, NodeEnd, ZenonT(60)
<1>8. QED
  BY <1>2, <1>3, <1>5, <1>6, <1>7 DEF t

LEMMA PairIs ==
  ASSUME NEW r, NEW t
  PROVE  <<r>> \o <<t>> = <<r, t>>
<1> DEFINE T == {r, t}
           x == <<r>>
           y == <<t>>
           z == <<r, t>>
<1>1. /\ x \in Seq(T) /\ Len(x) = 1 /\ x[1] = r
      /\ y \in Seq(T) /\ Len(y) = 1 /\ y[1] = t
      /\ z \in Seq(T) /\ Len(z) = 2 /\ z[1] = r /\ z[2] = t
  OBVIOUS
<1> HIDE DEF x, y, z, T
<1>2. /\ x \o y \in Seq(T) /\ Len(x \o y) = 2
      /\ \A i \in 1..2 : (x \o y)[i] = IF i <= 1 THEN x[i] ELSE y[i - 1]
  BY <1>1, ConcatProperties
<1>3. \A i \in 1..2 : (x \o y)[i] = z[i]
  BY <1>1, <1>2
<1>4. x \o y = z
  BY <1>1, <1>2, <1>3, SeqEqual
<1>5. QED
  BY <1>4 DEF x, y, z

LEMMA LeafMeans ==
  ASSUME NEW s \in Strings, NEW size, s # <<>>, ~EndsInSlash(s), path_leaf(s, size).ok
  PROVE  Node(path_leaf(s, size).path) = <<".", Last(Node(s))>>
<1> DEFINE S == Slashed(s)
           k == LastOf(S, "/")
           t == SubSeq(S, k + 1, Len(s))
<1>1. /\ k \in Nat /\ k < Len(s) /\ t \in Strings /\ t # <<>> /\ Len(t) = Len(s) - k
      /\ Last(Node(s)) = t
  BY LastName
<1>2. path_leaf(s, size).path = t
  BY DEF path_leaf, Written, NoMem
<1>3. Slashed(t) = t
  <2>1. k + 1 \in 1..(Len(s) + 1) /\ Len(s) \in 0..Len(s)
    BY <1>1 DEF Strings
  <2>2. QED
    BY <2>1, PartNames
<1>4. \A i \in 1..Len(t) : t[i] # "/"
  <2>1. S \in Strings /\ Len(S) = Len(s) /\ Len(s) \in Nat
    BY SlashedFacts
  <2>2. \A j \in (k + 1)..Len(s) : S[j] # "/"
    <3> HIDE DEF S
    <3>1. QED
      BY <2>1, LastOfFacts
  <2>3. \A i \in 1..(Len(s) - (k + 1) + 1) : t[i] = S[(k + 1) + i - 1]
    <3>1. k + 1 \in 1..(Len(S) + 1) /\ Len(s) \in 0..Len(S)
      BY <1>1, <2>1
    <3> HIDE DEF S, k
    <3>2. QED
      BY <2>1, <3>1, PartFacts
  <2>4. \A i \in 1..(Len(s) - k) : /\ i \in 1..(Len(s) - (k + 1) + 1)
                                  /\ (k + 1) + i - 1 \in (k + 1)..Len(s)
    BY <1>1, <2>1, SMTT(60)
  <2> HIDE DEF t, k, S
  <2>5. QED
    BY <1>1, <2>2, <2>3, <2>4
<1> HIDE DEF t
<1>5. LastOf(t, "/") = 0
  <2>1. 0 \in 0..Len(t) /\ 0 + 1 = 1
    BY <1>1 DEF Strings
  <2>2. QED
    BY <1>1, <1>4, <2>1, LastOfIs
<1>6. Names(t) = <<t>>
  BY <1>1, <1>3, <1>5, PartsAtLast, NodeFacts DEF Piece
<1>7. Root(t) = "."
  <2>1. Len(t) \in Nat /\ Len(t) # 0
    BY <1>1, EmptySeq DEF Strings
  <2>2. QED
    BY <1>3, <1>4, <2>1 DEF Root
<1>8. Node(t) = <<".">> \o <<t>>
  BY <1>1, <1>6, <1>7, NodeFacts
<1>9. <<".">> \o <<t>> = <<".", t>>
  BY PairIs
<1>10. QED
  BY <1>1, <1>2, <1>8, <1>9

LEMMA SlashedNode ==
  ASSUME NEW s \in Strings
  PROVE  Node(Slashed(s)) = Node(s)
<1>1. /\ Slashed(s) \in Strings /\ Len(Slashed(s)) = Len(s) /\ Len(s) \in Nat
      /\ Slashed(Slashed(s)) = Slashed(s)
  BY SlashedFacts, PlainFacts
<1>2. Names(Slashed(s)) = Names(s)
  BY <1>1, NodeFacts
<1>3. (Slashed(s) = <<>>) <=> (s = <<>>)
  <2>1. \A u \in Strings : u = <<>> <=> Len(u) = 0
    BY EmptySeq DEF Strings
  <2>2. QED
    BY <1>1, <2>1
<1>4. Root(Slashed(s)) = Root(s)
  BY <1>1, <1>3 DEF Root
<1>5. QED
  BY <1>1, <1>2, <1>4, NodeFacts

LEMMA ExtMeans ==
  ASSUME NEW s \in Strings, NEW size, DotInLeaf(s), path_without_ext(s, size).ok
  PROVE  Node(path_without_ext(s, size).path) =
           IF ~Contains(s, ".") THEN Node(s)
           ELSE LET name == Last(Node(s))
                IN  Append(Front(Node(s)), SubSeq(name, 1, LastOf(name, ".") - 1))
<1> DEFINE S == Slashed(s)
           r == path_without_ext(s, size)
           d == LastOf(s, ".")
           n == IF LastOf(S, ".") = 0 THEN Len(S) ELSE LastOf(S, ".") - 1
<1>1. /\ S \in Strings /\ Len(S) = Len(s) /\ Len(s) \in Nat
      /\ \A i \in 1..Len(s) : S[i] = "." <=> s[i] = "."
  <2>1. /\ S \in Strings /\ Len(S) = Len(s) /\ Len(s) \in Nat
        /\ \A i \in 1..Len(s) : S[i] = IF s[i] = "\\" THEN "/" ELSE s[i]
    BY SlashedFacts
  <2>2. "/" # "." /\ "\\" # "."
    OBVIOUS
  <2> HIDE DEF S
  <2>3. QED
    BY <2>1, <2>2
<1>2. /\ d \in 0..Len(s) /\ (d # 0 => s[d] = ".")
      /\ \A i \in (d + 1)..Len(s) : s[i] # "."
  BY LastOfFacts
<1>3. LastOf(S, ".") = d
  <2>1. /\ d \in 0..Len(S) /\ (d # 0 => S[d] = ".")
        /\ \A i \in (d + 1)..Len(S) : S[i] # "."
    <3> HIDE DEF S, d
    <3>1. d # 0 => d \in 1..Len(s)
      BY <1>1, <1>2
    <3>2. \A i \in (d + 1)..Len(s) : i \in 1..Len(s)
      BY <1>1, <1>2
    <3>3. QED
      BY <1>1, <1>2, <3>1, <3>2
  <2> HIDE DEF S, d
  <2>2. QED
    BY <1>1, <2>1, LastOfIs
<1>4. r.path = SubSeq(S, 1, n)
  <2>1. r = FirstBytes(S, n, size)
    BY DEF path_without_ext, Before
  <2> HIDE DEF n
  <2>2. CASE size > n
    <3>1. r = Written(SubSeq(S, 1, n))
      BY <2>1, <2>2 DEF FirstBytes
    <3> HIDE DEF r
    <3>2. QED
      BY <3>1 DEF Written
  <2>3. CASE ~(size > n)
    <3>1. r = NoMem
      BY <2>1, <2>3 DEF FirstBytes
    <3>2. QED
      BY <3>1 DEF NoMem
  <2>4. QED
    BY <2>2, <2>3
<1> HIDE DEF r
<1>5. Contains(s, ".") <=> d # 0
  <2> HIDE DEF d
  <2>1. ASSUME d # 0 PROVE Contains(s, ".")
    <3>1. d \in 1..Len(s) /\ s[d] = "."
      BY <1>1, <1>2, <2>1
    <3>2. QED
      BY <3>1 DEF Contains
  <2>2. ASSUME d = 0 PROVE ~Contains(s, ".")
    <3>1. \A i \in 1..Len(s) : s[i] # "."
      BY <1>2, <2>2
    <3>2. QED
      BY <3>1 DEF Contains
  <2>3. QED
    BY <2>1, <2>2
<1>6. CASE d = 0
  <2>1. n = Len(S)
    BY <1>3, <1>6
  <2>2. r.path = S
    <3>1. SubSeq(S, 1, Len(S)) = S
      BY <1>1, SubSeqFull DEF Strings
    <3> HIDE DEF S, n
    <3>2. QED
      BY <1>4, <2>1, <3>1
  <2>3. QED
    BY <1>5, <1>6, <2>2, SlashedNode DEF r
<1>7. CASE d # 0
  <2> DEFINE k == LastOf(S, "/")
             t == SubSeq(S, k + 1, Len(s))
             v == SubSeq(S, 1, d - 1)
             e == SubSeq(S, k + 1, d - 1)
  <2>1. d > k + 1 /\ ~EndsInSlash(s)
    BY <1>5, <1>7 DEF DotInLeaf
  <2>2. s # <<>>
    <3>1. Len(s) # 0
      BY <1>1, <1>2, <1>7
    <3>2. QED
      BY <3>1, EmptySeq
  <2>3. /\ k \in Nat /\ k < Len(s) /\ t \in Strings /\ Len(t) = Len(s) - k
        /\ Last(Node(s)) = t
    BY <2>1, <2>2, LastName
  <2>4. PICK ns \in Seq(Strings) :
          /\ k = 0 => ns = <<>>
          /\ k # 0 => ns = Names(SubSeq(S, 1, k - 1))
          /\ Front(Node(s)) = <<Root(s)>> \o ns
    BY <2>1, <2>2, LastName
  <2>5. d \in Nat /\ d <= Len(s) /\ d - 1 \in 1..Len(s) /\ k < d - 1
    BY <1>1, <1>2, <2>1, <2>3
  <2>6. r.path = v
    <3>1. n = d - 1
      BY <1>3, <1>7
    <3>2. QED
      BY <1>4, <3>1
  <2>7. /\ v \in Strings /\ Len(v) = d - 1 /\ Slashed(v) = v
        /\ \A i \in 1..(d - 1) : v[i] = S[i]
    <3>1. d - 1 \in 0..Len(S) /\ d - 1 \in 0..Len(s) /\ 1 \in 1..(Len(s) + 1)
      BY <1>1, <2>5
    <3>2. Slashed(v) = v
      BY <3>1, PartNames
    <3> HIDE DEF S, d
    <3>3. QED
      BY <1>1, <3>1, <3>2, StartFacts
  <2>8. LastOf(v, "/") = k
    <3>1. /\ k \in 0..Len(s) /\ (k # 0 => S[k] = "/")
          /\ \A i \in (k + 1)..Len(s) : S[i] # "/"
      <4> HIDE DEF S
      <4>1. QED
        BY <1>1, LastOfFacts
    <3>2. /\ k \in 0..Len(v) /\ (k # 0 => v[k] = "/")
          /\ \A i \in (k + 1)..Len(v) : v[i] # "/"
      <4> HIDE DEF v, S, k, d
      <4>1. k # 0 => k \in 1..(d - 1)
        BY <2>3, <2>5
      <4>2. \A i \in (k + 1)..(d - 1) : i \in 1..(d - 1) /\ i \in (k + 1)..Len(s)
        BY <2>3, <2>5
      <4>3. QED
        BY <2>3, <2>5, <2>7, <3>1, <4>1, <4>2
    <3> HIDE DEF v, k
    <3>3. QED
      BY <2>7, <3>2, LastOfIs
  <2>9. /\ SubSeq(v, k + 1, d - 1) = e
        /\ k # 0 => SubSeq(v, 1, k - 1) = SubSeq(S, 1, k - 1)
    <3>1. /\ 1 \in 1..(Len(S) + 1) /\ d - 1 \in 0..Len(S)
          /\ k + 1 \in Nat \ {0} /\ d - 1 \in Nat /\ d - 1 <= (d - 1) - 1 + 1
          /\ 1 + (k + 1) - 1 = k + 1 /\ 1 + (d - 1) - 1 = d - 1
      BY <1>1, <2>3, <2>5, SMTT(60)
    <3>2. k # 0 => /\ 1 \in Nat \ {0} /\ k - 1 \in Nat /\ k - 1 <= (d - 1) - 1 + 1
                   /\ 1 + 1 - 1 = 1 /\ 1 + (k - 1) - 1 = k - 1
      BY <1>1, <2>3, <2>5
    <3>3. SubSeq(v, k + 1, d - 1) = SubSeq(S, 1 + (k + 1) - 1, 1 + (d - 1) - 1)
      <4> HIDE DEF S, k, d
      <4>1. QED
        BY <1>1, <3>1, PartOfPart, ZenonT(60)
    <3>4. k # 0 => SubSeq(v, 1, k - 1) = SubSeq(S, 1 + 1 - 1, 1 + (k - 1) - 1)
      <4> HIDE DEF S, k, d
      <4>1. QED
        BY <1>1, <3>1, <3>2, PartOfPart
    <3> HIDE DEF S, k, d, v
    <3>5. QED
      BY <3>1, <3>2, <3>3, <3>4
  <2>10. Names(v) = ns \o <<e>>
    <3>1. /\ k = 0 => Names(v) = <<>> \o <<SubSeq(v, k + 1, d - 1)>>
          /\ k # 0 => Names(v) = Names(SubSeq(v, 1, k - 1)) \o <<SubSeq(v, k + 1, d - 1)>>
      <4>1. LastOf(Slashed(v), "/") = k /\ k < Len(v)
        BY <2>5, <2>7, <2>8
      <4> HIDE DEF v, k
      <4>2. QED
        BY <2>7, <4>1, NamesAtLast
    <3> HIDE DEF v, k, e, S
    <3>2. QED
      BY <2>4, <2>9, <3>1
  <2>11. e \in Strings
    <3>1. k + 1 \in 1..(Len(s) + 1) /\ d - 1 \in 0..Len(s)
      BY <2>3, <2>5
    <3>2. QED
      BY <3>1, PartNames
  <2>12. Root(v) = Root(s)
    BY <2>5, RootOfPart
  <2>13. e = SubSeq(t, 1, LastOf(t, ".") - 1)
    <3>1. \A i \in 1..(Len(s) - k) : t[i] = S[k + i]
      <4>1. k + 1 \in 1..(Len(S) + 1) /\ Len(s) \in 0..Len(S)
        BY <1>1, <2>3
      <4>2. \A i \in 1..(Len(s) - (k + 1) + 1) : t[i] = S[(k + 1) + i - 1]
        <5> HIDE DEF S, k
        <5>1. QED
          BY <1>1, <4>1, PartFacts
      <4>3. \A i \in 1..(Len(s) - k) : i \in 1..(Len(s) - (k + 1) + 1) /\ (k + 1) + i - 1 = k + i
        BY <1>1, <2>3
      <4> HIDE DEF S, k, t
      <4>4. QED
        BY <4>2, <4>3
    <3>2. LastOf(t, ".") = d - k
      <4>1. S[d] = "." /\ \A i \in (d + 1)..Len(s) : S[i] # "."
        <5>1. \A i \in (d + 1)..Len(s) : i \in 1..Len(s)
          BY <1>1, <2>5
        <5>2. d \in 1..Len(s)
          BY <1>1, <2>5, <1>7
        <5> HIDE DEF S, d
        <5>3. QED
          BY <1>1, <1>2, <1>7, <5>1, <5>2
      <4> HIDE DEF S, k, d, t
      <4>2. d - k \in 1..(Len(s) - k) /\ k + (d - k) = d
        BY <1>1, <2>3, <2>5
      <4>3. t[d - k] = S[k + (d - k)]
        BY <3>1, <4>2
      <4>4. ASSUME NEW i \in (d - k + 1)..(Len(s) - k) PROVE t[i] # "."
        <5>1. i \in 1..(Len(s) - k) /\ k + i \in (d + 1)..Len(s)
          BY <1>1, <2>3, <2>5
        <5>2. QED
          BY <3>1, <4>1, <5>1
      <4>5. /\ d - k \in 0..Len(t) /\ t[d - k] = "."
            /\ \A i \in (d - k + 1)..Len(t) : t[i] # "."
        BY <2>3, <4>1, <4>2, <4>3, <4>4
      <4>6. QED
        BY <2>3, <4>5, LastOfIs
    <3>3. SubSeq(t, 1, d - k - 1) = e
      <4>1. /\ k + 1 \in 1..(Len(S) + 1) /\ Len(s) \in 0..Len(S)
            /\ 1 \in Nat \ {0} /\ d - k - 1 \in Nat /\ d - k - 1 <= Len(s) - (k + 1) + 1
            /\ (k + 1) + 1 - 1 = k + 1 /\ (k + 1) + (d - k - 1) - 1 = d - 1
        BY <1>1, <2>3, <2>5, SMTT(60)
      <4> HIDE DEF S, k, d
      <4>2. SubSeq(t, 1, d - k - 1) = SubSeq(S, (k + 1) + 1 - 1, (k + 1) + (d - k - 1) - 1)
        BY <1>1, <4>1, PartOfPart, ZenonT(60)
      <4>3. QED
        BY <4>1, <4>2
    <3> HIDE DEF t, e, d, k
    <3>4. QED
      BY <3>2, <3>3
  <2> HIDE DEF v, e, t, k, d
  <2>14. Node(v) = <<Root(v)>> \o Names(v) /\ Root(v) \in {"/", "."}
    BY <2>7, NodeFacts
  <2>15. Node(v) = Append(<<Root(s)>> \o ns, e)
    BY <2>10, <2>11, <2>12, <2>14, NodeEnd
  <2>16. QED
    BY <1>5, <1>7, <2>3, <2>4, <2>6, <2>13, <2>15 DEF r
<1>8. QED
  BY <1>6, <1>7

\* Slashing a part of a string is taking the part of the slashed one.
LEMMA SlashedPart ==
  ASSUME NEW s \in Strings, NEW m \in 1..(Len(s) + 1), NEW n \in 0..Len(s)
  PROVE  Slashed(SubSeq(s, m, n)) = SubSeq(Slashed(s), m, n)
<1> DEFINE S == Slashed(s)
           u == SubSeq(s, m, n)
           v == SubSeq(S, m, n)
           w == Slashed(u)
<1>1. /\ S \in Strings /\ Len(S) = Len(s) /\ Len(s) \in Nat
      /\ \A i \in 1..Len(s) : S[i] = IF s[i] = "\\" THEN "/" ELSE s[i]
  BY SlashedFacts
<1> HIDE DEF S
<1>2. /\ u \in Strings /\ Len(u) = IF m <= n THEN n - m + 1 ELSE 0
      /\ \A i \in 1..(n - m + 1) : u[i] = s[m + i - 1]
  BY PartFacts
<1>3. /\ v \in Strings /\ Len(v) = IF m <= n THEN n - m + 1 ELSE 0
      /\ \A i \in 1..(n - m + 1) : v[i] = S[m + i - 1]
  BY <1>1, PartFacts
<1> HIDE DEF u, v
<1>4. /\ w \in Strings /\ Len(w) = Len(u)
      /\ \A i \in 1..Len(u) : w[i] = IF u[i] = "\\" THEN "/" ELSE u[i]
  BY <1>2, SlashedFacts
<1> HIDE DEF w
<1>5. ASSUME NEW i \in 1..Len(w) PROVE w[i] = v[i]
  <2>1. i \in 1..(n - m + 1) /\ m + i - 1 \in 1..Len(s) /\ i \in 1..Len(u)
    BY <1>1, <1>2, <1>4
  <2>2. QED
    BY <1>1, <1>2, <1>3, <1>4, <2>1
<1>6. w = v
  BY <1>2, <1>3, <1>4, <1>5, StringsEqual
<1>7. QED
  BY <1>6 DEF w, v, S, u

LEMMA NoBytes ==
  /\ <<>> \in Strings /\ Len(<<>>) = 0 /\ Slashed(<<>>) = <<>>
  /\ Parts(<<>>) = <<>> /\ Names(<<>>) = <<>> /\ Root(<<>>) = "."
  /\ \A s \in Strings : s = <<>> <=> Len(s) = 0
<1>1. <<>> \in Strings /\ Len(<<>>) = 0 /\ \A s \in Strings : s = <<>> <=> Len(s) = 0
  BY EmptySeq DEF Strings
<1>2. Slashed(<<>>) = <<>>
  BY <1>1, SlashedFacts
<1>3. LastOf(<<>>, "/") = 0
  BY <1>1, LastOfFacts
<1>4. Parts(<<>>) = <<>>
  BY <1>1, <1>3, PartsAtLast DEF Piece
<1>5. QED
  BY <1>1, <1>2, <1>4, NodeFacts DEF Root

\* A separator anywhere parts the names of a path.
LEMMA NamesSplit ==
  ASSUME NEW s \in Strings, NEW k \in 1..Len(s), s[k] \in {"/", "\\"}
  PROVE  Names(s) = Names(SubSeq(s, 1, k - 1)) \o Names(SubSeq(s, k + 1, Len(s)))
<1> DEFINE S == Slashed(s)
           u == SubSeq(s, 1, k - 1)
           v == SubSeq(s, k + 1, Len(s))
<1>1. /\ S \in Strings /\ Len(S) = Len(s) /\ Len(s) \in Nat /\ S[k] = "/"
  BY SlashedFacts
<1>2. /\ 1 \in 1..(Len(s) + 1) /\ k - 1 \in 0..Len(s)
      /\ k + 1 \in 1..(Len(s) + 1) /\ Len(s) \in 0..Len(s)
  BY <1>1
<1>3. u \in Strings /\ v \in Strings
  BY <1>2, PartFacts
<1>4. Slashed(u) = SubSeq(S, 1, k - 1) /\ Slashed(v) = SubSeq(S, k + 1, Len(s))
  BY <1>2, SlashedPart
<1>5. Parts(S) = Parts(SubSeq(S, 1, k - 1)) \o Parts(SubSeq(S, k + 1, Len(S)))
  <2> HIDE DEF S
  <2>1. QED
    BY <1>1, PartsSplit
<1> HIDE DEF u, v
<1>6. Names(s) = Parts(S) /\ Names(u) = Parts(Slashed(u)) /\ Names(v) = Parts(Slashed(v))
  BY <1>3, NodeFacts
<1> HIDE DEF S
<1>7. Names(s) = Names(u) \o Names(v)
  BY <1>1, <1>4, <1>5, <1>6
<1>8. QED
  BY <1>7 DEF u, v

LEMMA RootIs ==
  ASSUME NEW s \in Strings, s # <<>>
  PROVE  Root(s) = IF s[1] \in {"/", "\\"} THEN "/" ELSE "."
<1>1. 1 \in 1..Len(s)
  <2>1. Len(s) \in Nat /\ Len(s) # 0
    BY NoBytes DEF Strings
  <2>2. QED
    BY <2>1
<1>2. Slashed(s)[1] = IF s[1] = "\\" THEN "/" ELSE s[1]
  BY <1>1, SlashedFacts
<1>3. QED
  BY <1>2 DEF Root

\* The leaf without its first slash.
LEMMA JoinLeafNames ==
  ASSUME NEW t \in Strings
  PROVE  Names(JoinLeaf(t)) = Names(t) /\ JoinLeaf(t) \in Strings
<1>1. CASE t # <<>> /\ Head(t) = "/"
  <2>1. JoinLeaf(t) = SubSeq(t, 2, Len(t)) /\ JoinLeaf(t) \in Strings
    <3>1. JoinLeaf(t) = Tail(t)
      BY <1>1 DEF JoinLeaf
    <3>2. QED
      BY <1>1, <3>1, TailIsSubSeq, HeadTailProperties DEF Strings
  <2>2. 1 \in 1..Len(t) /\ t[1] = "/"
    <3>1. Len(t) \in Nat /\ Len(t) # 0
      BY <1>1, NoBytes DEF Strings
    <3>2. QED
      BY <1>1, <3>1 DEF Strings
  <2>3. Names(t) = Names(SubSeq(t, 1, 0)) \o Names(SubSeq(t, 2, Len(t)))
    <3>1. Names(t) = Names(SubSeq(t, 1, 1 - 1)) \o Names(SubSeq(t, 1 + 1, Len(t)))
      BY <2>2, NamesSplit
    <3>2. 1 - 1 = 0 /\ 1 + 1 = 2
      OBVIOUS
    <3>3. QED
      BY <3>1, <3>2
  <2>4. SubSeq(t, 1, 0) = <<>>
    BY SubSeqEmpty
  <2>5. Names(JoinLeaf(t)) \in Seq(Strings)
    BY <2>1, NodeFacts
  <2>6. Names(t) = <<>> \o Names(JoinLeaf(t))
    BY <2>1, <2>3, <2>4, NoBytes
  <2>7. QED
    BY <2>1, <2>5, <2>6, ConcatEmptySeq
<1>2. CASE ~(t # <<>> /\ Head(t) = "/")
  BY <1>2 DEF JoinLeaf
<1>3. QED
  BY <1>1, <1>2

\* The parent without its last slash, and the leaf without its first.
LEMMA JoinPartsNode ==
  ASSUME NEW s \in Strings
  PROVE  Node(JoinParent(s)) = Node(s) /\ Names(JoinLeaf(s)) = Names(s)
<1>1. Len(s) \in Nat
  BY DEF Strings
<1>2. CASE Len(s) > 1 /\ Last(s) = "/"
  <2> DEFINE p == SubSeq(s, 1, Len(s) - 1)
  <2>1. JoinParent(s) = p
    BY <1>2 DEF JoinParent, Front
  <2>2. Len(s) \in 1..Len(s) /\ s[Len(s)] = "/" /\ Len(s) - 1 \in 0..Len(s)
        /\ Len(s) \in Int /\ Len(s) + 1 \in Int /\ Len(s) < Len(s) + 1 /\ 1 \in 1..(Len(s) - 1)
    BY <1>1, <1>2 DEF Last
  <2>3. p \in Strings /\ Len(p) = Len(s) - 1 /\ p[1] = s[1]
    BY <2>2, StartFacts
  <2>4. SubSeq(s, Len(s) + 1, Len(s)) = <<>>
    BY <2>2, SubSeqEmpty
  <2> HIDE DEF p
  <2>5. Names(s) = Names(p) \o <<>>
    <3>1. Names(s) = Names(p) \o Names(SubSeq(s, Len(s) + 1, Len(s)))
      BY <2>2, NamesSplit DEF p
    <3>2. QED
      BY <2>4, <3>1, NoBytes
  <2>6. Names(p) \in Seq(Strings)
    BY <2>3, NodeFacts
  <2>7. Names(s) = Names(p)
    BY <2>5, <2>6, ConcatEmptySeq
  <2>8. p # <<>> /\ s # <<>>
    BY <1>1, <1>2, <2>3, NoBytes
  <2>9. Root(p) = Root(s)
    BY <2>3, <2>8, RootIs
  <2>10. Node(JoinParent(s)) = Node(s)
    BY <2>1, <2>3, <2>7, <2>9, NodeFacts
  <2>11. QED
    BY <2>10, JoinLeafNames
<1>3. CASE ~(Len(s) > 1 /\ Last(s) = "/")
  BY <1>3, JoinLeafNames DEF JoinParent
<1>4. QED
  BY <1>2, <1>3

\* The parts a string was put together from.
LEMMA PartsOfConcat ==
  ASSUME NEW s \in Strings, NEW t \in Strings
  PROVE  /\ s \o t \in Strings /\ Len(s \o t) = Len(s) + Len(t)
         /\ Len(s) \in Nat /\ Len(t) \in Nat
         /\ \A i \in 1..Len(s) : (s \o t)[i] = s[i]
         /\ SubSeq(s \o t, 1, Len(s)) = s
         /\ SubSeq(s \o t, Len(s) + 1, Len(s) + Len(t)) = t
<1> DEFINE w == s \o t
           u == SubSeq(w, 1, Len(s))
           v == SubSeq(w, Len(s) + 1, Len(s) + Len(t))
<1>1. Len(s) \in Nat /\ Len(t) \in Nat
  BY DEF Strings
<1>2. /\ w \in Strings /\ Len(w) = Len(s) + Len(t)
      /\ \A i \in 1..Len(s) + Len(t) : w[i] = IF i <= Len(s) THEN s[i] ELSE t[i - Len(s)]
  BY ConcatProperties DEF Strings
<1> HIDE DEF w
<1>3. /\ \A i \in 1..Len(s) : w[i] = s[i]
      /\ \A i \in 1..Len(t) : w[Len(s) + i] = t[i]
  <2>1. \A i \in 1..Len(s) : w[i] = s[i]
    BY <1>1, <1>2
  <2>2. ASSUME NEW i \in 1..Len(t) PROVE w[Len(s) + i] = t[i]
    <3>1. Len(s) + i \in 1..Len(s) + Len(t) /\ ~(Len(s) + i <= Len(s)) /\ Len(s) + i - Len(s) = i
      BY <1>1
    <3>2. QED
      BY <1>2, <3>1
  <2>3. QED
    BY <2>1, <2>2
<1>4. u = s
  <2>1. Len(s) \in 0..Len(w)
    BY <1>1, <1>2
  <2>2. u \in Strings /\ Len(u) = Len(s) /\ \A i \in 1..Len(s) : u[i] = w[i]
    BY <1>2, <2>1, StartFacts
  <2> HIDE DEF u
  <2>3. QED
    BY <1>3, <2>2, StringsEqual
<1>5. v = t
  <2>1. /\ Len(s) + 1 \in 1..(Len(w) + 1) /\ Len(s) + Len(t) \in 0..Len(w)
        /\ Len(s) + Len(t) - (Len(s) + 1) + 1 = Len(t)
        /\ (Len(s) + 1 <= Len(s) + Len(t)) <=> Len(t) # 0
        /\ \A i \in 1..Len(t) : (Len(s) + 1) + i - 1 = Len(s) + i
    BY <1>1, <1>2
  <2>2. /\ v \in Strings
        /\ Len(v) = IF Len(s) + 1 <= Len(s) + Len(t) THEN Len(s) + Len(t) - (Len(s) + 1) + 1 ELSE 0
        /\ \A i \in 1..(Len(s) + Len(t) - (Len(s) + 1) + 1) : v[i] = w[(Len(s) + 1) + i - 1]
    BY <1>2, <2>1, PartFacts
  <2> HIDE DEF v
  <2>3. Len(v) = Len(t) /\ \A i \in 1..Len(t) : v[i] = t[i]
    BY <1>1, <1>3, <2>1, <2>2
  <2>4. QED
    BY <2>2, <2>3, StringsEqual
<1>6. QED
  BY <1>1, <1>2, <1>3, <1>4, <1>5 DEF w, u, v

\* What a leaf is put below, where a separator is between the two.
LEMMA JoinedNode ==
  ASSUME NEW p \in Strings, NEW l \in Strings,
         Len(p) > 1 \/ p \in {<<"/">>, <<"\\">>}
  PROVE  /\ Joined(p, l) \in Strings
         /\ Names(Joined(p, l)) = Names(p) \o Names(l) /\ Root(Joined(p, l)) = Root(p)
<1>1. Len(p) \in Nat /\ p # <<>> /\ Len(p) # 0 /\ 1 \in 1..Len(p)
  <2>1. Len(p) \in Nat
    BY DEF Strings
  <2>2. Len(<<"/">>) = 1 /\ Len(<<"\\">>) = 1
    OBVIOUS
  <2>3. Len(p) # 0
    BY <2>1, <2>2
  <2>4. QED
    BY <2>1, <2>3, NoBytes
<1>2. Names(p) \in Seq(Strings) /\ Names(l) \in Seq(Strings)
  BY NodeFacts
<1>3. CASE l = <<>>
  <2>1. Joined(p, l) = p
    BY <1>3 DEF Joined
  <2>2. Names(p) \o <<>> = Names(p)
    BY <1>2, ConcatEmptySeq
  <2>3. QED
    BY <1>3, <2>1, <2>2, NoBytes
<1>4. CASE l # <<>> /\ Len(p) > 1
  <2> DEFINE q == p \o <<"/">>
             w == q \o l
             k == Len(p) + 1
  <2>1. <<"/">> \in Strings /\ Len(<<"/">>) = 1 /\ <<"/">>[1] = "/"
    BY BytesAssumption DEF Strings
  <2>2. /\ q \in Strings /\ Len(q) = k /\ q[k] = "/" /\ SubSeq(q, 1, Len(p)) = p
        /\ \A i \in 1..Len(p) : q[i] = p[i]
    <3>1. /\ q \in Strings /\ Len(q) = Len(p) + Len(<<"/">>)
          /\ SubSeq(q, 1, Len(p)) = p
          /\ \A i \in 1..Len(p) : q[i] = p[i]
      BY <2>1, PartsOfConcat
    <3>2. q[Len(p) + 1] = "/"
      <4>1. q = Append(p, "/")
        BY BytesAssumption, AppendIsConcat DEF Strings
      <4>2. QED
        BY <4>1, <1>1, BytesAssumption, AppendProperties DEF Strings
    <3> HIDE DEF q
    <3>3. QED
      BY <2>1, <3>1, <3>2
  <2> HIDE DEF q
  <2>3. /\ w \in Strings /\ Len(w) = k + Len(l) /\ Len(l) \in Nat
        /\ \A i \in 1..k : w[i] = q[i]
        /\ SubSeq(w, 1, k) = q /\ SubSeq(w, k + 1, k + Len(l)) = l
    <3> HIDE DEF k
    <3>1. QED
      BY <2>2, PartsOfConcat
  <2>4. Joined(p, l) = w
    <3>1. Joined(p, l) = p \o <<"/">> \o l
      BY <1>4 DEF Joined
    <3>2. (p \o <<"/">>) \o l = p \o (<<"/">> \o l)
      BY <2>1, ConcatAssociative DEF Strings
    <3>3. QED
      BY <3>1, <3>2 DEF q
  <2>5. k \in 1..Len(w) /\ w[k] = "/" /\ k - 1 = Len(p) /\ Len(p) \in 0..k
    BY <1>1, <2>2, <2>3
  <2>6. SubSeq(w, 1, k - 1) = p
    <3>1. /\ 1 \in 1..(Len(w) + 1) /\ k \in 0..Len(w) /\ 1 \in Nat \ {0}
          /\ Len(p) \in Nat /\ Len(p) <= k - 1 + 1
          /\ 1 + 1 - 1 = 1 /\ 1 + Len(p) - 1 = Len(p)
      BY <1>1, <2>3
    <3> HIDE DEF w, k
    <3>2. SubSeq(SubSeq(w, 1, k), 1, Len(p)) = SubSeq(w, 1 + 1 - 1, 1 + Len(p) - 1)
      BY <2>3, <3>1, PartOfPart
    <3>3. QED
      BY <2>2, <2>3, <2>5, <3>1, <3>2
  <2> HIDE DEF w
  <2>7. Names(w) = Names(SubSeq(w, 1, k - 1)) \o Names(SubSeq(w, k + 1, Len(w)))
    <3> HIDE DEF k
    <3>1. QED
      BY <2>3, <2>5, NamesSplit
  <2>8. w[1] = p[1] /\ w # <<>>
    <3>1. 1 \in 1..k /\ Len(w) # 0
      BY <1>1, <2>3
    <3>2. QED
      BY <1>1, <2>2, <2>3, <3>1, NoBytes
  <2>9. Root(w) = Root(p)
    BY <1>1, <2>3, <2>8, RootIs
  <2>10. QED
    BY <2>3, <2>4, <2>6, <2>7, <2>9
<1>5. CASE l # <<>> /\ p \in {<<"/">>, <<"\\">>}
  <2> DEFINE w == p \o l
  <2>1. Len(p) = 1 /\ p[1] \in {"/", "\\"}
    BY <1>5
  <2>2. Joined(p, l) = w
    BY <1>5, <2>1 DEF Joined
  <2>3. /\ w \in Strings /\ Len(w) = 1 + Len(l) /\ Len(l) \in Nat /\ w[1] = p[1]
        /\ SubSeq(w, 2, 1 + Len(l)) = l
    <3>1. /\ w \in Strings /\ Len(w) = Len(p) + Len(l) /\ Len(l) \in Nat
          /\ \A i \in 1..Len(p) : w[i] = p[i]
          /\ SubSeq(w, Len(p) + 1, Len(p) + Len(l)) = l
      BY PartsOfConcat
    <3>2. Len(p) + 1 = 2 /\ 1 \in 1..Len(p)
      BY <2>1
    <3> HIDE DEF w
    <3>3. QED
      BY <2>1, <3>1, <3>2
  <2>4. ASSUME NEW u \in Strings, Len(u) \in Nat \ {0}, u[1] \in {"/", "\\"}
        PROVE  Names(u) = Names(SubSeq(u, 2, Len(u)))
    <3>1. 1 \in 1..Len(u) /\ 1 - 1 = 0 /\ 1 + 1 = 2
      BY <2>4
    <3>2. Names(u) = Names(SubSeq(u, 1, 1 - 1)) \o Names(SubSeq(u, 1 + 1, Len(u)))
      BY <2>4, <3>1, NamesSplit
    <3>3. SubSeq(u, 1, 0) = <<>>
      BY SubSeqEmpty
    <3>4. Names(u) = <<>> \o Names(SubSeq(u, 2, Len(u)))
      BY <3>1, <3>2, <3>3, NoBytes
    <3>5. SubSeq(u, 2, Len(u)) \in Strings
      <4>1. 2 \in 1..(Len(u) + 1) /\ Len(u) \in 0..Len(u)
        BY <2>4
      <4>2. QED
        BY <4>1, PartFacts
    <3>6. Names(SubSeq(u, 2, Len(u))) \in Seq(Strings)
      BY <3>5, NodeFacts
    <3>7. QED
      BY <3>4, <3>6, ConcatEmptySeq
  <2> HIDE DEF w
  <2>5. Names(w) = Names(l)
    <3>1. Len(w) \in Nat \ {0}
      BY <2>3
    <3>2. QED
      BY <2>1, <2>3, <2>4, <3>1
  <2>6. Names(p) = <<>>
    <3>1. SubSeq(p, 2, Len(p)) = <<>>
      BY <2>1, SubSeqEmpty
    <3>2. Len(p) \in Nat \ {0}
      BY <2>1
    <3>3. QED
      BY <2>1, <2>4, <3>1, <3>2, NoBytes
  <2>7. <<>> \o Names(l) = Names(l)
    BY <1>2, ConcatEmptySeq
  <2>8. Root(w) = Root(p)
    <3>1. Len(w) # 0
      BY <2>3
    <3>2. w # <<>>
      BY <2>3, <3>1, NoBytes
    <3>3. QED
      BY <1>1, <2>3, <3>2, RootIs
  <2>9. QED
    BY <2>2, <2>3, <2>5, <2>6, <2>7, <2>8
<1>6. QED
  BY <1>3, <1>4, <1>5

LEMMA JoinMeans ==
  ASSUME NEW s \in Strings, NEW t \in Strings, NEW size,
         RootOrLonger(s), path_join(s, t, size).ok
  PROVE  Node(path_join(s, t, size).path) = Node(s) \o Names(t)
<1> DEFINE p == JoinParent(s)
           l == JoinLeaf(t)
           w == Joined(p, l)
           T == {"/", "."} \cup Strings
<1>1. path_join(s, t, size).path = w
  <2>1. path_join(s, t, size) = IF JoinFits(p, l, size) THEN Written(w) ELSE NoMem
    BY DEF path_join
  <2>2. CASE JoinFits(p, l, size)
    <3>1. path_join(s, t, size) = Written(w)
      BY <2>1, <2>2
    <3> HIDE DEF w
    <3>2. QED
      BY <3>1 DEF Written
  <2>3. CASE ~JoinFits(p, l, size)
    <3>1. path_join(s, t, size) = NoMem
      BY <2>1, <2>3
    <3>2. QED
      BY <3>1 DEF NoMem
  <2>4. QED
    BY <2>2, <2>3
<1>2. p \in Strings /\ l \in Strings /\ Node(p) = Node(s) /\ Names(l) = Names(t)
  BY JoinParentFacts, JoinPartsNode, JoinLeafNames
<1>3. w \in Strings /\ Names(w) = Names(p) \o Names(l) /\ Root(w) = Root(p)
  <2>1. Len(p) > 1 \/ p \in {<<"/">>, <<"\\">>}
    BY DEF RootOrLonger
  <2> HIDE DEF p, l
  <2>2. QED
    BY <1>2, <2>1, JoinedNode
<1> HIDE DEF w, p, l
<1>4. /\ Node(w) = <<Root(w)>> \o Names(w) /\ Node(p) = <<Root(p)>> \o Names(p)
      /\ Root(p) \in {"/", "."} /\ Names(p) \in Seq(Strings) /\ Names(l) \in Seq(Strings)
  BY <1>2, <1>3, NodeFacts
<1>5. (<<Root(p)>> \o Names(p)) \o Names(l) = <<Root(p)>> \o (Names(p) \o Names(l))
  <2> DEFINE x == <<Root(p)>>
             y == Names(p)
             z == Names(l)
  <2>1. x \in Seq(T) /\ y \in Seq(T) /\ z \in Seq(T)
    <3>1. Strings \subseteq T /\ Root(p) \in T
      BY <1>4
    <3>2. y \in Seq(T) /\ z \in Seq(T)
      BY <1>4, <3>1, SeqMonotonic
    <3> HIDE DEF T
    <3>3. QED
      BY <3>1, <3>2
  <2> HIDE DEF x, y, z, T
  <2>2. (x \o y) \o z = x \o (y \o z)
    BY <2>1, ConcatAssociative
  <2>3. QED
    BY <2>2 DEF x, y, z
<1>6. QED
  BY <1>1, <1>2, <1>3, <1>4, <1>5

-----------------------------------------------------------------------------
(* Walking along a path. *)

LEMMA NextMarkFacts ==
  ASSUME NEW s \in Strings, NEW m \in 0..Len(s)
  PROVE  /\ NextMark(s, m) \in (m + 1)..(Len(s) + 1)
         /\ NextMark(s, m) <= Len(s) => s[NextMark(s, m)] = "/"
         /\ \A j \in (m + 1)..(NextMark(s, m) - 1) : s[j] # "/"
<1> DEFINE S == {i \in (m + 1)..(Len(s) + 1) : i = Len(s) + 1 \/ s[i] = "/"}
<1>1. Len(s) \in Nat
  BY DEF Strings
<1>2. PICK i \in S : \A j \in S : i <= j
  <2>1. S \subseteq Nat /\ Len(s) + 1 \in S
    BY <1>1
  <2> HIDE DEF S
  <2>2. QED
    BY <2>1, LeastExists
<1>3. \A j \in (m + 1)..(i - 1) : s[j] # "/"
  <2>1. SUFFICES ASSUME NEW j \in (m + 1)..(i - 1), s[j] = "/" PROVE FALSE
    OBVIOUS
  <2>2. j \in S /\ j < i
    BY <1>1, <1>2, <2>1
  <2>3. QED
    BY <1>1, <1>2, <2>2
<1>4. PICK x : x = NextMark(s, m)
  OBVIOUS
<1>5. /\ x \in (m + 1)..(Len(s) + 1) /\ (x = Len(s) + 1 \/ s[x] = "/")
      /\ \A j \in (m + 1)..(x - 1) : s[j] # "/"
  <2> DEFINE IsNext(y) == /\ y = Len(s) + 1 \/ s[y] = "/"
                         /\ \A j \in (m + 1)..(y - 1) : s[j] # "/"
  <2>1. i \in (m + 1)..(Len(s) + 1) /\ IsNext(i)
    BY <1>2, <1>3
  <2>2. x = CHOOSE y \in (m + 1)..(Len(s) + 1) : IsNext(y)
    BY <1>4 DEF NextMark
  <2> HIDE DEF IsNext
  <2>3. x \in (m + 1)..(Len(s) + 1) /\ IsNext(x)
    BY <2>1, <2>2
  <2>4. QED
    BY <2>3 DEF IsNext
<1>6. x <= Len(s) => s[x] = "/"
  BY <1>1, <1>5
<1>7. QED
  BY <1>4, <1>5, <1>6

LEMMA ConvertedFacts ==
  ASSUME NEW s \in Strings
  PROVE  utf8_to_uc2(s) \in Strings /\ (utf8_to_uc2(s) = s \/ Len(utf8_to_uc2(s)) < Len(s))
<1> DEFINE I == {i \in 1..Len(s) : utf8_codepoint(s[i]) = 0}
           stop == IF I # {} THEN Min(I) ELSE 0
<1>1. utf8_to_uc2(s) = IF stop = 0 THEN s ELSE SubSeq(s, 1, stop - 1)
  BY DEF utf8_to_uc2, SelectInSeq
<1>2. Len(s) \in Nat /\ I \in SUBSET (1..Len(s))
  BY DEF Strings
<1>3. stop \in 0..Len(s)
  <2> HIDE DEF I
  <2>1. QED
    BY <1>2, MinFacts
<1> HIDE DEF stop
<1>4. stop # 0 => SubSeq(s, 1, stop - 1) \in Strings /\ Len(SubSeq(s, 1, stop - 1)) < Len(s)
  <2>1. stop # 0 => stop - 1 \in 0..Len(s) /\ stop - 1 < Len(s)
    BY <1>2, <1>3
  <2>2. QED
    BY <2>1, StartFacts
<1>5. QED
  BY <1>1, <1>4

-----------------------------------------------------------------------------
(* What is written, and where the mark is. *)

Writes == [bytes : Nat, by : {"nobody", "parent", "leaf", "without_ext", "join"}, p : Nat]

Typed ==
  /\ pc \in [Programs -> {"idle", "building", "stat", "mkdir"}]
  /\ path \in [Programs -> Strings]
  /\ mark \in [Programs -> Nat]
  /\ wrote \in [Programs -> Writes]

\* A program that creates directories has its mark on the end of a prefix of its path.
MarkInPath ==
  \A a \in Programs :
    /\ mark[a] \in 0..(Len(path[a]) + 1)
    /\ mark[a] = 0 <=> pc[a] \in {"idle", "building"}

WInv == Typed /\ MarkInPath /\ WritesFit

LEMMA InitWInv == Init => WInv
<1> SUFFICES ASSUME Init PROVE WInv
  OBVIOUS
<1>1. <<>> \in Strings /\ Len(<<>>) = 0
  BY EmptySeq DEF Strings
<1>2. Typed
  BY <1>1 DEF Init, Typed, Writes, Nothing
<1>3. MarkInPath
  BY <1>1 DEF Init, MarkInPath
<1>4. WritesFit
  BY BoundsAssumption DEF Init, WritesFit, Nothing
<1>5. QED
  BY <1>2, <1>3, <1>4 DEF WInv

LEMMA StartWrites ==
  ASSUME WInv, NEW a \in Programs, Start(a)
  PROVE  WInv'
<1>1. PICK s \in Paths : path' = [path EXCEPT ![a] = s]
  BY DEF Start
<1>2. /\ s \in Strings /\ Len(s) \in Nat /\ mark' = mark /\ wrote' = wrote
      /\ pc[a] = "idle" /\ pc' = [pc EXCEPT ![a] = "building"]
  BY PathsAssumption DEF Start, Strings
<1>3. Typed'
  BY <1>1, <1>2 DEF WInv, Typed
<1>4. MarkInPath'
  BY <1>1, <1>2 DEF WInv, Typed, MarkInPath
<1>5. WritesFit'
  BY <1>2 DEF WInv, WritesFit
<1>6. QED
  BY <1>3, <1>4, <1>5 DEF WInv

\* What a path function leaves a program with.
Kept(by, result, s) ==
  IF result.ok THEN result.path ELSE IF by = "join" THEN s ELSE Slashed(s)

LEMMA KeptFacts ==
  ASSUME NEW by, NEW result, NEW s \in Strings, result.ok => result.path \in Strings
  PROVE  /\ Kept(by, result, s) \in Strings /\ Len(Kept(by, result, s)) \in Nat
         /\ ~result.ok => Node(Kept(by, result, s)) = Node(s)
<1>1. Slashed(s) \in Strings /\ Node(Slashed(s)) = Node(s)
  BY SlashedFacts, SlashedNode
<1>2. Kept(by, result, s) \in Strings
  BY <1>1 DEF Kept
<1>3. ~result.ok => Kept(by, result, s) \in {s, Slashed(s)}
  BY DEF Kept
<1>4. QED
  BY <1>1, <1>2, <1>3 DEF Strings

\* What a call may have written: a join that put in a slash, one byte more.
Bound(by, p) == IF by = "join" /\ p > 1 THEN BufSize + 1 ELSE BufSize

LEMMA CallWrites ==
  ASSUME WInv, NEW a \in Programs,
         NEW by \in {"parent", "leaf", "without_ext", "join"}, NEW p \in Nat,
         NEW result, Fits(result, Bound(by, p)), NEW node,
         Calls(a, by, p, result, node)
  PROVE  WInv'
<1>1. /\ result.path \in Strings /\ result.wrote \in Nat
      /\ result.wrote <= Bound(by, p) /\ Len(result.path) \in Nat
  BY DEF Fits, Strings
<1>2. /\ pc' = pc /\ mark' = mark /\ pc[a] = "building"
      /\ wrote' = [wrote EXCEPT ![a] = [bytes |-> result.wrote, by |-> by, p |-> p]]
      /\ path' = [path EXCEPT ![a] = Kept(by, result, path[a])]
  BY DEF Calls, Kept
<1>3. /\ pc \in [Programs -> {"idle", "building", "stat", "mkdir"}]
      /\ path \in [Programs -> Strings]
      /\ mark \in [Programs -> Nat]
      /\ wrote \in [Programs -> Writes]
  BY DEF WInv, Typed
<1>4. Kept(by, result, path[a]) \in Strings /\ Len(Kept(by, result, path[a])) \in Nat
  BY <1>1, <1>3, KeptFacts
<1>5. [bytes |-> result.wrote, by |-> by, p |-> p] \in Writes
  BY <1>1 DEF Writes
<1>6. Typed'
  <2>1. path' \in [Programs -> Strings]
    BY <1>2, <1>3, <1>4
  <2>2. wrote' \in [Programs -> Writes]
    BY <1>2, <1>3, <1>5
  <2>3. QED
    BY <1>2, <1>3, <2>1, <2>2 DEF Typed
<1>7. MarkInPath'
  <2>1. ASSUME NEW b \in Programs
        PROVE  mark[b] \in 0..(Len(path'[b]) + 1) /\ (mark[b] = 0 <=> pc[b] \in {"idle", "building"})
    <3>1. mark[b] \in 0..(Len(path[b]) + 1) /\ (mark[b] = 0 <=> pc[b] \in {"idle", "building"})
      BY DEF WInv, MarkInPath
    <3>2. CASE b = a
      BY <1>2, <1>3, <1>4, <3>1, <3>2
    <3>3. CASE b # a
      BY <1>2, <1>3, <3>1, <3>3
    <3>4. QED
      BY <3>2, <3>3
  <2>2. QED
    BY <1>2, <2>1 DEF MarkInPath
<1>8. WritesFit'
  <2>1. ASSUME NEW b \in Programs
        PROVE  wrote'[b].bytes <= Bound(wrote'[b].by, wrote'[b].p)
    <3>1. wrote[b].bytes <= Bound(wrote[b].by, wrote[b].p)
      BY DEF WInv, WritesFit, Bound
    <3>2. CASE b = a
      BY <1>1, <1>2, <1>3, <3>2
    <3>3. CASE b # a
      BY <1>2, <1>3, <3>1, <3>3
    <3>4. QED
      BY <3>2, <3>3
  <2>2. QED
    BY <2>1 DEF WritesFit, Bound
<1>9. QED
  BY <1>6, <1>7, <1>8 DEF WInv

LEMMA PathCallWrites ==
  ASSUME WInv, NEW a \in Programs,
         GoToParent(a) \/ TakeLeaf(a) \/ DropExt(a) \/ JoinLeafTo(a)
  PROVE  WInv'
<1>1. path[a] \in Strings /\ BufSize \in Nat
  BY BoundsAssumption DEF WInv, Typed
<1>2. CASE GoToParent(a)
  <2>1. Fits(path_parent(path[a], BufSize), Bound("parent", 0))
    BY <1>1, BeforeFits DEF path_parent, Bound
  <2>2. QED
    BY <1>2, <2>1, CallWrites DEF GoToParent
<1>3. CASE TakeLeaf(a)
  <2>1. Fits(path_leaf(path[a], BufSize), Bound("leaf", 0))
    BY <1>1, LeafFits DEF Bound
  <2>2. QED
    BY <1>3, <2>1, CallWrites DEF TakeLeaf
<1>4. CASE DropExt(a)
  <2>1. Fits(path_without_ext(path[a], BufSize), Bound("without_ext", 0))
    BY <1>1, BeforeFits DEF path_without_ext, Bound
  <2>2. QED
    BY <1>4, <2>1, CallWrites DEF DropExt
<1>5. CASE JoinLeafTo(a)
  <2>1. PICK leaf \in Leaves :
          Calls(a, "join", Len(JoinParent(path[a])), path_join(path[a], leaf, BufSize),
                Means(a, RootOrLonger(path[a]), meant[a] \o Names(leaf)))
    BY <1>5 DEF JoinLeafTo
  <2>2. leaf \in Strings
    BY PathsAssumption
  <2>3. Fits(path_join(path[a], leaf, BufSize), Bound("join", Len(JoinParent(path[a]))))
    BY <1>1, <2>2, JoinWrites DEF Bound
  <2>4. Len(JoinParent(path[a])) \in Nat
    BY <1>1, JoinParentFacts DEF Strings
  <2>5. QED
    BY <2>1, <2>3, <2>4, CallWrites
<1>6. QED
  BY <1>2, <1>3, <1>4, <1>5

LEMMA CreateWrites ==
  ASSUME WInv, NEW a \in Programs, CreateCall(a)
  PROVE  WInv'
<1>1. PICK s : s = Slashed(IF posix THEN path[a] ELSE utf8_to_uc2(path[a]))
  OBVIOUS
<1>2. s \in Strings /\ Len(s) \in Nat
  <2>1. path[a] \in Strings
    BY DEF WInv, Typed
  <2>2. QED
    BY <1>1, <2>1, ConvertedFacts, SlashedFacts
<1>3. NextMark(s, 0) \in 1..(Len(s) + 1)
  BY <1>2, NextMarkFacts
<1>4. /\ pc' = [pc EXCEPT ![a] = "stat"] /\ path' = [path EXCEPT ![a] = s]
      /\ mark' = [mark EXCEPT ![a] = NextMark(s, 0)] /\ wrote' = [wrote EXCEPT ![a] = Nothing]
  BY <1>1 DEF CreateCall
<1>5. Nothing \in Writes
  BY DEF Nothing, Writes
<1>6. Typed'
  BY <1>2, <1>3, <1>4, <1>5 DEF WInv, Typed
<1>7. MarkInPath'
  BY <1>2, <1>3, <1>4 DEF WInv, Typed, MarkInPath
<1>8. WritesFit'
  BY <1>4, BoundsAssumption DEF WInv, Typed, WritesFit, Nothing
<1>9. QED
  BY <1>6, <1>7, <1>8 DEF WInv

LEMMA NextPrefixWrites ==
  ASSUME WInv, NEW a \in Programs, pc[a] \in {"stat", "mkdir"}, NextPrefix(a), wrote' = wrote
  PROVE  WInv'
<1>1. /\ pc \in [Programs -> {"idle", "building", "stat", "mkdir"}]
      /\ path \in [Programs -> Strings]
      /\ mark \in [Programs -> Nat]
      /\ wrote \in [Programs -> Writes]
  BY DEF WInv, Typed
<1>2. \A b \in Programs : /\ mark[b] \in 0..(Len(path[b]) + 1)
                          /\ mark[b] = 0 <=> pc[b] \in {"idle", "building"}
  BY DEF WInv, MarkInPath
<1>3. WritesFit'
  BY DEF WInv, WritesFit
<1>4. path[a] \in Strings /\ Len(path[a]) \in Nat
  BY <1>1 DEF Strings
<1>5. CASE mark[a] <= Len(path[a])
  <2>1. NextMark(path[a], mark[a]) \in 1..(Len(path[a]) + 1)
    BY <1>1, <1>4, <1>5, NextMarkFacts
  <2>2. /\ pc' = [pc EXCEPT ![a] = "stat"] /\ path' = path
        /\ mark' = [mark EXCEPT ![a] = NextMark(path[a], mark[a])]
    BY <1>5 DEF NextPrefix
  <2>3. Typed'
    BY <1>1, <2>1, <2>2 DEF Typed
  <2>4. MarkInPath'
    BY <1>1, <1>2, <1>4, <2>1, <2>2 DEF MarkInPath
  <2>5. QED
    BY <1>3, <2>3, <2>4 DEF WInv
<1>6. CASE ~(mark[a] <= Len(path[a]))
  <2>1. <<>> \in Strings /\ Len(<<>>) = 0
    BY EmptySeq DEF Strings
  <2>2. /\ pc' = [pc EXCEPT ![a] = "idle"] /\ path' = [path EXCEPT ![a] = <<>>]
        /\ mark' = [mark EXCEPT ![a] = 0]
    BY <1>6 DEF NextPrefix
  <2>3. Typed'
    BY <1>1, <2>1, <2>2 DEF Typed
  <2>4. MarkInPath'
    BY <1>1, <1>2, <2>1, <2>2 DEF MarkInPath
  <2>5. QED
    BY <1>3, <2>3, <2>4 DEF WInv
<1>7. QED
  BY <1>5, <1>6

LEMMA SearchWrites ==
  ASSUME WInv, NEW a \in Programs, StatFindsNothing(a)
  PROVE  WInv'
<1>1. Typed'
  BY DEF StatFindsNothing, WInv, Typed
<1>2. MarkInPath'
  BY DEF StatFindsNothing, WInv, Typed, MarkInPath
<1>3. WritesFit'
  BY DEF StatFindsNothing, WInv, WritesFit
<1>4. QED
  BY <1>1, <1>2, <1>3 DEF WInv

\* What moves no program keeps the invariant.
LEMMA SystemWrites ==
  ASSUME WInv, UNCHANGED <<pc, path, mark, wrote>>
  PROVE  WInv'
BY DEF WInv, Typed, MarkInPath, WritesFit

LEMMA NextWInv == WInv /\ [Next]_vars => WInv'
<1> SUFFICES ASSUME WInv, [Next]_vars PROVE WInv'
  OBVIOUS
<1>1. ASSUME NEW a \in Programs, Program(a) PROVE WInv'
  <2>1. CASE Start(a)
    BY <2>1, StartWrites
  <2>2. CASE GoToParent(a) \/ TakeLeaf(a) \/ DropExt(a) \/ JoinLeafTo(a)
    BY <2>2, PathCallWrites
  <2>3. CASE CreateCall(a)
    BY <2>3, CreateWrites
  <2>4. CASE StatFinds(a) \/ Mkdir(a)
    BY <2>4, NextPrefixWrites DEF StatFinds, Mkdir
  <2>5. CASE StatFindsNothing(a)
    BY <2>5, SearchWrites
  <2>6. QED
    BY <1>1, <2>1, <2>2, <2>3, <2>4, <2>5 DEF Program
<1>2. CASE System
  <2>1. ASSUME NEW a \in Programs, MkdirFails(a) PROVE WInv'
    BY <2>1, NextPrefixWrites DEF MkdirFails
  <2>2. ASSUME NEW n, Delete(n) \/ PutFile(n) PROVE WInv'
    BY <2>2, SystemWrites DEF Delete, PutFile
  <2>3. QED
    BY <1>2, <2>1, <2>2 DEF System
<1>3. CASE UNCHANGED vars
  BY <1>3, SystemWrites DEF vars
<1>4. QED
  BY <1>1, <1>2, <1>3 DEF Next


-----------------------------------------------------------------------------
(* The nodes on the way to the end of a path. *)

LEMMA NodeIsSeq ==
  ASSUME NEW s \in Strings
  PROVE  /\ Node(s) \in NodeSeqs /\ Node(s) # <<>>
         /\ Len(Node(s)) \in Nat /\ Len(Node(s)) = Len(Names(s)) + 1
<1>1. /\ Names(s) \in Seq(Strings)
      /\ Node(s) = <<Root(s)>> \o Names(s) /\ Root(s) \in {"/", "."}
  BY NodeFacts
<1>2. /\ Node(s) \in NodeSeqs /\ Len(Node(s)) = Len(Names(s)) + 1 /\ Len(Names(s)) \in Nat
  BY <1>1, NodeLength
<1>3. Node(s) # <<>>
  BY <1>2
<1>4. QED
  BY <1>2, <1>3

\* The start of a node is one of its prefixes.
LEMMA PartIsPrefix ==
  ASSUME NEW n \in NodeSeqs, NEW k \in 0..Len(n)
  PROVE  IsPrefix(SubSeq(n, 1, k), n) /\ SubSeq(n, 1, k) \in Prefixes(n)
<1>1. Len(SubSeq(n, 1, k)) = k
  <2>1. k = 0 \/ (k # 0 /\ 1 \in 1..(Len(n) + 1) /\ k \in 1..Len(n))
    BY DEF NodeSeqs
  <2>2. QED
    BY <2>1 DEF NodeSeqs
<1> DEFINE p == SubSeq(n, 1, k)
<1>2. SubSeq(p, 1, k) = p
  <2>1. p \in Seq({"/", "."} \cup Strings)
    BY DEF NodeSeqs
  <2> HIDE DEF p
  <2>2. QED
    BY <1>1, <2>1, SubSeqFull DEF p
<1>3. IsPrefix(p, n)
  BY <1>1, <1>2 DEF IsPrefix, NodeSeqs
<1>4. p \in Prefixes(n)
  BY DEF Prefixes
<1>5. QED
  BY <1>3, <1>4

\* The part of a path before a slash stands for a node on the way.
LEMMA PrefixNode ==
  ASSUME NEW s \in Strings, NEW m \in 1..(Len(s) + 1), m <= Len(s) => s[m] = "/",
         NEW p, p = SubSeq(s, 1, m - 1), p # <<>>
  PROVE  p \in Strings /\ IsPrefix(Node(p), Node(s)) /\ Node(p) \in Prefixes(Node(s))
<1>1. /\ Len(s) \in Nat /\ p \in Strings /\ Len(p) = m - 1
      /\ \A i \in 1..(m - 1) : p[i] = s[i]
  <2>1. Len(s) \in Nat /\ m - 1 \in 0..Len(s)
    BY DEF Strings
  <2>2. QED
    BY <2>1, StartFacts
<1>2. m # 1 /\ s # <<>>
  <2>1. p # <<>> => Len(p) # 0
    BY <1>1, NoBytes
  <2>2. Len(p) # 0
    BY <2>1
  <2>3. m # 1 /\ Len(s) # 0
    BY <1>1, <2>2
  <2>4. QED
    BY <2>3, NoBytes
<1>3. /\ Node(s) = <<Root(s)>> \o Names(s) /\ Root(s) \in {"/", "."}
      /\ Names(s) \in Seq(Strings)
      /\ Node(p) = <<Root(p)>> \o Names(p) /\ Names(p) \in Seq(Strings)
  BY <1>1, NodeFacts
<1>4. Node(s) \in NodeSeqs /\ Len(Node(s)) \in Nat /\ Len(Node(s)) = Len(Names(s)) + 1
  BY NodeIsSeq
<1>5. CASE m = Len(s) + 1
  <2>1. p = s
    BY <1>1, <1>5, SubSeqFull DEF Strings
  <2>2. SubSeq(Node(s), 1, Len(Node(s))) = Node(s)
    BY <1>4, SubSeqFull DEF NodeSeqs
  <2>3. Len(Node(s)) \in 0..Len(Node(s))
    BY <1>4
  <2>4. IsPrefix(Node(s), Node(s)) /\ Node(s) \in Prefixes(Node(s))
    BY <1>4, <2>2, <2>3, PartIsPrefix
  <2>5. QED
    BY <1>1, <2>1, <2>4
<1>6. CASE m <= Len(s)
  <2> DEFINE rest == SubSeq(s, m + 1, Len(s))
  <2>1. rest \in Strings /\ Names(s) = Names(p) \o Names(rest)
    <3>1. m \in 1..Len(s) /\ m + 1 \in 1..(Len(s) + 1) /\ Len(s) \in 0..Len(s) /\ s[m] = "/"
      BY <1>1, <1>6
    <3>2. rest \in Strings
      BY <3>1, PartFacts
    <3>3. QED
      BY <3>1, <3>2, NamesSplit
  <2>2. Names(rest) \in Seq(Strings)
    BY <2>1, NodeFacts
  <2>3. Root(p) = Root(s)
    <3>1. p[1] = s[1]
      BY <1>1, <1>2
    <3>2. QED
      BY <1>1, <1>2, <3>1, RootIs
  <2> HIDE DEF rest
  <2>4. SubSeq(Node(s), 1, Len(Names(p)) + 1) = Node(p)
    BY <1>3, <2>1, <2>2, <2>3, NodeAbove
  <2>5. Len(Names(p)) + 1 \in 0..Len(Node(s))
    <3>1. Len(Names(p) \o Names(rest)) = Len(Names(p)) + Len(Names(rest))
      BY <1>3, <2>2, ConcatProperties
    <3>2. Len(Names(p)) \in Nat /\ Len(Names(rest)) \in Nat
      BY <1>3, <2>2
    <3>3. QED
      BY <1>4, <2>1, <3>1, <3>2
  <2>6. QED
    BY <1>1, <1>4, <2>4, <2>5, PartIsPrefix
<1>7. QED
  BY <1>1, <1>5, <1>6

\* A path with one part more: the same node, or one below it.
LEMMA OneMore ==
  ASSUME NEW u \in Strings, Slashed(u) = u, NEW k \in 0..Len(u),
         k # 0 => u[k] = "/", \A j \in (k + 1)..Len(u) : u[j] # "/",
         NEW v, v = SubSeq(u, 1, k - 1)
  PROVE  /\ v # <<>> => Node(u) = Node(v) \/ Front(Node(u)) = Node(v)
         /\ v = <<>> => Len(Node(u)) = 1 \/ Front(Node(u)) \in {<<"/">>, <<".">>}
<1> DEFINE t == SubSeq(u, k + 1, Len(u))
<1>1. LastOf(u, "/") = k /\ Len(u) \in Nat
  BY LastOfIs DEF Strings
<1>2. u # <<>> <=> Len(u) # 0
  BY NoBytes
<1>3. v \in Strings /\ (k = 0 => v = <<>>)
  <2>1. CASE k = 0
    <3>1. v = <<>>
      BY <2>1
    <3>2. QED
      BY <3>1, NoBytes
  <2>2. CASE k # 0
    <3>1. k - 1 \in 0..Len(u)
      BY <1>1, <2>2
    <3>2. QED
      BY <2>2, <3>1, StartFacts
  <2>3. QED
    BY <2>1, <2>2
<1>4. t \in Strings
  <2>1. k + 1 \in 1..(Len(u) + 1) /\ Len(u) \in 0..Len(u)
    BY <1>1
  <2>2. QED
    BY <2>1, PartFacts
<1>5. v = <<>> => Names(v) = <<>>
  BY NoBytes
<1>6. Names(u) = Names(v) \o Piece(t)
  <2>1. Names(u) = Parts(u)
    BY NodeFacts
  <2>2. CASE k = 0
    <3>1. t = u
      BY <1>1, <2>2, SubSeqFull DEF Strings
    <3>2. Parts(u) = Piece(u) /\ Piece(u) \in Seq(Strings)
      BY <1>1, <2>2, PartsAtLast, PartsTyped
    <3>3. <<>> \o Piece(u) = Piece(u)
      BY <3>2, ConcatEmptySeq
    <3>4. QED
      BY <1>3, <1>5, <2>1, <2>2, <3>1, <3>2, <3>3
  <2>3. CASE k # 0
    <3>1. Parts(u) = Parts(v) \o Piece(t)
      BY <1>1, <2>3, PartsAtLast
    <3>2. Slashed(v) = v
      <4>1. 1 \in 1..(Len(u) + 1) /\ k - 1 \in 0..Len(u)
        BY <1>1, <2>3
      <4>2. QED
        BY <4>1, PlainPart
    <3>3. Names(v) = Parts(v)
      BY <1>3, <3>2, NodeFacts
    <3>4. QED
      BY <2>1, <3>1, <3>3
  <2>4. QED
    BY <2>2, <2>3
<1>7. /\ Node(u) = <<Root(u)>> \o Names(u) /\ Root(u) \in {"/", "."}
      /\ Node(v) = <<Root(v)>> \o Names(v) /\ Names(v) \in Seq(Strings)
  BY <1>3, NodeFacts
<1>8. v # <<>> => Root(v) = Root(u)
  <2>1. SUFFICES ASSUME v # <<>> PROVE Root(v) = Root(u)
    OBVIOUS
  <2>2. k # 0 /\ k - 1 \in 0..Len(u)
    BY <1>1, <1>3, <2>1
  <2>3. Len(v) = k - 1 /\ \A i \in 1..(k - 1) : v[i] = u[i]
    BY <2>2, StartFacts
  <2>4. Len(v) # 0 /\ Len(u) # 0
    <3>1. Len(v) # 0
      BY <1>3, <2>1, NoBytes
    <3>2. QED
      BY <1>1, <2>2, <2>3, <3>1
  <2>5. u # <<>> /\ v[1] = u[1]
    BY <2>2, <2>3, <2>4, NoBytes
  <2>6. QED
    BY <1>3, <2>1, <2>5, RootIs
<1> HIDE DEF t
<1>9. CASE t = <<>>
  <2>1. Names(u) = Names(v)
    BY <1>6, <1>7, <1>9, ConcatEmptySeq DEF Piece
  <2>2. v # <<>> => Node(u) = Node(v)
    BY <1>7, <1>8, <2>1
  <2>3. v = <<>> => Len(Node(u)) = 1
    <3>1. Len(Node(u)) = Len(Names(u)) + 1
      BY NodeIsSeq
    <3>2. v = <<>> => Names(u) = <<>>
      BY <1>5, <2>1
    <3>3. QED
      BY <3>1, <3>2
  <2>4. QED
    BY <2>2, <2>3
<1>10. CASE t # <<>>
  <2>1. Names(u) = Names(v) \o <<t>>
    BY <1>6, <1>10 DEF Piece
  <2>2. Front(Node(u)) = <<Root(u)>> \o Names(v)
    <3>1. Front(<<Root(u)>> \o (Names(v) \o <<t>>)) = <<Root(u)>> \o Names(v)
      BY <1>4, <1>7, NodeEnd
    <3>2. QED
      BY <1>7, <2>1, <3>1
  <2>3. v # <<>> => Front(Node(u)) = Node(v)
    BY <1>7, <1>8, <2>2
  <2>4. v = <<>> => Front(Node(u)) \in {<<"/">>, <<".">>}
    <3>1. SUFFICES ASSUME v = <<>> PROVE Front(Node(u)) \in {<<"/">>, <<".">>}
      OBVIOUS
    <3>2. Front(Node(u)) = <<Root(u)>> \o <<>>
      BY <1>5, <2>2, <3>1
    <3>3. <<Root(u)>> \in Seq({"/", "."})
      BY <1>7
    <3>4. <<Root(u)>> \o <<>> = <<Root(u)>>
      BY <3>3, ConcatEmptySeq
    <3>5. QED
      BY <1>7, <3>2, <3>4
  <2>5. QED
    BY <2>3, <2>4
<1>11. QED
  BY <1>9, <1>10

-----------------------------------------------------------------------------
(* What the path of each program stands for. *)

Walking(a) == pc[a] \in {"stat", "mkdir"}

\* The path of a program that creates directories has only slashes, and the
\* mark is at one of them or behind the path.
MarkAtSlash ==
  \A a \in Programs :
    Walking(a) => /\ Slashed(path[a]) = path[a]
                  /\ mark[a] <= Len(path[a]) => path[a][mark[a]] = "/"

\* As long as it is known what a program means, its path stands for it.
MeansPath ==
  \A a \in Programs : (pc[a] # "idle" /\ meant[a] # Unknown) => meant[a] = Node(path[a])

MInv == meant \in [Programs -> NodeSeqs] /\ MarkAtSlash /\ MeansPath

LEMMA UnknownIsSeq == Unknown \in NodeSeqs
BY EmptySeq DEF Unknown, NodeSeqs

LEMMA InitMInv == Init => MInv
<1> SUFFICES ASSUME Init PROVE MInv
  OBVIOUS
<1>1. meant \in [Programs -> NodeSeqs]
  BY UnknownIsSeq DEF Init
<1>2. MarkAtSlash /\ MeansPath
  BY DEF Init, MarkAtSlash, MeansPath, Walking
<1>3. QED
  BY <1>1, <1>2 DEF MInv

LEMMA StartMeans ==
  ASSUME WInv, MInv, NEW a \in Programs, Start(a)
  PROVE  MInv'
<1>1. PICK s \in Paths :
        path' = [path EXCEPT ![a] = s] /\ meant' = [meant EXCEPT ![a] = Node(s)]
  BY DEF Start
<1>2. /\ s \in Strings /\ Node(s) \in NodeSeqs
      /\ mark' = mark /\ pc' = [pc EXCEPT ![a] = "building"]
  BY PathsAssumption, NodeIsSeq DEF Start
<1>3. meant' \in [Programs -> NodeSeqs]
  BY <1>1, <1>2 DEF MInv
<1>4. MarkAtSlash'
  BY <1>1, <1>2 DEF WInv, Typed, MInv, MarkAtSlash, Walking
<1>5. MeansPath'
  BY <1>1, <1>2 DEF WInv, Typed, MInv, MeansPath
<1>6. QED
  BY <1>3, <1>4, <1>5 DEF MInv

\* A call that leaves unknown what is meant, or whose result stands for it.
LEMMA CallMeans ==
  ASSUME WInv, MInv, NEW a \in Programs, NEW by, NEW p, NEW result, NEW node,
         result.ok => result.path \in Strings /\ node \in {Unknown, Node(result.path)},
         Calls(a, by, p, result, node)
  PROVE  MInv'
<1> DEFINE kept == Kept(by, result, path[a])
<1>1. /\ pc[a] = "building" /\ pc' = pc /\ mark' = mark
      /\ path' = [path EXCEPT ![a] = kept]
      /\ meant' = IF result.ok THEN [meant EXCEPT ![a] = node] ELSE meant
  BY DEF Calls, Kept
<1>2. /\ path \in [Programs -> Strings] /\ meant \in [Programs -> NodeSeqs]
      /\ MarkAtSlash /\ MeansPath
  BY DEF WInv, Typed, MInv
<1>3. ~result.ok => Node(kept) = Node(path[a])
  BY <1>2, KeptFacts
<1>4. result.ok => kept = result.path /\ node \in NodeSeqs
  <2>1. result.ok => Node(result.path) \in NodeSeqs
    BY NodeIsSeq
  <2>2. QED
    BY <2>1, UnknownIsSeq DEF Kept
<1> HIDE DEF kept
<1>5. meant' \in [Programs -> NodeSeqs]
  BY <1>1, <1>2, <1>4
<1>6. MarkAtSlash'
  <2>1. ASSUME NEW b \in Programs, Walking(b)
        PROVE  path'[b] = path[b]
    BY <1>1, <1>2, <2>1 DEF Walking
  <2>2. QED
    BY <1>1, <1>2, <2>1 DEF MarkAtSlash, Walking
<1>7. MeansPath'
  <2>1. ASSUME NEW b \in Programs, pc[b] # "idle", meant'[b] # Unknown
        PROVE  meant'[b] = Node(path'[b])
    <3>1. CASE b = a /\ result.ok
      BY <1>1, <1>2, <1>4, <2>1, <3>1
    <3>2. CASE b = a /\ ~result.ok
      BY <1>1, <1>2, <1>3, <2>1, <3>2 DEF MeansPath
    <3>3. CASE b # a
      BY <1>1, <1>2, <2>1, <3>3 DEF MeansPath
    <3>4. QED
      BY <3>1, <3>2, <3>3
  <2>2. QED
    BY <1>1, <2>1 DEF MeansPath
<1>8. QED
  BY <1>5, <1>6, <1>7 DEF MInv

LEMMA PathCallMeans ==
  ASSUME WInv, MInv, NEW a \in Programs,
         GoToParent(a) \/ TakeLeaf(a) \/ DropExt(a) \/ JoinLeafTo(a)
  PROVE  MInv'
<1>1. path[a] \in Strings /\ BufSize \in Nat
  BY BoundsAssumption DEF WInv, Typed
<1>2. pc[a] = "building"
  BY DEF GoToParent, TakeLeaf, DropExt, JoinLeafTo, Calls
<1>3. meant[a] # Unknown => meant[a] = Node(path[a])
  BY <1>2 DEF MInv, MeansPath
<1>4. CASE GoToParent(a)
  <2> DEFINE result == path_parent(path[a], BufSize)
             node == Means(a, SlashInside(path[a]), Front(meant[a]))
  <2>1. result.path \in Strings
    BY <1>1, BeforeFits DEF path_parent, Fits
  <2>2. ASSUME result.ok PROVE node \in {Unknown, Node(result.path)}
    <3>1. SUFFICES ASSUME meant[a] # Unknown, SlashInside(path[a])
                   PROVE  Front(meant[a]) = Node(result.path)
      BY DEF Means
    <3>2. QED
      BY <1>1, <1>3, <2>2, <3>1, ParentMeans
  <2>3. Calls(a, "parent", 0, result, node)
    BY <1>4 DEF GoToParent
  <2> HIDE DEF result, node
  <2>4. QED
    BY <2>1, <2>2, <2>3, CallMeans
<1>5. CASE TakeLeaf(a)
  <2> DEFINE result == path_leaf(path[a], BufSize)
             node == Means(a, path[a] # <<>> /\ ~EndsInSlash(path[a]), <<".", Last(meant[a])>>)
  <2>1. result.path \in Strings
    BY <1>1, LeafFits DEF Fits
  <2>2. ASSUME result.ok PROVE node \in {Unknown, Node(result.path)}
    <3>1. SUFFICES ASSUME meant[a] # Unknown, path[a] # <<>>, ~EndsInSlash(path[a])
                   PROVE  <<".", Last(meant[a])>> = Node(result.path)
      BY DEF Means
    <3>2. QED
      BY <1>1, <1>3, <2>2, <3>1, LeafMeans
  <2>3. Calls(a, "leaf", 0, result, node)
    BY <1>5 DEF TakeLeaf
  <2> HIDE DEF result, node
  <2>4. QED
    BY <2>1, <2>2, <2>3, CallMeans
<1>6. CASE DropExt(a)
  <2> DEFINE result == path_without_ext(path[a], BufSize)
             named(n) == IF ~Contains(path[a], ".") THEN n
                         ELSE LET name == Last(n)
                              IN  Append(Front(n), SubSeq(name, 1, LastOf(name, ".") - 1))
             node == Means(a, DotInLeaf(path[a]), named(meant[a]))
  <2>1. result.path \in Strings
    BY <1>1, BeforeFits DEF path_without_ext, Fits
  <2>2. ASSUME result.ok PROVE node \in {Unknown, Node(result.path)}
    <3>1. SUFFICES ASSUME meant[a] # Unknown, DotInLeaf(path[a])
                   PROVE  named(meant[a]) = Node(result.path)
      BY DEF Means
    <3>2. Node(result.path) = named(Node(path[a]))
      BY <1>1, <2>2, <3>1, ExtMeans
    <3>3. QED
      BY <1>3, <3>1, <3>2
  <2>3. Calls(a, "without_ext", 0, result, node)
    BY <1>6 DEF DropExt
  <2> HIDE DEF result, node
  <2>4. QED
    BY <2>1, <2>2, <2>3, CallMeans
<1>7. CASE JoinLeafTo(a)
  <2>1. PICK leaf \in Leaves :
          Calls(a, "join", Len(JoinParent(path[a])), path_join(path[a], leaf, BufSize),
                Means(a, RootOrLonger(path[a]), meant[a] \o Names(leaf)))
    BY <1>7 DEF JoinLeafTo
  <2>2. leaf \in Strings
    BY PathsAssumption
  <2> DEFINE result == path_join(path[a], leaf, BufSize)
             node == Means(a, RootOrLonger(path[a]), meant[a] \o Names(leaf))
  <2>3. result.path \in Strings
    BY <1>1, <2>2, JoinWrites DEF Fits
  <2>4. ASSUME result.ok PROVE node \in {Unknown, Node(result.path)}
    <3>1. SUFFICES ASSUME meant[a] # Unknown, RootOrLonger(path[a])
                   PROVE  meant[a] \o Names(leaf) = Node(result.path)
      BY DEF Means
    <3>2. Node(result.path) = Node(path[a]) \o Names(leaf)
      BY <1>1, <2>2, <2>4, <3>1, JoinMeans
    <3>3. QED
      BY <1>3, <3>1, <3>2
  <2> HIDE DEF result, node
  <2>5. QED
    BY <2>1, <2>3, <2>4, CallMeans DEF result, node
<1>8. QED
  BY <1>4, <1>5, <1>6, <1>7

LEMMA CreateMeans ==
  ASSUME WInv, MInv, NEW a \in Programs, CreateCall(a)
  PROVE  MInv'
<1>1. PICK c : c = IF posix THEN path[a] ELSE utf8_to_uc2(path[a])
  OBVIOUS
<1>2. /\ path[a] \in Strings /\ c \in Strings /\ (c = path[a] \/ Len(c) < Len(path[a]))
      /\ Len(c) \in Nat /\ Len(Slashed(c)) = Len(c) /\ Slashed(c) \in Strings
  <2>1. path[a] \in Strings
    BY DEF WInv, Typed
  <2>2. c \in Strings /\ (c = path[a] \/ Len(c) < Len(path[a]))
    BY <1>1, <2>1, ConvertedFacts
  <2>3. QED
    BY <2>1, <2>2, SlashedFacts
<1> DEFINE s == Slashed(c)
<1>3. /\ pc[a] = "building" /\ pc' = [pc EXCEPT ![a] = "stat"]
      /\ path' = [path EXCEPT ![a] = s] /\ mark' = [mark EXCEPT ![a] = NextMark(s, 0)]
      /\ meant' = [meant EXCEPT ![a] = IF Len(s) < Len(path[a]) THEN Unknown ELSE @]
  BY <1>1 DEF CreateCall
<1>4. /\ pc \in [Programs -> {"idle", "building", "stat", "mkdir"}]
      /\ path \in [Programs -> Strings] /\ mark \in [Programs -> Nat]
      /\ meant \in [Programs -> NodeSeqs] /\ MarkAtSlash /\ MeansPath
  BY DEF WInv, Typed, MInv
<1>5. Slashed(s) = s /\ Node(s) = Node(c)
  BY <1>2, PlainFacts, SlashedNode
<1>6. NextMark(s, 0) <= Len(s) => s[NextMark(s, 0)] = "/"
  BY <1>2, NextMarkFacts
<1> HIDE DEF s
<1>7. meant' \in [Programs -> NodeSeqs]
  BY <1>3, <1>4, UnknownIsSeq
<1>8. MarkAtSlash'
  <2>1. ASSUME NEW b \in Programs, Walking(b)'
        PROVE  /\ Slashed(path'[b]) = path'[b]
               /\ mark'[b] <= Len(path'[b]) => path'[b][mark'[b]] = "/"
    <3>1. CASE b = a
      BY <1>3, <1>4, <1>5, <1>6, <3>1
    <3>2. CASE b # a
      BY <1>3, <1>4, <2>1, <3>2 DEF MarkAtSlash, Walking
    <3>3. QED
      BY <3>1, <3>2
  <2>2. QED
    BY <2>1 DEF MarkAtSlash
<1>9. MeansPath'
  <2>1. ASSUME NEW b \in Programs, pc'[b] # "idle", meant'[b] # Unknown
        PROVE  meant'[b] = Node(path'[b])
    <3>1. CASE b = a
      <4>1. path'[b] = s /\ ~(Len(s) < Len(path[a])) /\ meant'[b] = meant[a]
        BY <1>3, <1>4, <2>1, <3>1
      <4>2. c = path[a]
        BY <1>2, <4>1 DEF s
      <4>3. meant[a] = Node(path[a])
        BY <1>3, <1>4, <2>1, <4>1 DEF MeansPath
      <4>4. QED
        BY <1>5, <4>1, <4>2, <4>3
    <3>2. CASE b # a
      BY <1>3, <1>4, <2>1, <3>2 DEF MeansPath
    <3>3. QED
      BY <3>1, <3>2
  <2>2. QED
    BY <2>1 DEF MeansPath
<1>10. QED
  BY <1>7, <1>8, <1>9 DEF MInv

LEMMA NextPrefixMeans ==
  ASSUME WInv, MInv, NEW a \in Programs, Walking(a), NextPrefix(a), meant' = meant
  PROVE  MInv'
<1>1. /\ pc \in [Programs -> {"idle", "building", "stat", "mkdir"}]
      /\ path \in [Programs -> Strings] /\ mark \in [Programs -> Nat]
      /\ meant \in [Programs -> NodeSeqs] /\ MarkAtSlash /\ MeansPath
  BY DEF WInv, Typed, MInv
<1>2. path[a] \in Strings /\ Len(path[a]) \in Nat
  BY <1>1 DEF Strings
<1>3. CASE mark[a] <= Len(path[a])
  <2>1. /\ pc' = [pc EXCEPT ![a] = "stat"] /\ path' = path
        /\ mark' = [mark EXCEPT ![a] = NextMark(path[a], mark[a])]
    BY <1>3 DEF NextPrefix
  <2>2. NextMark(path[a], mark[a]) <= Len(path[a]) => path[a][NextMark(path[a], mark[a])] = "/"
    <3>1. mark[a] \in 0..Len(path[a])
      BY <1>1, <1>2, <1>3
    <3>2. QED
      BY <1>2, <3>1, NextMarkFacts
  <2>3. MarkAtSlash'
    <3>1. ASSUME NEW b \in Programs, Walking(b)'
          PROVE  /\ Slashed(path[b]) = path[b]
                 /\ mark'[b] <= Len(path[b]) => path[b][mark'[b]] = "/"
      <4>1. CASE b = a
        BY <1>1, <2>1, <2>2, <4>1 DEF MarkAtSlash
      <4>2. CASE b # a
        BY <1>1, <2>1, <3>1, <4>2 DEF MarkAtSlash, Walking
      <4>3. QED
        BY <4>1, <4>2
    <3>2. QED
      BY <2>1, <3>1 DEF MarkAtSlash
  <2>4. MeansPath'
    BY <1>1, <2>1 DEF MeansPath, Walking
  <2>5. QED
    BY <1>1, <2>3, <2>4 DEF MInv
<1>4. CASE ~(mark[a] <= Len(path[a]))
  <2>1. /\ pc' = [pc EXCEPT ![a] = "idle"] /\ path' = [path EXCEPT ![a] = <<>>]
        /\ mark' = [mark EXCEPT ![a] = 0]
    BY <1>4 DEF NextPrefix
  <2>2. MarkAtSlash'
    BY <1>1, <2>1 DEF MarkAtSlash, Walking
  <2>3. MeansPath'
    BY <1>1, <2>1 DEF MeansPath
  <2>4. QED
    BY <1>1, <2>2, <2>3 DEF MInv
<1>5. QED
  BY <1>3, <1>4

LEMMA SearchMeans ==
  ASSUME WInv, MInv, NEW a \in Programs, StatFindsNothing(a)
  PROVE  MInv'
<1>1. MarkAtSlash' /\ MeansPath'
  BY DEF StatFindsNothing, WInv, Typed, MInv, MarkAtSlash, MeansPath, Walking
<1>2. QED
  BY <1>1 DEF StatFindsNothing, MInv

\* What moves no program keeps the invariant.
LEMMA SystemMeans ==
  ASSUME MInv, UNCHANGED <<pc, path, mark, meant>>
  PROVE  MInv'
BY DEF MInv, MarkAtSlash, MeansPath, Walking

LEMMA NextMInv == WInv /\ MInv /\ [Next]_vars => MInv'
<1> SUFFICES ASSUME WInv, MInv, [Next]_vars PROVE MInv'
  OBVIOUS
<1>1. ASSUME NEW a \in Programs, Program(a) PROVE MInv'
  <2>1. CASE Start(a)
    BY <2>1, StartMeans
  <2>2. CASE GoToParent(a) \/ TakeLeaf(a) \/ DropExt(a) \/ JoinLeafTo(a)
    BY <2>2, PathCallMeans
  <2>3. CASE CreateCall(a)
    BY <2>3, CreateMeans
  <2>4. CASE StatFinds(a) \/ Mkdir(a)
    BY <2>4, NextPrefixMeans DEF StatFinds, Mkdir, Walking
  <2>5. CASE StatFindsNothing(a)
    BY <2>5, SearchMeans
  <2>6. QED
    BY <1>1, <2>1, <2>2, <2>3, <2>4, <2>5 DEF Program
<1>2. CASE System
  <2>1. ASSUME NEW a \in Programs, MkdirFails(a) PROVE MInv'
    BY <2>1, NextPrefixMeans DEF MkdirFails, Walking
  <2>2. ASSUME NEW n, Delete(n) \/ PutFile(n) PROVE MInv'
    BY <2>2, SystemMeans DEF Delete, PutFile
  <2>3. QED
    BY <1>2, <2>1, <2>2 DEF System
<1>3. CASE UNCHANGED vars
  BY <1>3, SystemMeans DEF vars
<1>4. QED
  BY <1>1, <1>2, <1>3 DEF Next

-----------------------------------------------------------------------------
(* The directories and the files there are. *)

Roots == {<<"/">>, <<".">>}

\* All that is there is a root, or is in a directory that is there.
Tree ==
  /\ \A n \in dirs \cup files : /\ n \in NodeSeqs /\ n # <<>>
                                /\ Len(n) = 1 \/ Front(n) \in dirs
  /\ dirs \cap files = {}
  /\ Roots \subseteq dirs

Counted ==
  /\ posix \in BOOLEAN /\ disturbed \subseteq Programs
  /\ starts \in 0..MaxStarts /\ calls \in 0..MaxCalls
  /\ disturbances \in 0..MaxDisturbances

TInv == Tree /\ Counted

LEMMA RootFacts ==
  \A r \in Roots : r \in NodeSeqs /\ Len(r) = 1 /\ r # <<>>
<1>1. \A x \in {"/", "."} : <<x>> \in NodeSeqs /\ Len(<<x>>) = 1 /\ <<x>> # <<>>
  BY DEF NodeSeqs
<1>2. QED
  BY <1>1 DEF Roots

\* What is directly above a node is one of its prefixes.
LEMMA FrontIsPrefix ==
  ASSUME NEW n \in NodeSeqs, Len(n) > 1
  PROVE  IsPrefix(Front(n), n)
<1>1. Len(n) - 1 \in 0..Len(n) /\ Front(n) = SubSeq(n, 1, Len(n) - 1)
  BY DEF NodeSeqs, Front
<1>2. QED
  BY <1>1, PartIsPrefix

LEMMA InitTInv == Init => TInv
<1> SUFFICES ASSUME Init PROVE TInv
  OBVIOUS
<1>1. dirs = Roots /\ files = {}
  BY DEF Init, Roots
<1>2. Tree
  BY <1>1, RootFacts DEF Tree
<1>3. Counted
  BY PlatformsAssumption, BoundsAssumption DEF Init, Counted
<1>4. QED
  BY <1>2, <1>3 DEF TInv

LEMMA CountedKept == Counted /\ [Next]_vars => Counted'
<1> SUFFICES ASSUME Counted, [Next]_vars PROVE Counted'
  OBVIOUS
<1> USE BoundsAssumption DEF Counted
<1>1. ASSUME NEW a \in Programs, Program(a) PROVE Counted'
  <2>1. CASE Start(a)
    BY <2>1 DEF Start, system
  <2>2. CASE GoToParent(a) \/ TakeLeaf(a) \/ DropExt(a) \/ JoinLeafTo(a)
    BY <2>2 DEF GoToParent, TakeLeaf, DropExt, JoinLeafTo, Calls, system
  <2>3. CASE CreateCall(a)
    BY <2>3 DEF CreateCall, done, system
  <2>4. CASE StatFinds(a) \/ StatFindsNothing(a)
    BY <2>4 DEF StatFinds, StatFindsNothing, done, system
  <2>5. CASE Mkdir(a)
    BY <2>5 DEF Mkdir, done
  <2>6. QED
    BY <1>1, <2>1, <2>2, <2>3, <2>4, <2>5 DEF Program
<1>2. CASE System
  <2>1. ASSUME NEW a \in Programs, MkdirFails(a) PROVE Counted'
    BY <2>1 DEF MkdirFails, Disturb, done
  <2>2. ASSUME NEW n, Delete(n) \/ PutFile(n) PROVE Counted'
    BY <2>2 DEF Delete, PutFile, Disturb, done
  <2>3. QED
    BY <1>2, <2>1, <2>2 DEF System
<1>3. CASE UNCHANGED vars
  BY <1>3 DEF vars, done, system
<1>4. QED
  BY <1>1, <1>2, <1>3 DEF Next

LEMMA MkdirTree ==
  ASSUME WInv, Tree, NEW a \in Programs, Mkdir(a)
  PROVE  Tree'
<1>1. files' = files
  BY DEF Mkdir
<1>2. CASE dirs' = dirs
  BY <1>1, <1>2 DEF Tree
<1>3. CASE dirs' # dirs
  <2> DEFINE n == Node(Prefix(a))
  <2>1. dirs' = dirs \cup {n} /\ ~Exists(Prefix(a)) /\ Prefix(a) # <<>> /\ Front(n) \in dirs
    BY <1>3 DEF Mkdir
  <2>2. n \notin files
    BY <2>1 DEF Exists
  <2>3. Prefix(a) \in Strings
    <3>1. path[a] \in Strings /\ mark[a] - 1 \in 0..Len(path[a])
      <4>1. /\ path[a] \in Strings /\ mark[a] \in 0..(Len(path[a]) + 1)
            /\ mark[a] # 0 /\ Len(path[a]) \in Nat
        BY DEF WInv, Typed, MarkInPath, Mkdir, Strings
      <4>2. QED
        BY <4>1
    <3>2. QED
      BY <3>1, StartFacts DEF Prefix
  <2>4. n \in NodeSeqs /\ n # <<>>
    BY <2>3, NodeIsSeq
  <2> HIDE DEF n
  <2>5. QED
    BY <1>1, <2>1, <2>2, <2>4 DEF Tree
<1>4. QED
  BY <1>2, <1>3

LEMMA DeleteTree ==
  ASSUME Tree, NEW n \in dirs \cup files, Delete(n)
  PROVE  Tree'
<1>1. /\ Len(n) > 1 /\ \A m \in dirs \cup files : m = n \/ ~IsPrefix(n, m)
      /\ dirs' = dirs \ {n} /\ files' = files \ {n}
  BY DEF Delete
<1>2. ASSUME NEW m \in dirs' \cup files'
      PROVE  m \in NodeSeqs /\ m # <<>> /\ (Len(m) = 1 \/ Front(m) \in dirs')
  <2>1. m \in dirs \cup files /\ m # n
    BY <1>1
  <2>2. m \in NodeSeqs /\ m # <<>> /\ (Len(m) = 1 \/ Front(m) \in dirs)
    BY <2>1 DEF Tree
  <2>3. Len(m) # 1 => Front(m) # n
    <3>1. Len(m) # 1 => Len(m) > 1
      <4>1. Len(m) \in Nat /\ Len(m) # 0
        BY <2>2, EmptySeq DEF NodeSeqs
      <4>2. QED
        BY <4>1
    <3>2. Len(m) # 1 => IsPrefix(Front(m), m)
      BY <2>2, <3>1, FrontIsPrefix
    <3>3. ~IsPrefix(n, m)
      BY <1>1, <2>1
    <3>4. QED
      BY <3>2, <3>3
  <2>4. QED
    BY <1>1, <2>2, <2>3
<1>3. dirs' \cap files' = {}
  BY <1>1 DEF Tree
<1>4. Roots \subseteq dirs'
  <2>1. \A r \in Roots : r # n
    BY <1>1, RootFacts
  <2>2. QED
    BY <1>1, <2>1 DEF Tree
<1>5. QED
  BY <1>2, <1>3, <1>4 DEF Tree

LEMMA PutFileTree ==
  ASSUME MInv, Tree, NEW a \in Programs, NEW n \in Prefixes(meant[a]), n # <<>>, PutFile(n)
  PROVE  Tree'
<1>1. n \in NodeSeqs
  <2>1. PICK k \in 0..Len(meant[a]) : n = SubSeq(meant[a], 1, k)
    BY DEF Prefixes
  <2>2. meant[a] \in Seq({"/", "."} \cup Strings)
    BY DEF MInv, NodeSeqs
  <2>3. k = 0 \/ k \in 1..Len(meant[a])
    BY <2>1
  <2>4. SubSeq(meant[a], 1, k) \in Seq({"/", "."} \cup Strings)
    BY <2>1, <2>2, <2>3
  <2>5. QED
    BY <2>1, <2>4 DEF NodeSeqs
<1>2. /\ n \notin dirs \cup files /\ Front(n) \in dirs
      /\ files' = files \cup {n} /\ dirs' = dirs
  BY DEF PutFile
<1>3. QED
  BY <1>1, <1>2 DEF Tree

LEMMA NextTInv == WInv /\ MInv /\ TInv /\ [Next]_vars => TInv'
<1> SUFFICES ASSUME WInv, MInv, TInv, [Next]_vars PROVE Tree'
  BY CountedKept DEF TInv
<1>1. Tree
  BY DEF TInv
<1>2. ASSUME NEW a \in Programs, Program(a) PROVE Tree'
  <2>1. CASE Mkdir(a)
    BY <1>1, <2>1, MkdirTree
  <2>2. CASE Start(a) \/ GoToParent(a) \/ TakeLeaf(a) \/ DropExt(a) \/ JoinLeafTo(a)
    BY <1>1, <2>2 DEF Start, GoToParent, TakeLeaf, DropExt, JoinLeafTo, Calls, system, Tree
  <2>3. CASE CreateCall(a) \/ StatFinds(a) \/ StatFindsNothing(a)
    BY <1>1, <2>3 DEF CreateCall, StatFinds, StatFindsNothing, system, Tree
  <2>4. QED
    BY <1>2, <2>1, <2>2, <2>3 DEF Program
<1>3. CASE System
  <2>1. ASSUME NEW a \in Programs, MkdirFails(a) PROVE Tree'
    BY <1>1, <2>1 DEF MkdirFails, Tree
  <2>2. ASSUME NEW n \in dirs \cup files, Delete(n) PROVE Tree'
    BY <1>1, <2>2, DeleteTree
  <2>3. ASSUME NEW a \in Programs, NEW n \in Prefixes(meant[a]), n # <<>>, PutFile(n)
        PROVE  Tree'
    BY <1>1, <2>3, PutFileTree
  <2>4. QED
    BY <1>3, <2>1, <2>2, <2>3 DEF System
<1>4. CASE UNCHANGED vars
  <2>1. dirs' = dirs /\ files' = files
    BY <1>4 DEF vars, system
  <2>2. QED
    BY <1>1, <2>1 DEF Tree
<1>5. QED
  BY <1>2, <1>3, <1>4 DEF Next

-----------------------------------------------------------------------------
(* How far a program has come that nothing has interfered with. *)

InTheWay(a) == \E n \in Prefixes(meant[a]) : n \in files

ReachedBy(a) ==
  (Walking(a) /\ meant[a] # Unknown /\ a \notin disturbed) =>
    \/ Len(Node(Prefix(a))) = 1
    \/ Front(Node(Prefix(a))) \in dirs
    \/ InTheWay(a)

\* The directory its next prefix is to be in is there, or a file is in the way.
Reached == \A a \in Programs : ReachedBy(a)

LEMMA WalkFacts ==
  ASSUME WInv, MInv, NEW a \in Programs, Walking(a)
  PROVE  /\ path[a] \in Strings /\ Len(path[a]) \in Nat /\ mark[a] \in 1..(Len(path[a]) + 1)
         /\ Slashed(path[a]) = path[a] /\ Prefix(a) \in Strings
         /\ mark[a] <= Len(path[a]) => path[a][mark[a]] = "/"
         /\ meant[a] # Unknown => meant[a] = Node(path[a])
         /\ Prefix(a) # <<>> => /\ IsPrefix(Node(Prefix(a)), Node(path[a]))
                                /\ Node(Prefix(a)) \in Prefixes(Node(path[a]))
<1>1. path[a] \in Strings /\ Len(path[a]) \in Nat
  BY DEF WInv, Typed, Strings
<1>2. mark[a] \in 1..(Len(path[a]) + 1)
  <2>1. mark[a] \in 0..(Len(path[a]) + 1) /\ mark[a] # 0
    BY DEF WInv, MarkInPath, Walking
  <2>2. QED
    BY <1>1, <2>1
<1>3. /\ Slashed(path[a]) = path[a]
      /\ mark[a] <= Len(path[a]) => path[a][mark[a]] = "/"
      /\ meant[a] # Unknown => meant[a] = Node(path[a])
  BY DEF MInv, MarkAtSlash, MeansPath, Walking
<1>4. Prefix(a) \in Strings
  <2>1. mark[a] - 1 \in 0..Len(path[a])
    BY <1>1, <1>2
  <2>2. QED
    BY <1>1, <2>1, StartFacts DEF Prefix
<1>5. Prefix(a) # <<>> => /\ IsPrefix(Node(Prefix(a)), Node(path[a]))
                          /\ Node(Prefix(a)) \in Prefixes(Node(path[a]))
  BY <1>1, <1>2, <1>3, PrefixNode DEF Prefix
<1>6. QED
  BY <1>1, <1>2, <1>3, <1>4, <1>5

\* The node of a prefix is there after the step that leaves it.
LEMMA PrefixThere ==
  ASSUME WInv, MInv, Tree, NEW a \in Programs, ReachedBy(a),
         Walking(a), meant[a] # Unknown, a \notin disturbed,
         StatFinds(a) \/ Mkdir(a)
  PROVE  Prefix(a) = <<>> \/ Node(Prefix(a)) \in dirs' \/ InTheWay(a)'
<1> SUFFICES ASSUME Prefix(a) # <<>> PROVE Node(Prefix(a)) \in dirs' \/ InTheWay(a)'
  OBVIOUS
<1>1. Node(Prefix(a)) \in Prefixes(meant[a]) /\ Prefix(a) \in Strings
  BY WalkFacts
<1>2. dirs \subseteq dirs' /\ files' = files /\ meant' = meant
  BY DEF StatFinds, Mkdir, system
<1>3. InTheWay(a) => InTheWay(a)'
  BY <1>2 DEF InTheWay
<1>4. CASE Exists(Prefix(a))
  <2>1. Node(Prefix(a)) \in dirs \/ Node(Prefix(a)) \in files
    BY <1>4 DEF Exists
  <2>2. Node(Prefix(a)) \in files => InTheWay(a)
    BY <1>1 DEF InTheWay
  <2>3. QED
    BY <1>2, <1>3, <2>1, <2>2
<1>5. CASE ~Exists(Prefix(a))
  <2>1. Mkdir(a)
    BY <1>5 DEF StatFinds
  <2>2. CASE Front(Node(Prefix(a))) \in dirs
    BY <1>5, <2>1, <2>2 DEF Mkdir
  <2>3. CASE Len(Node(Prefix(a))) = 1
    <3>1. /\ Node(Prefix(a)) = <<Root(Prefix(a))>> \o Names(Prefix(a))
          /\ Root(Prefix(a)) \in {"/", "."} /\ Names(Prefix(a)) \in Seq(Strings)
          /\ Len(Node(Prefix(a))) = Len(Names(Prefix(a))) + 1
      BY <1>1, NodeFacts, NodeIsSeq
    <3>2. Len(Names(Prefix(a))) = 0
      BY <2>3, <3>1
    <3>3. Names(Prefix(a)) = <<>>
      BY <3>1, <3>2, EmptySeq
    <3>4. <<Root(Prefix(a))>> \in Seq({"/", "."})
      BY <3>1
    <3>5. Node(Prefix(a)) = <<Root(Prefix(a))>>
      BY <3>1, <3>3, <3>4, ConcatEmptySeq
    <3>6. Node(Prefix(a)) \in Roots
      BY <3>1, <3>5 DEF Roots
    <3>7. QED
      BY <1>2, <3>6 DEF Tree
  <2>4. QED
    BY <1>3, <2>2, <2>3 DEF ReachedBy
<1>6. QED
  BY <1>4, <1>5

\* On to the next prefix, or behind the path.
LEMMA NextReached ==
  ASSUME WInv, MInv, Tree', NEW a \in Programs, Walking(a), meant[a] # Unknown,
         NextPrefix(a), meant' = meant,
         Prefix(a) = <<>> \/ Node(Prefix(a)) \in dirs' \/ InTheWay(a)'
  PROVE  /\ ReachedBy(a)'
         /\ pc'[a] = "idle" => meant[a] \in dirs' \/ InTheWay(a)'
<1>1. /\ path[a] \in Strings /\ Len(path[a]) \in Nat /\ mark[a] \in 1..(Len(path[a]) + 1)
      /\ Slashed(path[a]) = path[a] /\ meant[a] = Node(path[a])
      /\ mark[a] <= Len(path[a]) => path[a][mark[a]] = "/"
  BY WalkFacts
<1>2. /\ pc \in [Programs -> {"idle", "building", "stat", "mkdir"}]
      /\ path \in [Programs -> Strings] /\ mark \in [Programs -> Nat]
  BY DEF WInv, Typed
<1>3. Roots \subseteq dirs'
  BY DEF Tree
<1>4. CASE mark[a] <= Len(path[a])
  <2> DEFINE m == NextMark(path[a], mark[a])
             u == SubSeq(path[a], 1, m - 1)
  <2>1. /\ pc'[a] = "stat" /\ path' = path /\ mark'[a] = m
    BY <1>2, <1>4 DEF NextPrefix
  <2>2. /\ m \in (mark[a] + 1)..(Len(path[a]) + 1)
        /\ \A j \in (mark[a] + 1)..(m - 1) : path[a][j] # "/"
    <3>1. mark[a] \in 0..Len(path[a])
      BY <1>1, <1>4
    <3>2. QED
      BY <1>1, <3>1, NextMarkFacts
  <2>3. Prefix(a)' = u
    BY <2>1 DEF Prefix
  <2> HIDE DEF m
  <2>4. /\ u \in Strings /\ Len(u) = m - 1 /\ Slashed(u) = u
        /\ \A i \in 1..(m - 1) : u[i] = path[a][i]
    <3>1. m - 1 \in 0..Len(path[a]) /\ 1 \in 1..(Len(path[a]) + 1)
      BY <1>1, <2>2
    <3>2. QED
      BY <1>1, <3>1, StartFacts, PlainPart
  <2>5. SubSeq(u, 1, mark[a] - 1) = Prefix(a)
    <3>1. /\ 1 \in 1..(Len(path[a]) + 1) /\ m - 1 \in 0..Len(path[a])
          /\ 1 \in Nat \ {0} /\ mark[a] - 1 \in Nat /\ mark[a] - 1 <= m - 1 - 1 + 1
          /\ 1 + 1 - 1 = 1 /\ 1 + (mark[a] - 1) - 1 = mark[a] - 1
      BY <1>1, <2>2, SMTT(60)
    <3>2. SubSeq(u, 1, mark[a] - 1) = SubSeq(path[a], 1 + 1 - 1, 1 + (mark[a] - 1) - 1)
      BY <1>1, <3>1, PartOfPart
    <3>3. QED
      BY <3>1, <3>2 DEF Prefix
  <2>6. /\ mark[a] \in 0..Len(u) /\ u[mark[a]] = "/"
        /\ \A j \in (mark[a] + 1)..Len(u) : u[j] # "/"
    BY <1>1, <1>4, <2>2, <2>4
  <2> HIDE DEF u
  <2>7. /\ Prefix(a) # <<>> => Node(u) = Node(Prefix(a)) \/ Front(Node(u)) = Node(Prefix(a))
        /\ Prefix(a) = <<>> => Len(Node(u)) = 1 \/ Front(Node(u)) \in Roots
    BY <2>4, <2>5, <2>6, OneMore, ZenonT(60) DEF Roots
  <2>8. Len(Node(u)) = 1 \/ Front(Node(u)) \in dirs' \/ InTheWay(a)'
    <3>1. CASE Prefix(a) = <<>>
      BY <1>3, <2>7, <3>1
    <3>2. CASE Prefix(a) # <<>> /\ Node(Prefix(a)) \in dirs'
      <4>1. CASE Node(u) = Node(Prefix(a))
        BY <3>2, <4>1 DEF Tree
      <4>2. CASE Front(Node(u)) = Node(Prefix(a))
        BY <3>2, <4>2
      <4>3. QED
        BY <2>7, <3>2, <4>1, <4>2
    <3>3. QED
      BY <3>1, <3>2
  <2>9. QED
    BY <2>1, <2>3, <2>8 DEF ReachedBy
<1>5. CASE ~(mark[a] <= Len(path[a]))
  <2>1. pc'[a] = "idle"
    BY <1>2, <1>5 DEF NextPrefix
  <2>2. mark[a] - 1 = Len(path[a])
    BY <1>1, <1>5
  <2>3. Prefix(a) = path[a]
    BY <1>1, <2>2, SubSeqFull DEF Prefix, Strings
  <2>4. path[a] = <<>> => meant[a] \in Roots
    <3>1. SUFFICES ASSUME path[a] = <<>> PROVE Node(<<>>) \in Roots
      BY <1>1
    <3>2. <<>> \in Strings /\ Names(<<>>) = <<>> /\ Root(<<>>) = "."
      BY NoBytes
    <3>3. Node(<<>>) = <<".">> \o <<>>
      BY <3>2, NodeFacts
    <3>4. <<".">> \in Seq({"."})
      OBVIOUS
    <3>5. QED
      BY <3>3, <3>4, ConcatEmptySeq DEF Roots
  <2>5. meant[a] \in dirs' \/ InTheWay(a)'
    BY <1>1, <1>3, <2>3, <2>4
  <2>6. ReachedBy(a)'
    BY <2>1 DEF ReachedBy, Walking
  <2>7. QED
    BY <2>5, <2>6
<1>6. QED
  BY <1>4, <1>5

LEMMA CreateReached ==
  ASSUME WInv, MInv, Tree, NEW a \in Programs, CreateCall(a)
  PROVE  ReachedBy(a)'
<1>1. PICK s : s = Slashed(IF posix THEN path[a] ELSE utf8_to_uc2(path[a]))
  OBVIOUS
<1>2. s \in Strings /\ Len(s) \in Nat /\ Slashed(s) = s
  <2>1. path[a] \in Strings
    BY DEF WInv, Typed
  <2>2. QED
    BY <1>1, <2>1, ConvertedFacts, SlashedFacts, PlainFacts
<1> DEFINE m == NextMark(s, 0)
           u == SubSeq(s, 1, m - 1)
<1>3. path'[a] = s /\ mark'[a] = m /\ dirs' = dirs
  BY <1>1 DEF CreateCall, WInv, Typed, system
<1>4. Prefix(a)' = u
  BY <1>3 DEF Prefix
<1>5. /\ m \in (0 + 1)..(Len(s) + 1)
      /\ \A j \in (0 + 1)..(m - 1) : s[j] # "/"
  <2>1. 0 \in 0..Len(s)
    BY <1>2
  <2>2. QED
    BY <1>2, <2>1, NextMarkFacts
<1> HIDE DEF m
<1>6. /\ u \in Strings /\ Len(u) = m - 1 /\ Slashed(u) = u
      /\ \A i \in 1..(m - 1) : u[i] = s[i]
  <2>1. m - 1 \in 0..Len(s) /\ 1 \in 1..(Len(s) + 1)
    BY <1>2, <1>5
  <2>2. QED
    BY <1>2, <2>1, StartFacts, PlainPart
<1>7. 0 \in 0..Len(u) /\ \A j \in (0 + 1)..Len(u) : u[j] # "/"
  BY <1>5, <1>6
<1>8. SubSeq(u, 1, 0 - 1) = <<>>
  BY <1>6 DEF Strings
<1> HIDE DEF u
<1>9. Len(Node(u)) = 1 \/ Front(Node(u)) \in Roots
  BY <1>6, <1>7, <1>8, OneMore DEF Roots
<1>10. QED
  BY <1>3, <1>4, <1>9 DEF ReachedBy, Tree

\* What does not move a program, and removes nothing, leaves it where it is.
LEMMA StillReached ==
  ASSUME NEW a \in Programs, ReachedBy(a),
         pc'[a] = pc[a], path'[a] = path[a], mark'[a] = mark[a], meant'[a] = meant[a],
         dirs \subseteq dirs', files \subseteq files',
         a \in disturbed => a \in disturbed'
  PROVE  ReachedBy(a)'
<1>1. Prefix(a)' = Prefix(a)
  BY DEF Prefix
<1>2. InTheWay(a) => InTheWay(a)'
  BY DEF InTheWay
<1>3. QED
  BY <1>1, <1>2 DEF ReachedBy, Walking

LEMMA InitReached == Init => Reached
BY DEF Init, Reached, ReachedBy, Walking

LEMMA NextReachedKept == WInv /\ MInv /\ Tree /\ Tree' /\ Reached /\ [Next]_vars => Reached'
<1> SUFFICES ASSUME WInv, MInv, Tree, Tree', Reached, [Next]_vars, NEW b \in Programs
             PROVE  ReachedBy(b)'
  BY DEF Reached
<1>1. ReachedBy(b)
  BY DEF Reached
<1>2. /\ pc \in [Programs -> {"idle", "building", "stat", "mkdir"}]
      /\ path \in [Programs -> Strings] /\ mark \in [Programs -> Nat]
      /\ meant \in [Programs -> NodeSeqs]
  BY DEF WInv, Typed, MInv
<1>3. ASSUME NEW a \in Programs, Program(a) PROVE ReachedBy(b)'
  <2>1. CASE a # b
    <3>1. /\ pc'[b] = pc[b] /\ path'[b] = path[b] /\ mark'[b] = mark[b]
          /\ meant'[b] = meant[b] /\ dirs \subseteq dirs' /\ files' = files
          /\ b \in disturbed => b \in disturbed'
      <4>1. CASE Start(a)
        BY <1>2, <2>1, <4>1 DEF Start, system
      <4>2. CASE GoToParent(a) \/ TakeLeaf(a) \/ DropExt(a) \/ JoinLeafTo(a)
        BY <1>2, <2>1, <4>2 DEF GoToParent, TakeLeaf, DropExt, JoinLeafTo, Calls, system
      <4>3. CASE CreateCall(a)
        BY <1>2, <2>1, <4>3 DEF CreateCall, system
      <4>4. CASE StatFinds(a) \/ StatFindsNothing(a) \/ Mkdir(a)
        BY <1>2, <2>1, <4>4 DEF StatFinds, StatFindsNothing, Mkdir, NextPrefix, system
      <4>5. QED
        BY <1>3, <4>1, <4>2, <4>3, <4>4 DEF Program
    <3>2. QED
      BY <1>1, <3>1, StillReached
  <2>2. CASE a = b
    <3>1. CASE Start(b)
      BY <1>2, <3>1 DEF Start, ReachedBy, Walking
    <3>2. CASE GoToParent(b) \/ TakeLeaf(b) \/ DropExt(b) \/ JoinLeafTo(b)
      BY <1>2, <3>2 DEF GoToParent, TakeLeaf, DropExt, JoinLeafTo, Calls, ReachedBy, Walking
    <3>3. CASE CreateCall(b)
      BY <3>3, CreateReached
    <3>4. CASE StatFinds(b) \/ Mkdir(b)
      <4>1. /\ NextPrefix(b) /\ meant' = meant /\ disturbed' = disturbed /\ Walking(b)
        BY <3>4 DEF StatFinds, Mkdir, Walking
      <4>2. CASE meant[b] # Unknown /\ b \notin disturbed
        <5>1. Prefix(b) = <<>> \/ Node(Prefix(b)) \in dirs' \/ InTheWay(b)'
          BY <1>1, <3>4, <4>1, <4>2, PrefixThere
        <5>2. QED
          BY <4>1, <4>2, <5>1, NextReached
      <4>3. CASE ~(meant[b] # Unknown /\ b \notin disturbed)
        BY <4>1, <4>3 DEF ReachedBy
      <4>4. QED
        BY <4>2, <4>3
    <3>5. CASE StatFindsNothing(b)
      <4>1. /\ Walking(b) /\ path' = path /\ mark' = mark /\ meant' = meant
            /\ dirs' = dirs /\ files' = files /\ disturbed' = disturbed
        BY <3>5 DEF StatFindsNothing, Walking, system
      <4>2. Prefix(b)' = Prefix(b) /\ (InTheWay(b) => InTheWay(b)')
        BY <4>1 DEF Prefix, InTheWay
      <4>3. QED
        BY <1>1, <4>1, <4>2 DEF ReachedBy
    <3>6. QED
      BY <1>3, <2>2, <3>1, <3>2, <3>3, <3>4, <3>5 DEF Program
  <2>3. QED
    BY <2>1, <2>2
<1>4. CASE System
  <2>1. ASSUME NEW a \in Programs, MkdirFails(a) PROVE ReachedBy(b)'
    <3>1. CASE a = b
      BY <2>1, <3>1 DEF MkdirFails, Disturb, ReachedBy
    <3>2. CASE a # b
      <4>1. /\ pc'[b] = pc[b] /\ path'[b] = path[b] /\ mark'[b] = mark[b]
            /\ meant' = meant /\ dirs' = dirs /\ files' = files
            /\ disturbed \subseteq disturbed'
        BY <1>2, <2>1, <3>2 DEF MkdirFails, Disturb, NextPrefix
      <4>2. QED
        BY <1>1, <4>1, StillReached
    <3>3. QED
      BY <3>1, <3>2
  <2>2. ASSUME NEW n, Delete(n) PROVE ReachedBy(b)'
    BY <2>2 DEF Delete, Disturb, ReachedBy
  <2>3. ASSUME NEW n, PutFile(n) PROVE ReachedBy(b)'
    <3>1. /\ pc' = pc /\ path' = path /\ mark' = mark /\ meant' = meant
          /\ dirs' = dirs /\ files \subseteq files' /\ disturbed \subseteq disturbed'
      BY <2>3 DEF PutFile, Disturb
    <3>2. QED
      BY <1>1, <3>1, StillReached
  <2>4. QED
    BY <1>4, <2>1, <2>2, <2>3 DEF System
<1>5. CASE UNCHANGED vars
  <2>1. /\ pc' = pc /\ path' = path /\ mark' = mark /\ meant' = meant
        /\ dirs' = dirs /\ files' = files /\ disturbed' = disturbed
    BY <1>5 DEF vars, system
  <2>2. QED
    BY <1>1, <2>1, StillReached
<1>6. QED
  BY <1>3, <1>4, <1>5 DEF Next

-----------------------------------------------------------------------------
(* The theorems. *)

Inv == WInv /\ MInv /\ TInv /\ Reached

LEMMA Invariant == Spec => []Inv
<1>1. Init => Inv
  BY InitWInv, InitMInv, InitTInv, InitReached DEF Inv
<1>2. Inv /\ [Next]_vars => Inv'
  <2>1. Inv /\ [Next]_vars => WInv' /\ MInv' /\ TInv'
    BY NextWInv, NextMInv, NextTInv DEF Inv
  <2>2. Inv /\ [Next]_vars => Reached'
    BY <2>1, NextReachedKept DEF Inv, TInv
  <2>3. QED
    BY <2>1, <2>2 DEF Inv
<1>3. QED
  BY <1>1, <1>2, PTL DEF Spec

(* minfs_common.c:44, 70, 94, 115: whatever the paths, the leaves and the size of  *)
(* the buffer, and however many path functions are called one after the other,     *)
(* none writes past its buffer but a join that puts in a slash, by one byte.       *)
THEOREM WritesStayInBuffer == Spec => []WritesFit
<1>1. Inv => WritesFit
  BY DEF Inv, WInv
<1>2. QED
  BY <1>1, Invariant, PTL

(* minfs_posix.c:69-84, minfs_win.c:95-109: the mark of every program stays in its *)
(* path, all that is there is in a directory that is there, and nothing is both a  *)
(* directory and a file.                                                           *)
THEOREM TypeOKInvariant == Spec => []TypeOK
<1>1. Inv => TypeOK
  <2> SUFFICES ASSUME Inv PROVE TypeOK
    OBVIOUS
  <2>1. Counted /\ Tree /\ Typed /\ MarkInPath /\ WritesFit /\ BufSize \in Nat
    BY BoundsAssumption DEF Inv, WInv, TInv
  <2>2. ASSUME NEW a \in Programs
        PROVE  /\ mark[a] \in 0..(Len(path[a]) + 1)
               /\ mark[a] = 0 <=> pc[a] \in {"idle", "building"}
               /\ wrote[a].bytes \in 0..(BufSize + 1)
    <3>1. wrote[a].bytes \in Nat
      BY <2>1 DEF Typed, Writes
    <3>2. wrote[a].bytes <= BufSize \/ wrote[a].bytes <= BufSize + 1
      BY <2>1 DEF WritesFit
    <3>3. QED
      BY <2>1, <3>1, <3>2 DEF MarkInPath
  <2>3. QED
    BY <2>1, <2>2 DEF TypeOK, Counted, Tree, Typed
<1>2. QED
  BY <1>1, Invariant, PTL

\* One step makes no directory but one the program means, or one on the way to it.
LEMMA StepCreatesNothingElse ==
  ASSUME Inv, [Next]_vars, NEW a \in Programs,
         pc[a] = "mkdir", <<pc[a], mark[a]>>' # <<pc[a], mark[a]>>, meant[a] # Unknown,
         NEW n \in dirs' \ dirs
  PROVE  IsPrefix(n, meant[a])
<1>1. WInv /\ MInv /\ Typed
  BY DEF Inv, WInv
<1>2. ASSUME NEW b \in Programs, Program(b) PROVE IsPrefix(n, meant[a])
  <2>1. Mkdir(b)
    <3>1. dirs' # dirs
      OBVIOUS
    <3>2. QED
      BY <1>2, <3>1 DEF Program, Start, GoToParent, TakeLeaf, DropExt, JoinLeafTo, Calls,
                        CreateCall, StatFinds, StatFindsNothing, system
  <2>2. b = a
    BY <1>1, <2>1 DEF Mkdir, NextPrefix, Typed
  <2>3. n = Node(Prefix(a)) /\ Prefix(a) # <<>> /\ Walking(a)
    BY <2>1, <2>2 DEF Mkdir, Walking
  <2>4. QED
    BY <1>1, <2>3, WalkFacts
<1>3. CASE System
  BY <1>3 DEF System, MkdirFails, Delete, PutFile
<1>4. CASE UNCHANGED vars
  BY <1>4 DEF vars, system
<1>5. QED
  BY <1>2, <1>3, <1>4 DEF Next

(* minfs_posix.c:66-87, minfs_win.c:92-112 with minfs_common.c:29-132: whatever    *)
(* the paths and the leaves, whatever functions a program has put its path         *)
(* together with, and whatever others and the rest of the system do meanwhile, the *)
(* only directories it makes are the one it means and those on the way to it.      *)
THEOREM MakesNothingElse == Spec => CreatesNothingElse
<1>1. Inv /\ [Next]_vars =>
        [\A a \in Programs :
           (pc[a] = "mkdir" /\ <<pc[a], mark[a]>>' # <<pc[a], mark[a]>> /\ meant[a] # Unknown)
             => \A n \in dirs' \ dirs : IsPrefix(n, meant[a])]_vars
  BY StepCreatesNothingElse
<1>2. QED
  BY <1>1, Invariant, PTL DEF Spec, CreatesNothingElse

\* The step a creation ends with.
LEMMA StepCreatesWhatIsMeant ==
  ASSUME Inv, Inv', [Next]_vars, NEW a \in Programs,
         pc[a] \in {"stat", "mkdir"}, pc'[a] = "idle", meant[a] # Unknown,
         a \notin disturbed'
  PROVE  meant[a] \in dirs' \/ \E n \in Prefixes(meant[a]) : n \in files'
<1>1. /\ WInv /\ MInv /\ Tree /\ Tree' /\ ReachedBy(a) /\ Walking(a)
      /\ pc \in [Programs -> {"idle", "building", "stat", "mkdir"}]
  BY DEF Inv, TInv, WInv, Typed, Reached, Walking
<1>2. ASSUME NEW b \in Programs, Program(b) PROVE b = a /\ (StatFinds(a) \/ Mkdir(a))
  <2>1. CASE StatFinds(b) \/ Mkdir(b)
    BY <1>1, <2>1 DEF StatFinds, Mkdir, NextPrefix
  <2>2. CASE StatFindsNothing(b)
    BY <1>1, <2>2 DEF StatFindsNothing
  <2>3. CASE CreateCall(b) \/ Start(b)
    BY <1>1, <2>3 DEF CreateCall, Start
  <2>4. CASE GoToParent(b) \/ TakeLeaf(b) \/ DropExt(b) \/ JoinLeafTo(b)
    BY <2>4 DEF GoToParent, TakeLeaf, DropExt, JoinLeafTo, Calls
  <2>5. QED
    BY <1>2, <2>1, <2>2, <2>3, <2>4 DEF Program
<1>3. CASE StatFinds(a) \/ Mkdir(a)
  <2>1. NextPrefix(a) /\ meant' = meant /\ disturbed' = disturbed
    BY <1>3 DEF StatFinds, Mkdir
  <2>2. a \notin disturbed
    BY <2>1
  <2>3. Prefix(a) = <<>> \/ Node(Prefix(a)) \in dirs' \/ InTheWay(a)'
    BY <1>1, <1>3, <2>2, PrefixThere
  <2>4. meant[a] \in dirs' \/ InTheWay(a)'
    BY <1>1, <2>1, <2>3, NextReached
  <2>5. QED
    BY <2>1, <2>4 DEF InTheWay
<1>4. CASE System
  <2>1. ASSUME NEW b \in Programs, MkdirFails(b) PROVE FALSE
    BY <1>1, <2>1 DEF MkdirFails, Disturb, NextPrefix
  <2>2. ASSUME NEW n, Delete(n) \/ PutFile(n) PROVE FALSE
    BY <2>2 DEF Delete, PutFile
  <2>3. QED
    BY <1>4, <2>1, <2>2 DEF System
<1>5. CASE UNCHANGED vars
  BY <1>5 DEF vars
<1>6. QED
  BY <1>2, <1>3, <1>4, <1>5 DEF Next

(* The same code: whatever the paths and the leaves, and however many programs     *)
(* create directories at the same time, the directory a program means is there     *)
(* when its creation ends, unless mkdir failed, something was removed meanwhile or *)
(* a file is in the way.                                                           *)
THEOREM MakesWhatIsMeant == Spec => CreatesWhatIsMeant
<1>1. Inv /\ Inv' /\ [Next]_vars =>
        [\A a \in Programs :
           (/\ pc[a] \in {"stat", "mkdir"} /\ pc'[a] = "idle"
            /\ meant[a] # Unknown /\ a \notin disturbed')
             => \/ meant[a] \in dirs'
                \/ \E n \in Prefixes(meant[a]) : n \in files']_vars
  BY StepCreatesWhatIsMeant
<1>2. QED
  BY <1>1, Invariant, PTL DEF Spec, CreatesWhatIsMeant
=============================================================================
