---------------------------- MODULE Getopt_proof -----------------------------
(* Theorems about Getopt, for any options and any argv. *)
EXTENDS Getopt, SequenceTheorems, WellFoundedInduction, TLAPS

Reports == [result : Letters \cup {"?", ":", "done"}, optarg : Int \X Int,
            optopt : Letters \cup {""}]

\* Once optind is past argc, by a missing argument, nothing but the end is reported.
PastArgc ==
  /\ optind <= argc + 1
  /\ optind > argc => \E n \in DOMAIN log : /\ log[n].result = ":"
                                            /\ \A m \in DOMAIN log : m > n => log[m].result = "done"

IInv == TypeOK /\ log \in Seq(Reports) /\ PastArgc

LEMMA ArgcFacts == TypeOK => argc \in Nat /\ optind \in Nat
BY LenProperties DEF TypeOK, argc

LEMMA WordFacts ==
  ASSUME TypeOK, optind < argc
  PROVE  /\ Word \in Words /\ Word.text \in Seq(Letters)
         /\ Word.kind = "group" => Len(Word.text) >= 1
<1>1. optind \in 1..Len(argv)
  BY DEF TypeOK, argc
<1>2. Word \in Words
  BY <1>1 DEF TypeOK, Word
<1>3. Word.text \in Seq(Letters)
  BY <1>2, WordsAssumption
<1>4. QED
  BY <1>2, <1>3, WordsAssumption

LEMMA OptionFacts ==
  ASSUME NEW i \in DOMAIN Options
  PROVE  Options[i].short_name \in Letters /\ Options[i].has_arg \in HasArgs
<1> DEFINE R == [name : Seq(Letters), has_arg : HasArgs, flag : BOOLEAN,
                 short_name : Letters]
<1>1. Options \in Seq(R)
  BY OptionsAssumption
<1>2. ASSUME NEW r \in R PROVE r.short_name \in Letters /\ r.has_arg \in HasArgs
  OBVIOUS
<1> HIDE DEF R
<1>3. Options[i] \in R
  BY <1>1, LenProperties, ElementOfSeq
<1>4. QED
  BY <1>2, <1>3

\* Where single is in a group is a letter of it.
LEMMA CursorFacts ==
  ASSUME TypeOK, optind < argc, Word.kind = "group"
  PROVE  Cursor \in 1..Len(Word.text) /\ Optchar \in Letters
<1>1. Cursor \in 1..Len(Word.text)
  BY WordFacts DEF Cursor, TypeOK
<1>2. QED
  BY <1>1, WordFacts DEF Optchar

\* A report appended to the reports is one more report.
LEMMA ReportAppended ==
  ASSUME NEW s \in Seq(Reports), NEW r \in Reports
  PROVE  /\ Append(s, r) \in Seq(Reports) /\ Len(Append(s, r)) = Len(s) + 1
         /\ Append(s, r)[Len(s) + 1] = r
         /\ \A n \in DOMAIN s : Append(s, r)[n] = s[n]
BY AppendProperties, LenProperties

\* Every call adds one report.
LEMMA ReturnFacts ==
  ASSUME IInv, NEW res \in Letters \cup {"?", ":", "done"}, NEW arg \in Int \X Int,
         NEW opt \in Letters \cup {""}, Return(res, arg, opt)
  PROVE  /\ log' \in Seq(Reports) /\ argv' = argv /\ argc' = argc /\ result' = res
         /\ Len(log') = Len(log) + 1 /\ log'[Len(log) + 1].result = res
         /\ \A n \in DOMAIN log : log'[n] = log[n]
<1>1. PICK r \in Reports : r = [result |-> res, optarg |-> arg, optopt |-> opt]
  BY DEF Reports
<1>2. log' = Append(log, r) /\ argv' = argv /\ result' = res /\ r.result = res
  BY <1>1 DEF Return
<1>3. log \in Seq(Reports)
  BY DEF IInv
<1>4. /\ log' \in Seq(Reports) /\ Len(log') = Len(log) + 1 /\ log'[Len(log) + 1] = r
      /\ \A n \in DOMAIN log : log'[n] = log[n]
  <2>1. /\ Append(log, r) \in Seq(Reports) /\ Len(Append(log, r)) = Len(log) + 1
        /\ Append(log, r)[Len(log) + 1] = r
        /\ \A n \in DOMAIN log : Append(log, r)[n] = log[n]
    BY <1>3, ReportAppended
  <2>2. QED
    BY <1>2, <2>1
<1>5. QED
  BY <1>2, <1>4 DEF argc

\* A call that leaves optind within argv, or reports that an argument is missing.
LEMMA PastArgcKept ==
  ASSUME IInv, optind \in Nat, argc' = argc, optind' \in Nat, optind' <= argc + 1,
         log' \in Seq(Reports), Len(log') = Len(log) + 1,
         optind' > argc => log'[Len(log) + 1].result = ":"
  PROVE  PastArgc'
<1>1. Len(log) + 1 \in DOMAIN log' /\ \A m \in DOMAIN log' : m <= Len(log) + 1
  BY DEF IInv
<1>2. argc \in Nat
  BY ArgcFacts DEF IInv
<1>3. QED
  BY <1>1, <1>2 DEF PastArgc

\* The scan starts with the types of IInv.
LEMMA InitTyped == Init => IInv
<1> SUFFICES ASSUME Init PROVE IInv
  OBVIOUS
<1>1. argv \in Seq(Words) /\ Len(argv) \in Nat
  <2>1. PICK n \in 0..MaxWords : argv \in [1..n -> Words]
    BY DEF Init
  <2>2. n \in Nat
    BY <2>1, MaxWordsAssumption
  <2>3. argv \in Seq(Words)
    BY <2>1, <2>2, SeqDef
  <2>4. QED
    BY <2>3, LenProperties
<1>2. optind = 1 /\ optcursor = 0 /\ longindex = 0 /\ flags = {} /\ log = <<>>
  BY DEF Init
<1>3. TypeOK
  BY <1>1, <1>2 DEF TypeOK
<1>4. log \in Seq(Reports)
  BY <1>2, EmptySeq
<1>5. PastArgc
  BY <1>1, <1>2 DEF PastArgc, argc
<1>6. QED
  BY <1>3, <1>4, <1>5 DEF IInv

LEMMA ExhaustedTyped ==
  ASSUME IInv, Exhausted
  PROVE  IInv'
<1>1. /\ log' \in Seq(Reports) /\ argv' = argv /\ argc' = argc
      /\ Len(log') = Len(log) + 1 /\ log'[Len(log) + 1].result = "done"
      /\ \A n \in DOMAIN log : log'[n] = log[n]
  <2>1. Nothing \in Int \X Int
    BY DEF Nothing
  <2>2. Return("done", Nothing, "")
    BY DEF Exhausted
  <2>3. QED
    BY <2>1, <2>2, ReturnFacts
<1>2. TypeOK'
  BY <1>1 DEF Exhausted, IInv, TypeOK, Word
<1>3. PastArgc'
  <2>1. \A m \in DOMAIN log' : m \in DOMAIN log \/ m = Len(log) + 1
    BY <1>1 DEF IInv
  <2>2. \A m \in DOMAIN log : m \in DOMAIN log' /\ m < Len(log) + 1 /\ m \in Nat
    BY <1>1 DEF IInv
  <2>3. QED
    BY <1>1, <2>1, <2>2 DEF Exhausted, IInv, PastArgc
<1>4. QED
  BY <1>1, <1>2, <1>3 DEF IInv

LEMMA StepOverFacts ==
  ASSUME TypeOK, optind < argc, Word.kind = "group", StepOver
  PROVE  /\ optind' \in Nat \ {0} /\ optcursor' \in Nat /\ optind' <= argc
         /\ optind' > optind \/ (optind' = optind /\ optcursor' > optcursor)
         /\ optcursor' # 0 => optind' = optind /\ optcursor' <= Len(Word.text)
<1>1. Cursor \in 1..Len(Word.text) /\ (optcursor = 0 \/ Cursor = optcursor)
  BY CursorFacts DEF Cursor
<1>2. optind \in Nat \ {0} /\ argc \in Nat /\ optcursor \in Nat /\ Len(Word.text) \in Nat
  BY WordFacts DEF TypeOK, argc
<1>3. QED
  BY <1>1, <1>2 DEF StepOver, AtEnd

\* A call that moved on, and past argc only where it reports a missing argument.
MovedOn ==
  \/ result' = "done"
  \/ optind' > optind
  \/ optind' = optind /\ optcursor' > optcursor

Moved(res) ==
  /\ optind' \in Nat \ {0} /\ optcursor' \in Nat
  /\ optind' <= argc + 1 /\ (optind' > argc => res = ":")
  /\ optcursor' # 0 => /\ optind' = optind /\ optcursor' <= Len(Word.text)
                       /\ Word.kind = "group"

LEMMA MovedTyped ==
  ASSUME IInv, optind < argc, NEW res \in Letters \cup {"?", ":", "done"},
         NEW arg \in Int \X Int, NEW opt \in Letters \cup {""}, Return(res, arg, opt),
         Moved(res), longindex' \in Nat, flags' \subseteq DOMAIN Options
  PROVE  IInv'
<1>1. /\ log' \in Seq(Reports) /\ argv' = argv /\ argc' = argc /\ result' = res
      /\ Len(log') = Len(log) + 1 /\ log'[Len(log) + 1].result = res
  BY ReturnFacts
<1>2. argc \in Nat /\ optind \in Nat
  BY ArgcFacts DEF IInv
<1>3. TypeOK'
  BY <1>1, <1>2 DEF Moved, IInv, TypeOK, Word
<1>4. PastArgc'
  BY <1>1, <1>2, PastArgcKept DEF Moved
<1>5. QED
  BY <1>1, <1>3, <1>4 DEF IInv

LEMMA PlacesTyped ==
  ASSUME IInv
  PROVE  /\ Nothing \in Int \X Int /\ longindex \in Nat /\ flags \subseteq DOMAIN Options
         /\ <<optind, -1>> \in Int \X Int /\ <<optind + 1, 0>> \in Int \X Int
         /\ \A k \in Int : <<optind, k>> \in Int \X Int
BY DEF IInv, TypeOK, Nothing

LEMMA NoMoreTyped ==
  ASSUME IInv, NoMoreOptchars
  PROVE  IInv' /\ MovedOn
<1>1. Return("done", Nothing, "") /\ longindex' = longindex /\ flags' = flags
  BY DEF NoMoreOptchars
<1>2. /\ argc \in Nat /\ optind \in Nat /\ optind # 0 /\ optind < argc /\ optcursor' = 0
      /\ optind' = optind \/ optind' = optind + 1
  BY ArgcFacts DEF NoMoreOptchars, IInv, TypeOK
<1>3. optind' \in Nat /\ optind' # 0 /\ optind' <= argc
  BY <1>2
<1>4. Moved("done")
  BY <1>2, <1>3 DEF Moved
<1>5. QED
  BY <1>1, <1>2, <1>4, MovedTyped, PlacesTyped DEF MovedOn, Return

LEMMA ShortTyped ==
  ASSUME IInv, ShortOption
  PROVE  IInv' /\ MovedOn
<1>1. /\ optind < argc /\ Word.kind = "group" /\ longindex' = longindex /\ flags' = flags
      /\ argc \in Nat /\ optind \in Nat /\ optind # 0
  BY ArgcFacts DEF ShortOption, IInv, TypeOK
<1>2. Optchar \in Letters /\ Cursor \in Int /\ TypeOK
  BY <1>1, CursorFacts DEF IInv
<1>3. ASSUME NEW res \in Letters \cup {"?"}, StepOver, Return(res, Nothing, Optchar)
      PROVE  IInv' /\ MovedOn
  <2>1. Moved(res) /\ MovedOn
    BY <1>1, <1>2, <1>3, StepOverFacts DEF Moved, MovedOn
  <2>2. QED
    BY <1>1, <1>2, <1>3, <2>1, MovedTyped, PlacesTyped
<1>4. ASSUME NEW res \in Letters \cup {":"}, NEW arg \in Int \X Int, Return(res, arg, Optchar),
             optind' \in {optind + 1, optind + 2}, optind' > argc => res = ":", optcursor' = 0
      PROVE  IInv' /\ MovedOn
  <2>1. Moved(res) /\ MovedOn
    BY <1>1, <1>4 DEF Moved, MovedOn
  <2>2. QED
    BY <1>1, <1>2, <1>4, <2>1, MovedTyped, PlacesTyped
<1>5. CASE Named(Optchar) = {}
  BY <1>2, <1>3, <1>5 DEF ShortOption
<1>6. CASE Named(Optchar) # {}
  <2> DEFINE o == Options[First(Named(Optchar))]
  <2>1. CASE o.has_arg = "no" /\ StepOver /\ Return(Optchar, Nothing, Optchar)
    BY <1>2, <1>3, <2>1
  <2>2. CASE /\ optind' = optind + 1 /\ optcursor' = 0
             /\ Return(Optchar, IF AtEnd THEN Nothing ELSE <<optind, Cursor + 1>>, Optchar)
    <3>1. (IF AtEnd THEN Nothing ELSE <<optind, Cursor + 1>>) \in Int \X Int
      <4>1. Cursor + 1 \in Int
        BY <1>2
      <4>2. <<optind, Cursor + 1>> \in Int \X Int /\ Nothing \in Int \X Int
        BY <4>1, PlacesTyped
      <4>3. QED
        BY <4>2
    <3>2. QED
      BY <1>1, <1>2, <1>4, <2>2, <3>1
  <2>3. CASE /\ optind' = optind + 2 /\ optcursor' = 0
             /\ IF optind + 1 < argc THEN Return(Optchar, <<optind + 1, 0>>, Optchar)
                                     ELSE Return(":", Nothing, Optchar)
    <3>1. CASE optind + 1 < argc
      BY <1>1, <1>2, <1>4, <2>3, <3>1, PlacesTyped
    <3>2. CASE ~(optind + 1 < argc)
      BY <1>1, <1>2, <1>4, <2>3, <3>2, PlacesTyped
    <3>3. QED
      BY <3>1, <3>2
  <2>4. QED
    BY <1>6, <2>1, <2>2, <2>3 DEF ShortOption
<1>7. QED
  BY <1>5, <1>6

LEMMA LongTyped ==
  ASSUME IInv, LongOption \/ LongUnknown
  PROVE  IInv' /\ MovedOn
<1>1. optind < argc /\ argc \in Nat /\ optind \in Nat /\ optind # 0
  BY ArgcFacts DEF LongOption, LongUnknown, IInv, TypeOK
<1>2. optcursor = 0 /\ optcursor' = 0
  BY DEF LongOption, LongUnknown, IInv, TypeOK
<1>3. ASSUME NEW res \in Letters \cup {":", "?"}, NEW arg \in Int \X Int, Return(res, arg, ""),
             optind' = optind + 1 \/ optind' = optind + 2, optind' > argc => res = ":",
             longindex' \in Nat, flags' \subseteq DOMAIN Options
      PROVE  IInv' /\ MovedOn
  <2>1. optind' \in Nat /\ optind' # 0 /\ optind' > optind /\ optind' <= argc + 1
    <3>1. optind' = optind + 1 \/ optind' = optind + 2
      BY <1>3
    <3>2. QED
      BY <1>1, <3>1
  <2>2. Moved(res) /\ MovedOn
    BY <1>2, <1>3, <2>1 DEF Moved, MovedOn
  <2>3. QED
    BY <1>1, <1>3, <2>2, MovedTyped
<1>4. CASE LongUnknown
  <2>1. Return("?", Nothing, "") /\ longindex' = longindex /\ flags' = flags
    BY <1>4 DEF LongUnknown
  <2>2. optind' = optind + 1 /\ ~(optind' > argc)
    <3>1. optind' = optind + 1
      BY <1>4 DEF LongUnknown
    <3>2. QED
      BY <1>1, <3>1
  <2>3. Nothing \in Int \X Int /\ longindex' \in Nat /\ flags' \subseteq DOMAIN Options
    BY <2>1, PlacesTyped
  <2>4. QED
    BY <1>3, <2>1, <2>2, <2>3
<1>5. CASE LongOption
  <2>1. PICK i \in Matches(Word.text) :
          LET o == Options[i] IN
          /\ longindex' = i - 1
          /\ flags' = IF o.flag THEN flags \cup {i} ELSE flags
          /\ \/ o.has_arg = "required" /\ LongRequired(o.short_name)
             \/ /\ o.has_arg = "optional" /\ optind' = optind + 1
                /\ Return(o.short_name, IF Word.eq THEN <<optind, -1>> ELSE Nothing, "")
             \/ /\ o.has_arg = "no" /\ optind' = optind + 1
                /\ Return(IF Word.eq THEN "?" ELSE o.short_name, Nothing, "")
    BY <1>5 DEF LongOption
  <2>2. i \in DOMAIN Options /\ Options[i].short_name \in Letters
    BY OptionFacts DEF Matches
  <2>3. longindex' \in Nat /\ flags' \subseteq DOMAIN Options
    <3>1. i \in Nat \ {0}
      BY <2>2, OptionsAssumption, LenProperties
    <3>2. longindex' \in Nat
      <4>1. longindex' = i - 1
        BY <2>1
      <4>2. QED
        BY <3>1, <4>1
    <3>3. flags' = flags \/ flags' = flags \cup {i}
      BY <2>1
    <3>4. QED
      BY <2>2, <3>2, <3>3, PlacesTyped
  <2>4. CASE LongRequired(Options[i].short_name)
    <3>1. CASE Word.eq
      <4>1. optind' = optind + 1 /\ Return(Options[i].short_name, <<optind, -1>>, "")
        BY <2>4, <3>1 DEF LongRequired
      <4>2. optind' = optind + 1
        BY <4>1
      <4>3. ~(optind' > argc)
        BY <1>1, <4>2
      <4>4. <<optind, -1>> \in Int \X Int
        BY PlacesTyped
      <4>5. QED
        BY <1>3, <2>2, <2>3, <4>1, <4>3, <4>4
    <3>2. CASE ~Word.eq /\ optind + 1 < argc
      <4>1. optind' = optind + 2 /\ Return(Options[i].short_name, <<optind + 1, 0>>, "")
        BY <2>4, <3>2 DEF LongRequired
      <4>2. optind' = optind + 2 /\ optind + 1 < argc
        BY <3>2, <4>1
      <4>3. ~(optind' > argc)
        BY <1>1, <4>2
      <4>4. <<optind + 1, 0>> \in Int \X Int
        BY PlacesTyped
      <4>5. QED
        BY <1>3, <2>2, <2>3, <4>1, <4>3, <4>4
    <3>3. CASE ~Word.eq /\ ~(optind + 1 < argc)
      <4>1. optind' = optind + 2 /\ Return(":", Nothing, "")
        BY <2>4, <3>3 DEF LongRequired
      <4>2. QED
        BY <1>3, <2>3, <4>1, PlacesTyped
    <3>4. QED
      BY <3>1, <3>2, <3>3
  <2>5. ASSUME NEW res \in Letters \cup {":", "?"}, NEW arg \in Int \X Int,
               optind' = optind + 1, Return(res, arg, "")
        PROVE  IInv' /\ MovedOn
    <3>1. optind' = optind + 1
      BY <2>5
    <3>2. ~(optind' > argc)
      BY <1>1, <3>1
    <3>3. QED
      BY <1>3, <2>3, <2>5, <3>2
  <2>6. CASE /\ optind' = optind + 1
             /\ Return(Options[i].short_name, IF Word.eq THEN <<optind, -1>> ELSE Nothing, "")
    <3>1. CASE Word.eq
      <4>1. Return(Options[i].short_name, <<optind, -1>>, "")
        BY <2>6, <3>1
      <4>2. <<optind, -1>> \in Int \X Int
        BY PlacesTyped
      <4>3. QED
        BY <2>2, <2>5, <2>6, <4>1, <4>2
    <3>2. CASE ~Word.eq
      <4>1. Return(Options[i].short_name, Nothing, "") /\ Nothing \in Int \X Int
        BY <2>6, <3>2, PlacesTyped
      <4>2. QED
        BY <2>2, <2>5, <2>6, <4>1
    <3>3. QED
      BY <3>1, <3>2
  <2>7. CASE /\ optind' = optind + 1
             /\ Return(IF Word.eq THEN "?" ELSE Options[i].short_name, Nothing, "")
    <3>1. Return("?", Nothing, "") \/ Return(Options[i].short_name, Nothing, "")
      BY <2>7
    <3>2. QED
      BY <2>2, <2>5, <2>7, <3>1, PlacesTyped
  <2>8. QED
    BY <2>1, <2>4, <2>6, <2>7
<1>6. QED
  BY <1>4, <1>5

\* Every step keeps the types and moves on through the arguments.
LEMMA NextTyped == IInv /\ [Next]_vars => IInv' /\ [MovedOn]_vars
<1> SUFFICES ASSUME IInv, [Next]_vars PROVE IInv' /\ [MovedOn]_vars
  OBVIOUS
<1>1. CASE Exhausted
  BY <1>1, ExhaustedTyped DEF Exhausted, Return, MovedOn
<1>2. CASE NoMoreOptchars
  BY <1>2, NoMoreTyped
<1>3. CASE ShortOption
  BY <1>3, ShortTyped
<1>4. CASE LongOption \/ LongUnknown
  BY <1>4, LongTyped
<1>5. CASE UNCHANGED vars
  BY <1>5 DEF vars, IInv, TypeOK, PastArgc, argc, Word
<1>6. QED
  BY <1>1, <1>2, <1>3, <1>4, <1>5 DEF Next, GopNext

(* The variables keep their types, and the cursor never outlives the group it is in. *)
THEOREM TypeOKInvariant == Spec => []TypeOK
<1>1. IInv => TypeOK
  BY DEF IInv
<1>2. IInv /\ [Next]_vars => IInv'
  BY NextTyped
<1>3. QED
  BY <1>1, <1>2, InitTyped, PTL DEF Spec

(* Whatever the command line, optind passes argc by one at most, after a missing   *)
(* argument was reported, and nothing but the end is reported then.                *)
THEOREM OptindStaysInArgv == Spec => []OptindInArgv
<1>1. IInv => OptindInArgv
  BY DEF IInv, PastArgc, OptindInArgv
<1>2. IInv /\ [Next]_vars => IInv'
  BY NextTyped
<1>3. QED
  BY <1>1, <1>2, InitTyped, PTL DEF Spec

(* Each call of gop_next that does not return -1 moves on in argv.                 *)
THEOREM CallsMakeProgress == Spec => Progress
<1>1. IInv /\ [Next]_vars => IInv' /\ [MovedOn]_vars
  BY NextTyped
<1>2. [MovedOn]_vars => [\/ result' = "done"
                         \/ optind' > optind
                         \/ optind' = optind /\ optcursor' > optcursor]_vars
  BY DEF MovedOn
<1>3. QED
  BY <1>1, <1>2, InitTyped, PTL DEF Spec, Progress

-----------------------------------------------------------------------------
(* What a command line means, and that the calls report it. *)

\* A set of numbers that is not empty has a least one.
LEMMA LeastExists ==
  ASSUME NEW S, S \subseteq Nat, S # {}
  PROVE  \E m \in S : \A n \in S : m <= n
<1>1. PICK m \in S : \A n \in S : ~(<<n, m>> \in OpToRel(<, Nat))
  BY NatLessThanWellFounded, WFMin
<1>2. ASSUME NEW n \in S PROVE m <= n
  <2>1. n \in Nat /\ m \in Nat /\ <<n, m>> \in Nat \X Nat
    OBVIOUS
  <2>2. ~(n < m)
    BY <1>1, <2>1 DEF OpToRel
  <2>3. QED
    BY <2>1, <2>2
<1>3. QED
  BY <1>2

LEMMA FirstFacts ==
  ASSUME NEW S, S \subseteq Nat, S # {}
  PROVE  First(S) \in S /\ \A j \in S : First(S) <= j
<1>1. \E i \in S : \A j \in S : i <= j
  BY LeastExists
<1>2. QED
  BY <1>1 DEF First

\* What holds at 0, and at a number when it holds at all smaller ones, holds up to n.
LEMMA InductionUpTo ==
  ASSUME NEW n \in Nat, NEW S,
         \A k \in 0..n : (\A j \in 0..(k - 1) : j \in S) => k \in S
  PROVE  \A k \in 0..n : k \in S
<1> DEFINE T == {k \in 0..n : k \notin S}
<1>1. SUFFICES ASSUME T # {} PROVE FALSE
  OBVIOUS
<1>2. PICK m \in T : \A k \in T : m <= k
  <2>1. T \subseteq Nat
    OBVIOUS
  <2> HIDE DEF T
  <2>2. QED
    BY <1>1, <2>1, LeastExists
<1>3. \A j \in 0..(m - 1) : j \in S
  BY <1>2
<1>4. QED
  BY <1>2, <1>3

LEMMA NamedFacts ==
  ASSUME NEW c, Named(c) # {}
  PROVE  First(Named(c)) \in DOMAIN Options /\ Options[First(Named(c))].short_name = c
<1>1. Named(c) \subseteq Nat
  BY OptionsAssumption, LenProperties DEF Named
<1>2. First(Named(c)) \in Named(c)
  BY <1>1, FirstFacts
<1>3. QED
  BY <1>2 DEF Named

LEMMA TakesFacts ==
  ASSUME NEW c
  PROVE  Takes(c) \in HasArgs
BY NamedFacts, OptionFacts DEF Takes, HasArgs

LEMMA NothingTyped == Nothing \in Int \X Int
BY DEF Nothing

LEMMA ResultTyped ==
  ASSUME NEW res \in Letters \cup {"?", ":", "done"}, NEW arg \in Int \X Int,
         NEW opt \in Letters \cup {""}
  PROVE  Result(res, arg, opt) \in Reports
BY DEF Result, Reports

LEMMA LetterTyped ==
  ASSUME NEW c \in Letters
  PROVE  Letter(c) \in Reports
BY NothingTyped, ResultTyped DEF Letter

LEMMA PlaceTyped ==
  ASSUME NEW i \in Int
  PROVE  <<i, -1>> \in Int \X Int /\ <<i + 1, 0>> \in Int \X Int
OBVIOUS

LEMMA NextWordTyped ==
  ASSUME NEW words, NEW i \in Int, NEW c \in Letters, NEW opt \in Letters \cup {""}
  PROVE  NextWord(words, i, c, opt) \in Reports
<1>1. Nothing \in Int \X Int /\ <<i + 1, 0>> \in Int \X Int
  BY NothingTyped, PlaceTyped
<1>2. QED
  BY <1>1, ResultTyped DEF NextWord

LEMMA WordsFacts ==
  ASSUME NEW words \in Seq(Words), NEW i \in 1..Len(words)
  PROVE  /\ words[i].text \in Seq(Letters) /\ Len(words[i].text) \in Nat
         /\ words[i].kind \in {"operand", "end", "group", "long"} /\ words[i].eq \in BOOLEAN
         /\ words[i].kind = "group" => Len(words[i].text) >= 1
<1>1. words[i] \in Words
  BY ElementOfSeq
<1>2. words[i] \in [kind : {"operand", "end", "group", "long"}, text : Seq(Letters), eq : BOOLEAN]
  BY <1>1, WordsAssumption
<1>3. words[i].text \in Seq(Letters) /\ words[i].kind \in {"operand", "end", "group", "long"}
      /\ words[i].eq \in BOOLEAN
  BY <1>2
<1>4. words[i].kind = "group" => words[i].text # <<>>
  BY <1>1, WordsAssumption
<1>5. QED
  BY <1>3, <1>4, LenProperties, EmptySeq

\* The first letter with an argument, or the end.
LEMMA ArgumentAtFacts ==
  ASSUME NEW text \in Seq(Letters)
  PROVE  /\ ArgumentAt(text) \in 1..(Len(text) + 1)
         /\ \A j \in 1..(ArgumentAt(text) - 1) : Takes(text[j]) = "no"
         /\ ArgumentAt(text) <= Len(text) => Takes(text[ArgumentAt(text)]) # "no"
<1> DEFINE S == {k \in DOMAIN text : Takes(text[k]) # "no"}
<1>1. DOMAIN text = 1..Len(text) /\ Len(text) \in Nat
  BY LenProperties
<1>2. CASE S = {}
  <2>1. ArgumentAt(text) = Len(text) + 1
    BY <1>2 DEF ArgumentAt
  <2>2. QED
    BY <1>1, <1>2, <2>1
<1>3. CASE S # {}
  <2>1. ArgumentAt(text) = First(S)
    BY <1>3 DEF ArgumentAt
  <2>2. S \subseteq Nat
    BY <1>1
  <2>3. First(S) \in S /\ \A j \in S : First(S) <= j
    <3> HIDE DEF S
    <3>1. QED
      BY <1>3, <2>2, FirstFacts
  <2>4. First(S) \in 1..Len(text) /\ Takes(text[First(S)]) # "no"
    BY <1>1, <2>3
  <2>5. \A j \in 1..(First(S) - 1) : Takes(text[j]) = "no"
    <3> SUFFICES ASSUME NEW j \in 1..(First(S) - 1), Takes(text[j]) # "no" PROVE FALSE
      OBVIOUS
    <3>1. j \in S
      BY <1>1, <2>4
    <3> HIDE DEF S
    <3>2. QED
      BY <2>3, <2>4, <3>1, <1>1
  <2>6. QED
    BY <1>1, <2>1, <2>4, <2>5
<1>4. QED
  BY <1>2, <1>3


\* The reports of a group: its letters up to the k-th, the first that has an argument.
GroupReports(words, i, text, k, g) ==
  /\ g.log \in Seq(Reports) /\ g.words \in {1, 2}
  /\ Len(g.log) = IF k > Len(text) THEN Len(text) ELSE k
  /\ \A j \in 1..(k - 1) : g.log[j] = Letter(text[j])
  /\ k > Len(text) => g.words = 1
  /\ k <= Len(text) =>
       LET c == text[k] IN
       /\ g.words = IF k = Len(text) /\ Takes(c) = "required" THEN 2 ELSE 1
       /\ g.log[k] = IF k < Len(text) THEN Result(c, <<i, k + 1>>, c)
                     ELSE IF Takes(c) = "optional" THEN Result(c, Nothing, c)
                     ELSE NextWord(words, i, c, c)

LEMMA GroupFacts ==
  ASSUME NEW words \in Seq(Words), NEW i \in 1..Len(words), words[i].kind = "group"
  PROVE  GroupReports(words, i, words[i].text, ArgumentAt(words[i].text), Group(words, i))
<1>0. PICK text, k, g : text = words[i].text /\ k = ArgumentAt(text) /\ g = Group(words, i)
  OBVIOUS
<1> SUFFICES GroupReports(words, i, text, k, g)
  BY <1>0
<1> USE DEF GroupReports
<1> DEFINE before == [j \in 1..(k - 1) |-> Letter(text[j])]
           c == text[k]
<1>1. text \in Seq(Letters) /\ Len(text) \in Nat /\ Len(text) >= 1 /\ i \in Int
  BY <1>0, WordsFacts
<1>2. k \in 1..(Len(text) + 1)
  BY <1>0, <1>1, ArgumentAtFacts
<1>3. before \in Seq(Reports) /\ Len(before) = k - 1
  <2>1. k - 1 \in Nat
    BY <1>1, <1>2
  <2>2. \A j \in 1..(k - 1) : Letter(text[j]) \in Reports
    <3> SUFFICES ASSUME NEW j \in 1..(k - 1) PROVE Letter(text[j]) \in Reports
      OBVIOUS
    <3>1. j \in 1..Len(text)
      BY <1>1, <1>2
    <3>2. QED
      BY <1>1, <3>1, ElementOfSeq, LetterTyped
  <2>3. before \in [1..(k - 1) -> Reports]
    BY <2>2
  <2> HIDE DEF before
  <2>4. before \in Seq(Reports)
    BY <2>1, <2>3, SeqDef
  <2>5. DOMAIN before = 1..(k - 1) /\ Len(before) \in Nat /\ DOMAIN before = 1..Len(before)
    BY <2>3, <2>4, LenProperties
  <2>6. QED
    BY <2>1, <2>4, <2>5
<1>4. \A j \in 1..(k - 1) : before[j] = Letter(text[j])
  OBVIOUS
<1>5. CASE k > Len(text)
  <2>1. g = [log |-> before, words |-> 1]
    BY <1>1, <1>2, <1>5, <1>0, SMTT(60) DEF Group
  <2>2. k = Len(text) + 1
    BY <1>1, <1>2, <1>5
  <2> HIDE DEF before
  <2>3. QED
    BY <1>1, <1>3, <1>4, <2>1, <2>2
<1>6. ASSUME k <= Len(text), NEW r \in Reports, NEW n, g = [log |-> Append(before, r), words |-> n]
      PROVE  /\ g.log \in Seq(Reports) /\ Len(g.log) = k /\ g.log[k] = r /\ g.words = n
             /\ \A j \in 1..(k - 1) : g.log[j] = Letter(text[j])
  <2> HIDE DEF before
  <2>1. /\ Append(before, r) \in Seq(Reports) /\ Len(Append(before, r)) = Len(before) + 1
        /\ \A j \in 1..Len(before) : Append(before, r)[j] = before[j]
        /\ Append(before, r)[Len(before) + 1] = r
    BY <1>3, AppendProperties
  <2>2. g.log = Append(before, r) /\ g.words = n
    BY <1>6
  <2>3. QED
    BY <1>2, <1>3, <1>4, <2>1, <2>2
<1>7. CASE k <= Len(text)
  <2>1. c \in Letters /\ Takes(c) \in HasArgs /\ Takes(c) # "no"
    BY <1>1, <1>2, <1>7, ElementOfSeq, TakesFacts, ArgumentAtFacts, <1>0
  <2>2. /\ Result(c, Nothing, c) \in Reports /\ NextWord(words, i, c, c) \in Reports
        /\ Result(c, <<i, k + 1>>, c) \in Reports
    <3>1. k + 1 \in Int
      BY <1>1, <1>2
    <3>2. Nothing \in Int \X Int /\ <<i, k + 1>> \in Int \X Int
      BY <1>1, <3>1 DEF Nothing
    <3> HIDE DEF c
    <3>3. QED
      BY <1>1, <2>1, <3>2, ResultTyped, NextWordTyped
  <2>3. CASE k < Len(text)
    <3>1. g = [log |-> Append(before, Result(c, <<i, k + 1>>, c)), words |-> 1]
      BY <1>1, <1>2, <2>3, <1>0 DEF Group
    <3>2. k # Len(text) /\ ~(k > Len(text))
      BY <1>1, <1>2, <2>3
    <3> HIDE DEF c, before
    <3>3. QED
      BY <1>6, <1>7, <2>2, <2>3, <3>1, <3>2 DEF c
  <2>4. CASE k = Len(text) /\ Takes(c) = "optional"
    <3>1. ~(k < Len(text)) /\ ~(k > Len(text))
      BY <1>1, <1>2, <2>4
    <3>2. g = [log |-> Append(before, Result(c, Nothing, c)), words |-> 1]
      <4>1. Takes(text[k]) = "optional" /\ k = Len(text)
        BY <2>4
      <4> HIDE DEF GroupReports
      <4>2. QED
        BY <1>0, <3>1, <4>1 DEF Group
    <3> HIDE DEF c, before
    <3>3. QED
      BY <1>6, <1>7, <2>2, <2>4, <3>1, <3>2 DEF c
  <2>5. CASE k = Len(text) /\ Takes(c) = "required"
    <3>1. ~(k < Len(text)) /\ ~(k > Len(text))
      BY <1>1, <1>2, <2>5
    <3>2. g = [log |-> Append(before, NextWord(words, i, c, c)), words |-> 2]
      <4>1. Takes(text[k]) = "required" /\ k = Len(text)
        BY <2>5
      <4> HIDE DEF GroupReports
      <4>2. QED
        BY <1>0, <3>1, <4>1 DEF Group
    <3> HIDE DEF c, before
    <3>3. QED
      BY <1>6, <1>7, <2>2, <2>5, <3>1, <3>2 DEF c
  <2>6. k < Len(text) \/ k = Len(text)
    BY <1>1, <1>2, <1>7
  <2>7. Takes(c) = "optional" \/ Takes(c) = "required"
    BY <2>1 DEF HasArgs
  <2> HIDE DEF c, before
  <2>8. QED
    BY <2>3, <2>4, <2>5, <2>6, <2>7
<1>8. QED
  BY <1>1, <1>2, <1>5, <1>7

\* The option a long name stands for.
LEMMA MatchFacts ==
  ASSUME NEW name, NEW n \in DOMAIN Options, Matches(name) = {n}
  PROVE  First(Matches(name)) = n
<1>1. {n} \subseteq Nat /\ {n} # {}
  BY OptionsAssumption, LenProperties
<1>2. First({n}) \in {n}
  BY <1>1, FirstFacts
<1>3. QED
  BY <1>2

\* The one report of a long option.
LEMMA LongFacts ==
  ASSUME NEW words \in Seq(Words), NEW i \in 1..Len(words)
  PROVE  \E r \in Reports : /\ Long(words, i).log = <<r>>
                            /\ Long(words, i).words \in {1, 2}
<1> DEFINE known == \E n \in DOMAIN Options : Matches(words[i].text) = {n}
           o == Options[First(Matches(words[i].text))]
           c == o.short_name
           eq == words[i].eq
<1>1. i \in Int /\ eq \in BOOLEAN
  BY WordsFacts
<1>2. known => c \in Letters /\ o.has_arg \in HasArgs
  BY MatchFacts, OptionFacts
<1>3. /\ Result("?", Nothing, "") \in Reports
      /\ known => /\ Result(c, <<i, -1>>, "") \in Reports /\ Result(c, Nothing, "") \in Reports
                  /\ NextWord(words, i, c, "") \in Reports
  <2>1. Nothing \in Int \X Int /\ <<i, -1>> \in Int \X Int
    BY <1>1 DEF Nothing
  <2> HIDE DEF known, c
  <2>2. QED
    BY <1>1, <1>2, <2>1, ResultTyped, NextWordTyped
<1>4. ASSUME NEW r \in Reports, NEW n \in {1, 2}, Long(words, i) = [log |-> <<r>>, words |-> n]
      PROVE  \E q \in Reports : Long(words, i).log = <<q>> /\ Long(words, i).words \in {1, 2}
  BY <1>4
<1>5. CASE ~known \/ (eq /\ o.has_arg = "no")
  <2>1. Long(words, i) = [log |-> <<Result("?", Nothing, "")>>, words |-> 1]
    BY <1>5 DEF Long
  <2> HIDE DEF known, c
  <2>2. QED
    BY <1>3, <1>4, <2>1
<1>6. CASE known /\ eq /\ o.has_arg # "no"
  <2>1. Long(words, i) = [log |-> <<Result(c, <<i, -1>>, "")>>, words |-> 1]
    BY <1>6 DEF Long
  <2> HIDE DEF known, c
  <2>2. QED
    BY <1>3, <1>4, <1>6, <2>1
<1>7. CASE known /\ ~eq /\ o.has_arg # "required"
  <2>1. Long(words, i) = [log |-> <<Result(c, Nothing, "")>>, words |-> 1]
    BY <1>7 DEF Long
  <2> HIDE DEF known, c
  <2>2. QED
    BY <1>3, <1>4, <1>7, <2>1
<1>8. CASE known /\ ~eq /\ o.has_arg = "required"
  <2>1. Long(words, i) = [log |-> <<NextWord(words, i, c, "")>>, words |-> 2]
    BY <1>8 DEF Long
  <2> HIDE DEF known, c
  <2>2. QED
    BY <1>3, <1>4, <1>8, <2>1
<1>9. QED
  BY <1>1, <1>5, <1>6, <1>7, <1>8


\* What the reading of a command line finds.
Finding == [log : Seq(Reports), flags : SUBSET (DOMAIN Options), optind : Nat]

\* What the i-th word is, and the words it takes with it.
WordRead(words, i) == IF words[i].kind = "group" THEN Group(words, i) ELSE Long(words, i)

LEMMA WordReadFacts ==
  ASSUME NEW words \in Seq(Words), NEW i \in 1..Len(words)
  PROVE  WordRead(words, i).log \in Seq(Reports) /\ WordRead(words, i).words \in {1, 2}
<1>1. CASE words[i].kind = "group"
  <2>1. Group(words, i).log \in Seq(Reports) /\ Group(words, i).words \in {1, 2}
    BY <1>1, GroupFacts DEF GroupReports
  <2>2. QED
    BY <1>1, <2>1 DEF WordRead
<1>2. CASE words[i].kind # "group"
  <2>1. PICK r \in Reports : Long(words, i).log = <<r>> /\ Long(words, i).words \in {1, 2}
    BY LongFacts
  <2>2. <<r>> \in Seq(Reports)
    OBVIOUS
  <2>3. QED
    BY <1>2, <2>1, <2>2 DEF WordRead
<1>3. QED
  BY <1>1, <1>2

\* The cases of a word, with the fields of what it finds.
LEMMA ReadCases ==
  ASSUME NEW words, NEW i, NEW rest
  PROVE  /\ (i > Len(words) \/ words[i].kind = "operand") => Read(words, i, rest) = Stop(i)
         /\ (~(i > Len(words)) /\ words[i].kind = "end") => Read(words, i, rest) = Stop(i + 1)
         /\ (~(i > Len(words)) /\ words[i].kind \notin {"operand", "end"}) =>
              LET after == rest[i + WordRead(words, i).words] IN
              Read(words, i, rest) =
                [log |-> WordRead(words, i).log \o after.log,
                 flags |-> Flagged(words, i) \cup after.flags, optind |-> after.optind]
<1>1. (i > Len(words) \/ words[i].kind = "operand") => Read(words, i, rest) = Stop(i)
  BY DEF Read
<1>2. (~(i > Len(words)) /\ words[i].kind = "end") => Read(words, i, rest) = Stop(i + 1)
  BY DEF Read
<1>3. ASSUME ~(i > Len(words)), words[i].kind \notin {"operand", "end"}
      PROVE  LET after == rest[i + WordRead(words, i).words] IN
             Read(words, i, rest) =
               [log |-> WordRead(words, i).log \o after.log,
                flags |-> Flagged(words, i) \cup after.flags, optind |-> after.optind]
  BY <1>3 DEF Read, WordRead
<1>4. QED
  BY <1>1, <1>2, <1>3

LEMMA StopTyped ==
  ASSUME NEW i \in Nat
  PROVE  Stop(i) \in Finding
<1>1. PICK r \in Reports : r = Result("done", Nothing, "")
  BY NothingTyped, ResultTyped
<1>2. <<r>> \in Seq(Reports)
  OBVIOUS
<1>3. Stop(i) = [log |-> <<r>>, flags |-> {}, optind |-> i]
  BY <1>1 DEF Stop
<1>4. QED
  BY <1>2, <1>3 DEF Finding

\* A word is read with what is found in later words only.
LEMMA ReadFacts ==
  ASSUME NEW words \in Seq(Words), NEW i \in 1..(Len(words) + 2), NEW rest,
         \A j \in (i + 1)..(Len(words) + 2) : rest[j] \in Finding
  PROVE  /\ Read(words, i, rest) \in Finding
         /\ \A other : (\A j \in (i + 1)..(Len(words) + 2) : other[j] = rest[j])
                         => Read(words, i, other) = Read(words, i, rest)
<1>1. Len(words) \in Nat /\ i \in Nat
  BY LenProperties
<1>2. CASE i > Len(words) \/ words[i].kind = "operand"
  <2>1. Stop(i) \in Finding
    BY <1>1, StopTyped
  <2>2. \A any : Read(words, i, any) = Stop(i)
    BY <1>2, ReadCases
  <2>3. QED
    BY <2>1, <2>2
<1>3. CASE ~(i > Len(words)) /\ words[i].kind = "end"
  <2>1. i + 1 \in Nat
    BY <1>1
  <2>2. Stop(i + 1) \in Finding
    BY <2>1, StopTyped
  <2>3. \A any : Read(words, i, any) = Stop(i + 1)
    BY <1>3, ReadCases
  <2>4. QED
    BY <2>2, <2>3
<1>4. CASE ~(i > Len(words)) /\ words[i].kind \notin {"operand", "end"}
  <2> DEFINE j == i + WordRead(words, i).words
             w == WordRead(words, i).log
  <2>1. i \in 1..Len(words)
    BY <1>1, <1>4
  <2>2. w \in Seq(Reports) /\ WordRead(words, i).words \in {1, 2}
    BY <2>1, WordReadFacts
  <2>3. j \in (i + 1)..(Len(words) + 2)
    BY <1>1, <2>1, <2>2
  <2>4. rest[j] \in Finding
    BY <2>3
  <2>5. rest[j].log \in Seq(Reports) /\ rest[j].flags \subseteq DOMAIN Options /\ rest[j].optind \in Nat
    BY <2>4 DEF Finding
  <2>6. w \o rest[j].log \in Seq(Reports)
    <3> HIDE DEF w, j
    <3>1. QED
      BY <2>2, <2>5, ConcatProperties
  <2>7. Flagged(words, i) \subseteq DOMAIN Options
    BY DEF Flagged, Matches
  <2>8. Read(words, i, rest) = [log |-> w \o rest[j].log,
                                flags |-> Flagged(words, i) \cup rest[j].flags,
                                optind |-> rest[j].optind]
    BY <1>4, ReadCases
  <2>9. ASSUME NEW other, other[j] = rest[j]
        PROVE  Read(words, i, other) = Read(words, i, rest)
    <3>1. Read(words, i, other) = [log |-> w \o other[j].log,
                                   flags |-> Flagged(words, i) \cup other[j].flags,
                                   optind |-> other[j].optind]
      BY <1>4, ReadCases
    <3>2. QED
      BY <2>8, <2>9, <3>1
  <2>10. Read(words, i, rest) \in Finding
    <3> DEFINE whole == w \o rest[j].log
               fs == Flagged(words, i) \cup rest[j].flags
    <3>1. whole \in Seq(Reports) /\ fs \in SUBSET (DOMAIN Options)
      BY <2>5, <2>6, <2>7
    <3>2. Read(words, i, rest) = [log |-> whole, flags |-> fs, optind |-> rest[j].optind]
      BY <2>8
    <3> HIDE DEF whole, fs, w, j
    <3>3. QED
      BY <2>5, <3>1, <3>2 DEF Finding
  <2> HIDE DEF w, j
  <2>11. QED
    BY <2>3, <2>9, <2>10
<1>5. QED
  BY <1>2, <1>3, <1>4

\* There is a reading of every command line: of its end, and of each place before a reading.
LEMMA ReadingExists ==
  ASSUME NEW words \in Seq(Words)
  PROVE  \E g : g = [i \in 1..(Len(words) + 2) |-> Read(words, i, g)]
<1> DEFINE L == Len(words) + 2
           From(n) == (L + 1 - n)..L
           S == {n \in 0..L : \E g \in [From(n) -> Finding] :
                                \A i \in From(n) : g[i] = Read(words, i, g)}
<1>1. L \in Nat
  BY LenProperties
<1>2. ASSUME NEW n \in 0..L, \A m \in 0..(n - 1) : m \in S
      PROVE  n \in S
  <2>1. CASE n = 0
    <3>1. From(0) = {}
      BY <1>1
    <3>2. [i \in {} |-> Stop(0)] \in [From(0) -> Finding]
      BY <3>1
    <3>3. QED
      BY <1>1, <2>1, <3>1, <3>2
  <2>2. CASE n > 0
    <3> DEFINE a == L + 1 - n
    <3>1. n - 1 \in 0..(n - 1) /\ n \in Nat /\ a \in 1..L
      BY <1>1, <2>2
    <3>2. n - 1 \in S
      BY <1>2, <3>1
    <3>3. PICK g \in [From(n - 1) -> Finding] : \A i \in From(n - 1) : g[i] = Read(words, i, g)
      BY <3>2
    <3>4. From(n - 1) = (a + 1)..L /\ From(n) = a..L
      BY <1>1, <3>1
    <3> DEFINE h == [i \in a..L |-> IF i = a THEN Read(words, a, g) ELSE g[i]]
    <3> HIDE DEF S, From
    <3>5. \A i \in (a + 1)..L : h[i] = g[i] /\ g[i] \in Finding
      BY <1>1, <3>1, <3>3, <3>4
    <3>6. \A i \in a..L : /\ Read(words, i, g) \in Finding
                          /\ Read(words, i, h) = Read(words, i, g)
      <4> SUFFICES ASSUME NEW i \in a..L
                   PROVE  Read(words, i, g) \in Finding /\ Read(words, i, h) = Read(words, i, g)
        OBVIOUS
      <4>1. \A j \in (i + 1)..L : g[j] \in Finding /\ h[j] = g[j]
        <5>1. \A j \in (i + 1)..L : j \in (a + 1)..L
          BY <1>1, <3>1
        <5> HIDE DEF h, a
        <5>2. QED
          BY <3>5, <5>1
      <4>2. i \in 1..L
        BY <1>1, <3>1
      <4> HIDE DEF h, a
      <4>3. QED
        BY <4>1, <4>2, ReadFacts
    <3>7. \A i \in a..L : h[i] = Read(words, i, g)
      BY <1>1, <3>1, <3>3, <3>4
    <3>8. h \in [a..L -> Finding]
      BY <3>6, <3>7
    <3>9. \A i \in a..L : h[i] = Read(words, i, h)
      BY <3>6, <3>7
    <3> HIDE DEF h
    <3>10. QED
      BY <3>4, <3>8, <3>9 DEF S
  <2>3. QED
    BY <1>1, <2>1, <2>2
<1>3. L \in S
  <2> HIDE DEF S, L
  <2>1. \A k \in 0..L : k \in S
    BY <1>1, <1>2, InductionUpTo
  <2>2. QED
    BY <1>1, <2>1
<1>4. PICK g \in [From(L) -> Finding] : \A i \in From(L) : g[i] = Read(words, i, g)
  BY <1>3
<1>5. From(L) = 1..L
  BY <1>1
<1>6. g = [i \in 1..L |-> Read(words, i, g)]
  <2> HIDE DEF L
  <2>1. QED
    BY <1>4, <1>5
<1>7. QED
  BY <1>6

\* The recursion of Reading is an equation, and finds what it should.
LEMMA ReadingFacts ==
  ASSUME NEW words \in Seq(Words)
  PROVE  \A i \in 1..(Len(words) + 2) : /\ Reading(words)[i] = Read(words, i, Reading(words))
                                        /\ Reading(words)[i] \in Finding
<1> DEFINE L == Len(words) + 2
           R == Reading(words)
<1>1. L \in Nat
  BY LenProperties
<1>2. R = [i \in 1..L |-> Read(words, i, R)]
  <2>1. R = CHOOSE g : g = [i \in 1..L |-> Read(words, i, g)]
    BY DEF Reading
  <2>2. \E g : g = [i \in 1..L |-> Read(words, i, g)]
    BY ReadingExists
  <2> HIDE DEF R
  <2>3. QED
    BY <2>1, <2>2
<1> HIDE DEF R
<1>3. \A i \in 1..L : R[i] = Read(words, i, R)
  BY <1>2
<1> DEFINE S == {n \in 0..(L - 1) : R[L - n] \in Finding}
<1>4. ASSUME NEW n \in 0..(L - 1), \A m \in 0..(n - 1) : m \in S
      PROVE  n \in S
  <2>1. L - n \in 1..L
    BY <1>1
  <2>2. ASSUME NEW j \in (L - n + 1)..L PROVE R[j] \in Finding
    <3>1. L - j \in 0..(n - 1) /\ L - (L - j) = j
      BY <1>1
    <3>2. L - j \in S
      BY <1>4, <3>1
    <3>3. R[L - (L - j)] \in Finding
      BY <3>2
    <3>4. QED
      BY <3>1, <3>3
  <2>3. Read(words, L - n, R) \in Finding
    <3> DEFINE i == L - n
    <3>1. \A j \in (i + 1)..(Len(words) + 2) : R[j] \in Finding
      BY <2>2
    <3>2. i \in 1..(Len(words) + 2)
      BY <2>1
    <3> HIDE DEF i
    <3>3. Read(words, i, R) \in Finding
      BY <3>1, <3>2, ReadFacts
    <3>4. QED
      BY <3>3 DEF i
  <2>4. QED
    BY <1>3, <2>1, <2>3
<1>5. \A n \in 0..(L - 1) : n \in S
  <2>1. L - 1 \in Nat
    BY LenProperties
  <2> DEFINE N == L - 1
  <2> HIDE DEF S, N
  <2>2. \A n \in 0..N : n \in S
    BY <1>4, <2>1, InductionUpTo DEF N
  <2>3. QED
    BY <2>2 DEF N
<1>6. ASSUME NEW i \in 1..L PROVE R[i] \in Finding
  <2>1. L - i \in 0..(L - 1) /\ L - (L - i) = i
    BY <1>1
  <2>2. L - i \in S
    BY <1>5, <2>1
  <2>3. QED
    BY <2>1, <2>2
<1>7. QED
  BY <1>3, <1>6 DEF R


\* What is left of a group from its c-th letter on, and of what comes after it.
Left(words, i, c) ==
  LET g == Group(words, i)
      after == Reading(words)[i + g.words]
  IN  [log |-> SubSeq(g.log, c, Len(g.log)) \o after.log, flags |-> after.flags,
       optind |-> after.optind]

LEMMA AfterTyped ==
  ASSUME NEW words \in Seq(Words), NEW i \in 1..Len(words), NEW n \in {1, 2}
  PROVE  /\ Reading(words)[i + n] \in Finding
         /\ Reading(words)[i + n].log \in Seq(Reports)
<1>1. i + n \in 1..(Len(words) + 2)
  BY LenProperties
<1>2. Reading(words)[i + n] \in Finding
  BY <1>1, ReadingFacts
<1>3. QED
  BY <1>2 DEF Finding

\* A group is read from its first letter on.
LEMMA LeftOfAll ==
  ASSUME NEW words \in Seq(Words), NEW i \in 1..Len(words), words[i].kind = "group"
  PROVE  Reading(words)[i] = Left(words, i, 1)
<1> DEFINE g == Group(words, i)
           after == Reading(words)[i + g.words]
<1>1. g.log \in Seq(Reports)
  BY GroupFacts DEF GroupReports
<1>2. SubSeq(g.log, 1, Len(g.log)) = g.log
  <2> HIDE DEF g
  <2>1. QED
    BY <1>1, SubSeqFull
<1>3. Flagged(words, i) = {}
  BY DEF Flagged
<1>4. i \in 1..(Len(words) + 2) /\ ~(i > Len(words))
  BY LenProperties
<1>5. Reading(words)[i] = [log |-> g.log \o after.log, flags |-> Flagged(words, i) \cup after.flags,
                           optind |-> after.optind]
  <2>1. Reading(words)[i] = Read(words, i, Reading(words))
    BY <1>4, ReadingFacts
  <2>2. WordRead(words, i) = g
    BY DEF WordRead
  <2>3. Read(words, i, Reading(words)) =
          [log |-> WordRead(words, i).log \o Reading(words)[i + WordRead(words, i).words].log,
           flags |-> Flagged(words, i)
                       \cup Reading(words)[i + WordRead(words, i).words].flags,
           optind |-> Reading(words)[i + WordRead(words, i).words].optind]
    BY <1>4, ReadCases
  <2>4. QED
    BY <2>1, <2>2, <2>3
<1>6. Left(words, i, 1) = [log |-> SubSeq(g.log, 1, Len(g.log)) \o after.log, flags |-> after.flags,
                           optind |-> after.optind]
  BY DEF Left
<1>7. {} \cup after.flags = after.flags
  OBVIOUS
<1> HIDE DEF g, after
<1>8. QED
  BY <1>2, <1>3, <1>5, <1>6, <1>7

\* The first of what is left is the report of the c-th letter.
LEMMA LeftFirst ==
  ASSUME NEW words \in Seq(Words), NEW i \in 1..Len(words), words[i].kind = "group",
         NEW g, g = Group(words, i), NEW c \in 1..Len(g.log)
  PROVE  /\ c < Len(g.log) => Left(words, i, c).log = <<g.log[c]>> \o Left(words, i, c + 1).log
         /\ c = Len(g.log) =>
              Left(words, i, c).log = <<g.log[c]>> \o Reading(words)[i + g.words].log
<1> DEFINE s == g.log
           after == Reading(words)[i + g.words]
           tail == SubSeq(s, c + 1, Len(s))
<1>1. s \in Seq(Reports) /\ g.words \in {1, 2}
  BY GroupFacts DEF GroupReports
<1>2. Len(s) \in Nat /\ s[c] \in Reports
  <2> HIDE DEF s
  <2>1. QED
    BY <1>1, LenProperties, ElementOfSeq DEF s
<1>3. after.log \in Seq(Reports)
  BY <1>1, AfterTyped
<1>4. SubSeq(s, c, Len(s)) = <<s[c]>> \o tail
  <2>1. c \in 1..Len(s) /\ Len(s) \in c..Len(s)
    BY <1>2
  <2> HIDE DEF s
  <2>2. QED
    BY <1>1, <2>1, SubSeqRecursiveFirst
<1>5. tail \in Seq(Reports)
  <2>1. c + 1 \in Int /\ Len(s) \in Int /\ \A j \in (c + 1)..Len(s) : j \in 1..Len(s)
    BY <1>2
  <2>2. \A j \in (c + 1)..Len(s) : s[j] \in Reports
    <3> HIDE DEF s
    <3>1. QED
      BY <1>1, <2>1, ElementOfSeq
  <2> HIDE DEF s
  <2>3. QED
    BY <2>1, <2>2, SubSeqProperties
<1>6. <<s[c]>> \in Seq(Reports)
  BY <1>2
<1>7. (<<s[c]>> \o tail) \o after.log = <<s[c]>> \o (tail \o after.log)
  <2> DEFINE first == <<s[c]>>
             rest == after.log
  <2>1. first \in Seq(Reports) /\ rest \in Seq(Reports)
    BY <1>3, <1>6
  <2> HIDE DEF tail, first, rest
  <2>2. (first \o tail) \o rest = first \o (tail \o rest)
    BY <1>5, <2>1, ConcatAssociative, SMTT(60)
  <2>3. QED
    BY <2>2 DEF first, rest
<1>8. Left(words, i, c).log = SubSeq(s, c, Len(s)) \o after.log
  BY DEF Left
<1>9. Left(words, i, c + 1).log = tail \o after.log
  BY DEF Left
<1>10. c = Len(s) => tail \o after.log = after.log
  <2> SUFFICES ASSUME c = Len(s) PROVE tail \o after.log = after.log
    OBVIOUS
  <2>1. tail = <<>>
    <3>1. c + 1 \in Int /\ Len(s) \in Int /\ Len(s) < c + 1
      BY <1>2
    <3> HIDE DEF s
    <3>2. QED
      BY <3>1, SubSeqEmpty
  <2> HIDE DEF tail, after
  <2>2. QED
    BY <1>3, <2>1, ConcatEmptySeq
<1> HIDE DEF tail, after
<1>11. QED
  BY <1>4, <1>7, <1>8, <1>9, <1>10 DEF after

\* A letter without an argument, where the letters before it have none either.
LEMMA PlainLetter ==
  ASSUME NEW words \in Seq(Words), NEW i \in 1..Len(words), words[i].kind = "group",
         NEW text, text = words[i].text, NEW c \in 1..Len(text),
         \A j \in 1..c : Takes(text[j]) = "no"
  PROVE  /\ c < Len(text) =>
              /\ Left(words, i, c).log = <<Letter(text[c])>> \o Left(words, i, c + 1).log
              /\ Left(words, i, c).flags = Left(words, i, c + 1).flags
              /\ Left(words, i, c).optind = Left(words, i, c + 1).optind
         /\ c = Len(text) =>
              /\ Left(words, i, c).log = <<Letter(text[c])>> \o Reading(words)[i + 1].log
              /\ Left(words, i, c).flags = Reading(words)[i + 1].flags
              /\ Left(words, i, c).optind = Reading(words)[i + 1].optind
<1>0. PICK g, k : g = Group(words, i) /\ k = ArgumentAt(text)
  OBVIOUS
<1>1. text \in Seq(Letters) /\ Len(text) \in Nat
  BY WordsFacts
<1>2. k \in 1..(Len(text) + 1) /\ (k <= Len(text) => Takes(text[k]) # "no")
  BY <1>0, <1>1, ArgumentAtFacts
<1>3. c < k
  <2>1. SUFFICES ASSUME k <= c PROVE FALSE
    BY <1>1, <1>2
  <2>2. k \in 1..c /\ k <= Len(text)
    BY <1>1, <1>2, <2>1
  <2>3. QED
    BY <1>2, <2>2
<1>5. /\ Len(g.log) = IF k > Len(text) THEN Len(text) ELSE k
      /\ g.log[c] = Letter(text[c])
      /\ k > Len(text) => g.words = 1
  <2>1. c \in 1..(k - 1)
    BY <1>1, <1>2, <1>3
  <2>2. GroupReports(words, i, text, k, g)
    BY <1>0, GroupFacts
  <2>3. QED
    BY <2>1, <2>2 DEF GroupReports
<1>6. /\ c \in 1..Len(g.log)
      /\ c < Len(text) => c < Len(g.log)
      /\ c = Len(text) => c = Len(g.log) /\ g.words = 1
  BY <1>1, <1>2, <1>3, <1>5
<1>7. CASE c < Len(text)
  <2>1. Left(words, i, c).log = <<g.log[c]>> \o Left(words, i, c + 1).log
    BY <1>0, <1>6, <1>7, LeftFirst
  <2>2. Left(words, i, c).flags = Left(words, i, c + 1).flags
    BY DEF Left
  <2>3. Left(words, i, c).optind = Left(words, i, c + 1).optind
    BY DEF Left
  <2>4. QED
    BY <1>1, <1>5, <1>7, <2>1, <2>2, <2>3
<1>8. CASE c = Len(text)
  <2>1. c \in 1..Len(g.log) /\ c = Len(g.log) /\ g.words = 1
    BY <1>1, <1>2, <1>3, <1>5, <1>8
  <2>2. Left(words, i, c).log = <<g.log[c]>> \o Reading(words)[i + g.words].log
    BY <1>0, <2>1, LeftFirst
  <2>3. /\ Left(words, i, c).flags = Reading(words)[i + 1].flags
        /\ Left(words, i, c).optind = Reading(words)[i + 1].optind
    BY <1>0, <2>1 DEF Left
  <2>4. ~(c < Len(text))
    BY <1>1, <1>8
  <2>5. g.log[c] = Letter(text[c])
    BY <1>5
  <2>6. Left(words, i, c).log = <<Letter(text[c])>> \o Reading(words)[i + 1].log
    BY <2>1, <2>2, <2>5
  <2>7. QED
    BY <2>3, <2>4, <2>6, Zenon
<1>9. QED
  BY <1>1, <1>7, <1>8

\* What the c-th letter of a group reports when it has an argument, and the words it takes.
ReportWith(words, i, text, c) ==
  LET o == text[c] IN
  IF c < Len(text) THEN Result(o, <<i, c + 1>>, o)
  ELSE IF Takes(o) = "optional" THEN Result(o, Nothing, o)
  ELSE NextWord(words, i, o, o)

WordsWith(text, c) == IF c = Len(text) /\ Takes(text[c]) = "required" THEN 2 ELSE 1

\* The first letter of a group that has an argument is the last that is read.
LEMMA LetterWithArgument ==
  ASSUME NEW words \in Seq(Words), NEW i \in 1..Len(words), words[i].kind = "group",
         NEW text, text = words[i].text, NEW c \in 1..Len(text),
         \A j \in 1..(c - 1) : Takes(text[j]) = "no", Takes(text[c]) # "no"
  PROVE  LET r == ReportWith(words, i, text, c)
             after == Reading(words)[i + WordsWith(text, c)]
         IN  /\ Left(words, i, c).log = <<r>> \o after.log
             /\ Left(words, i, c).flags = after.flags
             /\ Left(words, i, c).optind = after.optind
<1> DEFINE g == Group(words, i)
           k == ArgumentAt(text)
<1>1. text \in Seq(Letters) /\ Len(text) \in Nat
  BY WordsFacts
<1>2. /\ k \in 1..(Len(text) + 1) /\ (k <= Len(text) => Takes(text[k]) # "no")
      /\ \A j \in 1..(k - 1) : Takes(text[j]) = "no"
  BY <1>1, ArgumentAtFacts
<1>3. k = c
  <2> HIDE DEF k
  <2>1. ~(k < c)
    <3> SUFFICES ASSUME k < c PROVE FALSE
      OBVIOUS
    <3>1. k \in 1..(c - 1) /\ k <= Len(text)
      BY <1>1, <1>2
    <3>2. QED
      BY <1>2, <3>1
  <2>2. ~(c < k)
    <3> SUFFICES ASSUME c < k PROVE FALSE
      OBVIOUS
    <3>1. c \in 1..(k - 1)
      BY <1>1, <1>2
    <3>2. QED
      BY <1>2, <3>1
  <2>3. QED
    BY <1>1, <1>2, <2>1, <2>2
<1>4. g = Group(words, i) /\ c = ArgumentAt(text)
  BY <1>3
<1> HIDE DEF g, k
<1>5. /\ Len(g.log) = IF c > Len(text) THEN Len(text) ELSE c
      /\ c <= Len(text) => LET e == text[c] IN
           /\ g.words = IF c = Len(text) /\ Takes(e) = "required" THEN 2 ELSE 1
           /\ g.log[c] = IF c < Len(text) THEN Result(e, <<i, c + 1>>, e)
                         ELSE IF Takes(e) = "optional" THEN Result(e, Nothing, e)
                         ELSE NextWord(words, i, e, e)
  <2>1. GroupReports(words, i, text, c, g)
    BY <1>4, GroupFacts
  <2>2. QED
    BY <2>1 DEF GroupReports
<1>6. c <= Len(text) /\ ~(c > Len(text))
  BY <1>1
<1>7. /\ Len(g.log) = c /\ g.words = WordsWith(text, c)
      /\ g.log[c] = ReportWith(words, i, text, c)
  BY <1>5, <1>6 DEF WordsWith, ReportWith
<1>8. c \in 1..Len(g.log) /\ c = Len(g.log)
  BY <1>7
<1>9. Left(words, i, c).log = <<g.log[c]>> \o Reading(words)[i + g.words].log
  BY <1>4, <1>8, LeftFirst
<1>10. /\ Left(words, i, c).flags = Reading(words)[i + g.words].flags
       /\ Left(words, i, c).optind = Reading(words)[i + g.words].optind
  BY <1>4 DEF Left
<1>11. QED
  BY <1>7, <1>9, <1>10


\* What the calls still have to report at a place in argv.
AheadOf(words, i, c) == IF c = 0 THEN Reading(words)[i] ELSE Left(words, i, c)

Ahead == AheadOf(argv, optind, optcursor)

\* What was reported, and what is still to be, is what the command line means; the letters
\* of the group that were passed have no argument.
Scanned ==
  /\ result = "done" => /\ log = Meaning.log
                        /\ flags = Meaning.flags
                        /\ optind = Meaning.optind
  /\ result # "done" =>
       /\ log \o Ahead.log = Meaning.log
       /\ flags \cup Ahead.flags = Meaning.flags
       /\ Ahead.optind = Meaning.optind
       /\ optcursor # 0 => \A k \in 1..(optcursor - 1) : Takes(Word.text[k]) = "no"

LEMMA PlaceFacts ==
  ASSUME IInv
  PROVE  /\ argv \in Seq(Words) /\ Len(argv) \in Nat /\ argc = Len(argv) + 1
         /\ optind \in 1..(Len(argv) + 2)
         /\ optind < argc => optind \in 1..Len(argv) /\ Word = argv[optind]
         /\ ~(optind < argc) => optcursor = 0 /\ optind > Len(argv)
BY LenProperties DEF IInv, TypeOK, PastArgc, argc, Word

LEMMA AheadInGroup ==
  ASSUME IInv, optind < argc, Word.kind = "group"
  PROVE  Ahead = Left(argv, optind, Cursor)
<1>1. Reading(argv)[optind] = Left(argv, optind, 1)
  BY PlaceFacts, LeftOfAll
<1>2. QED
  BY <1>1 DEF Ahead, AheadOf, Cursor

LEMMA AheadElsewhere ==
  ASSUME IInv, ~(optind < argc /\ Word.kind = "group")
  PROVE  optcursor = 0 /\ Ahead = Read(argv, optind, Reading(argv))
<1>1. optcursor = 0
  BY DEF IInv, TypeOK
<1>2. Reading(argv)[optind] = Read(argv, optind, Reading(argv))
  BY PlaceFacts, ReadingFacts
<1>3. QED
  BY <1>1, <1>2 DEF Ahead, AheadOf

LEMMA AheadTyped ==
  ASSUME NEW words \in Seq(Words), NEW i \in 1..(Len(words) + 2), NEW c \in Nat,
         c # 0 => i \in 1..Len(words) /\ words[i].kind = "group"
  PROVE  AheadOf(words, i, c).log \in Seq(Reports)
<1>1. CASE c = 0
  <2>1. Reading(words)[i] \in Finding
    BY ReadingFacts
  <2>2. QED
    BY <1>1, <2>1 DEF AheadOf, Finding
<1>2. CASE c # 0
  <2>1. i \in 1..Len(words) /\ words[i].kind = "group"
    BY <1>2
  <2>2. PICK g : g = Group(words, i)
    OBVIOUS
  <2>3. g.log \in Seq(Reports) /\ g.words \in {1, 2}
    BY <2>1, <2>2, GroupFacts DEF GroupReports
  <2>4. Reading(words)[i + g.words].log \in Seq(Reports)
    BY <2>1, <2>3, AfterTyped
  <2>5. SubSeq(g.log, c, Len(g.log)) \in Seq(Reports)
    <3>1. Len(g.log) \in Nat
      BY <2>3, LenProperties
    <3>2. \A j \in c..Len(g.log) : j \in 1..Len(g.log)
      BY <1>2, <3>1
    <3>3. \A j \in c..Len(g.log) : g.log[j] \in Reports
      BY <2>3, <3>2, ElementOfSeq
    <3>4. QED
      BY <3>1, <3>3, SubSeqProperties
  <2>6. AheadOf(words, i, c).log =
          SubSeq(g.log, c, Len(g.log)) \o Reading(words)[i + g.words].log
    BY <1>2, <2>2 DEF AheadOf, Left
  <2>7. QED
    BY <2>4, <2>5, <2>6, ConcatProperties
<1>3. QED
  BY <1>1, <1>2

\* A call that reports the first of what is ahead, and leaves the rest.
Goes(r) ==
  /\ log' = Append(log, r) /\ argv' = argv /\ result' # "done"
  /\ Ahead.log = <<r>> \o (Ahead').log
  /\ flags \cup Ahead.flags = flags' \cup (Ahead').flags
  /\ Ahead.optind = (Ahead').optind
  /\ optcursor' # 0 => \A k \in 1..(optcursor' - 1) : Takes((Word').text[k]) = "no"

LEMMA GoesScanned ==
  ASSUME IInv, Scanned, result # "done", IInv', NEW r \in Reports, Goes(r)
  PROVE  Scanned'
<1>1. log \in Seq(Reports) /\ <<r>> \in Seq(Reports)
  BY DEF IInv
<1>2. (Ahead').log \in Seq(Reports)
  <2>1. /\ argv' \in Seq(Words) /\ optind' \in 1..(Len(argv') + 2) /\ optcursor' \in Nat
        /\ optcursor' # 0 => /\ optind' \in 1..Len(argv') /\ argv'[optind'].kind = "group"
    BY LenProperties DEF IInv, TypeOK, PastArgc, argc, Word
  <2>2. AheadOf(argv', optind', optcursor').log \in Seq(Reports)
    BY <2>1, AheadTyped
  <2>3. Ahead' = AheadOf(argv', optind', optcursor')
    BY DEF Ahead
  <2>4. QED
    BY <2>2, <2>3
<1>3. log' \o (Ahead').log = log \o Ahead.log
  <2>1. log' = log \o <<r>>
    BY <1>1, AppendIsConcat DEF Goes
  <2> DEFINE rest == (Ahead').log
             first == <<r>>
  <2>2. rest \in Seq(Reports) /\ first \in Seq(Reports)
    BY <1>1, <1>2
  <2>3. Ahead.log = first \o rest /\ log' = log \o first
    BY <2>1 DEF Goes
  <2> HIDE DEF rest, first
  <2>4. (log \o first) \o rest = log \o (first \o rest)
    BY <1>1, <2>2, ConcatAssociative
  <2>5. QED
    BY <2>3, <2>4 DEF rest
<1>4. Meaning' = Meaning
  BY DEF Goes, Meaning
<1>5. QED
  BY <1>3, <1>4 DEF Goes, Scanned

\* The call that returns -1.
LEMMA EndsScanned ==
  ASSUME IInv, Scanned, result # "done", Ahead = Stop(optind'), flags' = flags,
         Return("done", Nothing, "")
  PROVE  Scanned'
<1> DEFINE r == Result("done", Nothing, "")
<1>1. r \in Reports
  BY NothingTyped, ResultTyped
<1>2. log' = Append(log, r) /\ argv' = argv /\ result' = "done"
  BY DEF Return, Result
<1>3. Ahead.log = <<r>> /\ Ahead.flags = {} /\ Ahead.optind = optind'
  BY DEF Stop
<1> HIDE DEF r
<1>4. Append(log, r) = log \o <<r>>
  BY <1>1, AppendIsConcat DEF IInv
<1>5. Meaning' = Meaning
  BY <1>2 DEF Meaning
<1>6. QED
  BY <1>2, <1>3, <1>4, <1>5 DEF Scanned


LEMMA ExhaustedScanned ==
  ASSUME IInv, Scanned, result # "done", Exhausted
  PROVE  Scanned'
<1>1. optind > Len(argv) /\ ~(optind < argc) /\ optind' = optind /\ flags' = flags
  <2>1. optind >= argc /\ optind' = optind /\ flags' = flags
    BY DEF Exhausted
  <2>2. ~(optind < argc)
    BY <2>1, PlaceFacts
  <2>3. QED
    BY <2>1, <2>2, PlaceFacts
<1>2. Ahead = Stop(optind')
  BY <1>1, AheadElsewhere, ReadCases
<1>3. QED
  BY <1>1, <1>2, EndsScanned DEF Exhausted

LEMMA NoMoreScanned ==
  ASSUME IInv, Scanned, result # "done", NoMoreOptchars
  PROVE  Scanned'
<1>1. /\ ~(optind > Len(argv)) /\ Word = argv[optind] /\ Word.kind \in {"operand", "end"}
      /\ flags' = flags /\ optind' = IF Word.kind = "end" THEN optind + 1 ELSE optind
  <2>1. /\ optind < argc /\ Word.kind \in {"operand", "end"} /\ flags' = flags
        /\ optind' = IF Word.kind = "end" THEN optind + 1 ELSE optind
    BY DEF NoMoreOptchars
  <2>2. optind \in 1..Len(argv) /\ Word = argv[optind] /\ Len(argv) \in Nat
    BY <2>1, PlaceFacts
  <2>3. ~(optind > Len(argv))
    BY <2>2
  <2>4. QED
    BY <2>1, <2>2, <2>3
<1>2. Ahead = Read(argv, optind, Reading(argv))
  BY <1>1, AheadElsewhere
<1>3. Ahead = Stop(optind')
  BY <1>1, <1>2, ReadCases
<1>4. QED
  BY <1>1, <1>3, EndsScanned DEF NoMoreOptchars

\* The letters without an argument, known or not.
LEMMA PlainLetterScanned ==
  ASSUME IInv, Scanned, result # "done", IInv', optind < argc, Word.kind = "group",
         Takes(Optchar) = "no", StepOver, flags' = flags, NEW res \in Letters \cup {"?"},
         res = Letter(Optchar).result, Return(res, Nothing, Optchar)
  PROVE  Scanned'
<1>1. /\ argv \in Seq(Words) /\ optind \in 1..Len(argv) /\ Word = argv[optind]
      /\ argv[optind].kind = "group"
  BY PlaceFacts
<1>2. PICK text : text = argv[optind].text
  OBVIOUS
<1>3. /\ Cursor \in 1..Len(text) /\ Optchar = text[Cursor] /\ Optchar \in Letters
      /\ AtEnd <=> Cursor = Len(text)
      /\ Len(text) \in Nat
  BY <1>1, <1>2, CursorFacts, WordFacts DEF IInv, AtEnd, Optchar
<1>4. \A j \in 1..Cursor : Takes(text[j]) = "no"
  <2>1. \A j \in 1..(Cursor - 1) : Takes(text[j]) = "no"
    <3>1. CASE optcursor = 0
      BY <3>1 DEF Cursor
    <3>2. CASE optcursor # 0
      BY <1>1, <1>2, <3>2 DEF Cursor, Scanned
    <3>3. QED
      BY <3>1, <3>2
  <2>2. QED
    BY <1>3, <2>1
<1>5. PICK r : r = Letter(Optchar)
  OBVIOUS
<1>6. r \in Reports /\ r = [result |-> res, optarg |-> Nothing, optopt |-> Optchar]
  BY <1>3, <1>5, LetterTyped DEF Letter, Result
<1>7. log' = Append(log, r) /\ argv' = argv /\ result' = res /\ res # "done"
  BY <1>6, LettersAssumption DEF Return
<1>8. Ahead = Left(argv, optind, Cursor)
  BY AheadInGroup
<1>9. CASE AtEnd
  <2>1. optcursor' = 0 /\ optind' = optind + 1
    BY <1>9 DEF StepOver
  <2>2. Ahead' = Reading(argv)[optind + 1]
    BY <1>7, <2>1 DEF Ahead, AheadOf
  <2>3. /\ Ahead.log = <<r>> \o (Ahead').log
        /\ Ahead.flags = (Ahead').flags /\ Ahead.optind = (Ahead').optind
    BY <1>1, <1>2, <1>3, <1>4, <1>5, <1>8, <1>9, <2>2, PlainLetter, ZenonT(60)
  <2>4. Goes(r)
    BY <1>7, <2>1, <2>3 DEF Goes
  <2>5. QED
    BY <1>6, <2>4, GoesScanned
<1>10. CASE ~AtEnd
  <2>1. optcursor' = Cursor + 1 /\ optind' = optind /\ Cursor < Len(text)
    BY <1>3, <1>10 DEF StepOver
  <2>2. optcursor' # 0 /\ optcursor' - 1 = Cursor
    BY <1>3, <2>1
  <2>3. Ahead' = Left(argv, optind, Cursor + 1)
    BY <1>7, <2>1, <2>2 DEF Ahead, AheadOf
  <2>4. /\ Ahead.log = <<r>> \o (Ahead').log
        /\ Ahead.flags = (Ahead').flags /\ Ahead.optind = (Ahead').optind
    BY <1>1, <1>2, <1>3, <1>4, <1>5, <1>8, <2>1, <2>3, PlainLetter, ZenonT(60)
  <2>5. Word' = Word /\ (Word').text = text
    BY <1>1, <1>2, <1>7, <2>1 DEF Word
  <2>6. Goes(r)
    BY <1>4, <1>7, <2>2, <2>4, <2>5 DEF Goes
  <2>7. QED
    BY <1>6, <2>6, GoesScanned
<1>11. QED
  BY <1>9, <1>10

\* The letter of a group that has an argument.
LEMMA LetterWithArgumentScanned ==
  ASSUME IInv, Scanned, result # "done", IInv', optind < argc, Word.kind = "group",
         Takes(Optchar) # "no", flags' = flags, optcursor' = 0,
         optind' = optind + WordsWith(Word.text, Cursor),
         NEW r \in Reports, r = ReportWith(argv, optind, Word.text, Cursor),
         log' = Append(log, r), argv' = argv, result' # "done"
  PROVE  Scanned'
<1>1. /\ argv \in Seq(Words) /\ optind \in 1..Len(argv) /\ Word = argv[optind]
      /\ argv[optind].kind = "group"
  BY PlaceFacts
<1>2. PICK text : text = argv[optind].text
  OBVIOUS
<1>3. Cursor \in 1..Len(text) /\ Optchar = text[Cursor]
  BY <1>1, <1>2, CursorFacts DEF IInv, Optchar
<1>4. \A j \in 1..(Cursor - 1) : Takes(text[j]) = "no"
  <2>1. CASE optcursor = 0
    BY <2>1 DEF Cursor
  <2>2. CASE optcursor # 0
    BY <1>1, <1>2, <2>2 DEF Cursor, Scanned
  <2>3. QED
    BY <2>1, <2>2
<1>5. PICK n : n = WordsWith(text, Cursor)
  OBVIOUS
<1>6. r = ReportWith(argv, optind, text, Cursor)
  BY <1>1, <1>2
<1>7. Ahead = Left(argv, optind, Cursor)
  BY AheadInGroup
<1>8. Ahead' = Reading(argv)[optind + n]
  BY <1>1, <1>2, <1>5 DEF Ahead, AheadOf
<1>9. /\ Ahead.log = <<r>> \o (Ahead').log
      /\ Ahead.flags = (Ahead').flags /\ Ahead.optind = (Ahead').optind
  <2>1. Takes(text[Cursor]) # "no"
    BY <1>3
  <2>2. LET after == Reading(argv)[optind + WordsWith(text, Cursor)]
        IN  /\ Left(argv, optind, Cursor).log =
                  <<ReportWith(argv, optind, text, Cursor)>> \o after.log
            /\ Left(argv, optind, Cursor).flags = after.flags
            /\ Left(argv, optind, Cursor).optind = after.optind
    BY <1>1, <1>2, <1>3, <1>4, <2>1, LetterWithArgument, ZenonT(60)
  <2>3. QED
    BY <1>5, <1>6, <1>7, <1>8, <2>2
<1>10. Goes(r)
  BY <1>9 DEF Goes
<1>11. QED
  BY <1>10, GoesScanned


LEMMA ReturnIsResult ==
  ASSUME NEW res, NEW arg, NEW opt, Return(res, arg, opt)
  PROVE  log' = Append(log, Result(res, arg, opt)) /\ argv' = argv /\ result' = res
BY DEF Return, Result

LEMMA ShortScanned ==
  ASSUME IInv, Scanned, result # "done", IInv', ShortOption
  PROVE  Scanned'
<1>1. /\ optind < argc /\ Word.kind = "group" /\ flags' = flags
      /\ optind \in 1..Len(argv) /\ Len(argv) \in Nat /\ argc = Len(argv) + 1
  BY PlaceFacts DEF ShortOption
<1>2. PICK c : c = Optchar
  OBVIOUS
<1>3. PICK text : text = Word.text
  OBVIOUS
<1>4. /\ c \in Letters /\ Cursor \in 1..Len(text) /\ c = text[Cursor] /\ Len(text) \in Nat
      /\ AtEnd <=> Cursor = Len(text)
  BY <1>1, <1>2, <1>3, CursorFacts, WordFacts DEF IInv, AtEnd, Optchar
<1>5. c # "done" /\ ":" # "done"
  BY <1>4, LettersAssumption
<1>6. CASE Named(c) = {}
  <2>1. StepOver /\ Return("?", Nothing, c)
    BY <1>2, <1>6 DEF ShortOption
  <2>2. Takes(c) = "no" /\ Letter(c).result = "?"
    BY <1>6 DEF Takes, Letter, Result
  <2>3. QED
    BY <1>1, <1>2, <2>1, <2>2, PlainLetterScanned
<1>7. CASE Named(c) # {}
  <2>1. PICK o : o = Options[First(Named(c))]
    OBVIOUS
  <2>2. Takes(c) = o.has_arg /\ Letter(c).result = c
    BY <1>7, <2>1 DEF Takes, Letter, Result
  <2>3. \/ /\ o.has_arg = "no"
           /\ StepOver
           /\ Return(c, Nothing, c)
        \/ /\ o.has_arg # "no" /\ (~AtEnd \/ o.has_arg = "optional")
           /\ optind' = optind + 1 /\ optcursor' = 0
           /\ Return(c, IF AtEnd THEN Nothing ELSE <<optind, Cursor + 1>>, c)
        \/ /\ o.has_arg = "required" /\ AtEnd
           /\ optind' = optind + 2 /\ optcursor' = 0
           /\ IF optind + 1 < argc THEN Return(c, <<optind + 1, 0>>, c)
                                   ELSE Return(":", Nothing, c)
    BY <1>2, <1>7, <2>1 DEF ShortOption
  <2>4. CASE o.has_arg = "no" /\ StepOver /\ Return(c, Nothing, c)
    BY <1>1, <1>2, <1>4, <2>2, <2>4, PlainLetterScanned
  <2>5. ASSUME o.has_arg # "no", optcursor' = 0, optind' = optind + WordsWith(text, Cursor),
               NEW res, res # "done", NEW arg, NEW opt, Return(res, arg, opt),
               Result(res, arg, opt) = ReportWith(argv, optind, text, Cursor)
        PROVE  Scanned'
    <3>1. PICK r : r = ReportWith(argv, optind, text, Cursor)
      OBVIOUS
    <3>2. r \in Reports
      <4>1. c \in Letters /\ optind \in Int /\ Cursor + 1 \in Int
        BY <1>1, <1>4
      <4>2. PICK p : p = <<optind, Cursor + 1>>
        OBVIOUS
      <4>3. p \in Int \X Int
        BY <4>1, <4>2
      <4>4. /\ Result(c, p, c) \in Reports /\ Result(c, Nothing, c) \in Reports
            /\ NextWord(argv, optind, c, c) \in Reports
        BY <4>1, <4>3, NothingTyped, ResultTyped, NextWordTyped
      <4>5. QED
        BY <1>4, <3>1, <4>2, <4>4 DEF ReportWith
    <3>3. log' = Append(log, r) /\ argv' = argv /\ result' # "done"
      BY <2>5, <3>1, ReturnIsResult
    <3>4. Takes(Optchar) # "no"
      BY <1>2, <2>2, <2>5
    <3>5. QED
      BY <1>1, <1>3, <2>5, <3>1, <3>2, <3>3, <3>4, LetterWithArgumentScanned
  <2>6. CASE /\ o.has_arg # "no" /\ ~AtEnd
             /\ optind' = optind + 1 /\ optcursor' = 0
             /\ Return(c, IF AtEnd THEN Nothing ELSE <<optind, Cursor + 1>>, c)
    <3>1. Return(c, <<optind, Cursor + 1>>, c)
      BY <2>6
    <3>2. Cursor < Len(text) /\ Cursor # Len(text)
      BY <1>4, <2>6
    <3>3. WordsWith(text, Cursor) = 1
      BY <3>2 DEF WordsWith
    <3>4. ReportWith(argv, optind, text, Cursor) = Result(c, <<optind, Cursor + 1>>, c)
      BY <1>4, <3>2 DEF ReportWith
    <3>5. QED
      BY <1>5, <2>5, <2>6, <3>1, <3>3, <3>4
  <2>7. CASE /\ o.has_arg = "optional" /\ AtEnd
             /\ optind' = optind + 1 /\ optcursor' = 0
             /\ Return(c, IF AtEnd THEN Nothing ELSE <<optind, Cursor + 1>>, c)
    <3>1. Return(c, Nothing, c)
      BY <2>7
    <3>2. ~(Cursor < Len(text)) /\ Cursor = Len(text) /\ Takes(text[Cursor]) = "optional"
      BY <1>4, <2>2, <2>7
    <3>3. WordsWith(text, Cursor) = 1
      BY <3>2 DEF WordsWith
    <3>4. ReportWith(argv, optind, text, Cursor) = Result(c, Nothing, c)
      BY <1>4, <3>2 DEF ReportWith
    <3>5. QED
      BY <1>5, <2>5, <2>7, <3>1, <3>3, <3>4
  <2>8. CASE /\ o.has_arg = "required" /\ AtEnd
             /\ optind' = optind + 2 /\ optcursor' = 0
             /\ IF optind + 1 < argc THEN Return(c, <<optind + 1, 0>>, c)
                                     ELSE Return(":", Nothing, c)
    <3>1. ~(Cursor < Len(text)) /\ Cursor = Len(text) /\ Takes(text[Cursor]) = "required"
      BY <1>4, <2>2, <2>8
    <3>2. WordsWith(text, Cursor) = 2
      BY <3>1 DEF WordsWith
    <3>3. ReportWith(argv, optind, text, Cursor) = NextWord(argv, optind, c, c)
      BY <1>4, <3>1 DEF ReportWith
    <3>4. optind < Len(argv) <=> optind + 1 < argc
      BY <1>1
    <3>5. CASE optind + 1 < argc
      <4>1. Return(c, <<optind + 1, 0>>, c)
        BY <2>8, <3>5
      <4>2. NextWord(argv, optind, c, c) = Result(c, <<optind + 1, 0>>, c)
        BY <3>4, <3>5 DEF NextWord
      <4>3. QED
        BY <1>5, <2>5, <2>8, <3>2, <3>3, <4>1, <4>2
    <3>6. CASE ~(optind + 1 < argc)
      <4>1. Return(":", Nothing, c)
        BY <2>8, <3>6
      <4>2. NextWord(argv, optind, c, c) = Result(":", Nothing, c)
        BY <3>4, <3>6 DEF NextWord
      <4>3. QED
        BY <1>5, <2>5, <2>8, <3>2, <3>3, <4>1, <4>2
    <3>7. QED
      BY <3>5, <3>6
  <2>9. QED
    BY <2>3, <2>4, <2>6, <2>7, <2>8
<1>8. QED
  BY <1>6, <1>7

\* A long option reports what Long says, and moves on by the words it says.
LEMMA LongStepScanned ==
  ASSUME IInv, Scanned, result # "done", IInv', optind < argc, Word.kind = "long",
         NEW r \in Reports, NEW n \in {1, 2}, Long(argv, optind) = [log |-> <<r>>, words |-> n],
         flags' = flags \cup Flagged(argv, optind), UNCHANGED optcursor, optind' = optind + n,
         log' = Append(log, r), argv' = argv, result' # "done"
  PROVE  Scanned'
<1>1. optcursor = 0 /\ Ahead = Read(argv, optind, Reading(argv))
  BY AheadElsewhere
<1>2. /\ Word = argv[optind] /\ optind \in 1..Len(argv) /\ ~(optind > Len(argv))
      /\ argv \in Seq(Words)
  BY PlaceFacts
<1>3. WordRead(argv, optind) = [log |-> <<r>>, words |-> n]
  BY <1>2 DEF WordRead
<1>4. PICK after : after = Reading(argv)[optind + n]
  OBVIOUS
<1>5. Ahead = [log |-> <<r>> \o after.log, flags |-> Flagged(argv, optind) \cup after.flags,
               optind |-> after.optind]
  <2>1. argv[optind].kind \notin {"operand", "end"} /\ ~(optind > Len(argv))
    BY <1>2
  <2>2. Read(argv, optind, Reading(argv)) =
          [log |-> WordRead(argv, optind).log
                     \o Reading(argv)[optind + WordRead(argv, optind).words].log,
           flags |-> Flagged(argv, optind)
                       \cup Reading(argv)[optind + WordRead(argv, optind).words].flags,
           optind |-> Reading(argv)[optind + WordRead(argv, optind).words].optind]
    BY <2>1, ReadCases
  <2>3. QED
    BY <1>1, <1>3, <1>4, <2>2
<1>6. Ahead' = after
  BY <1>1, <1>4 DEF Ahead, AheadOf
<1>7. Goes(r)
  <2>1. flags \cup Ahead.flags = flags' \cup (Ahead').flags
    BY <1>5, <1>6
  <2>2. Ahead.log = <<r>> \o (Ahead').log /\ Ahead.optind = (Ahead').optind /\ optcursor' = 0
    BY <1>1, <1>5, <1>6
  <2>3. QED
    BY <2>1, <2>2 DEF Goes
<1>8. QED
  BY <1>7, GoesScanned

LEMMA LongUnknownScanned ==
  ASSUME IInv, Scanned, result # "done", IInv', LongUnknown
  PROVE  Scanned'
<1>1. optind < argc /\ Word = argv[optind]
  BY PlaceFacts DEF LongUnknown
<1>2. PICK r : r = Result("?", Nothing, "")
  OBVIOUS
<1>3. r \in Reports
  BY <1>2, NothingTyped, ResultTyped
<1>4. Long(argv, optind) = [log |-> <<r>>, words |-> 1]
  BY <1>1, <1>2 DEF LongUnknown, Long
<1>5. Flagged(argv, optind) = {}
  BY <1>1 DEF LongUnknown, Flagged, Matches
<1>6. log' = Append(log, r) /\ argv' = argv /\ result' # "done"
  <2>1. Return("?", Nothing, "")
    BY DEF LongUnknown
  <2>2. log' = Append(log, Result("?", Nothing, "")) /\ argv' = argv /\ result' = "?"
    BY <2>1, ReturnIsResult
  <2>3. QED
    BY <1>2, <2>2
<1>7. flags' = flags \cup Flagged(argv, optind)
  BY <1>5 DEF LongUnknown
<1>8. /\ optcursor' = optcursor /\ optind' = optind + 1 /\ Word.kind = "long"
  BY DEF LongUnknown
<1>9. QED
  BY <1>1, <1>3, <1>4, <1>6, <1>7, <1>8, LongStepScanned

LEMMA LongOptionScanned ==
  ASSUME IInv, Scanned, result # "done", IInv', LongOption
  PROVE  Scanned'
<1>1. /\ optind < argc /\ Word = argv[optind] /\ Word.kind = "long" /\ optcursor' = optcursor
      /\ optind \in 1..Len(argv) /\ Len(argv) \in Nat /\ argc = Len(argv) + 1
      /\ argv \in Seq(Words)
  BY PlaceFacts DEF LongOption
<1>2. PICK i \in Matches(Word.text) :
        /\ Matches(Word.text) = {i}
        /\ flags' = IF Options[i].flag THEN flags \cup {i} ELSE flags
        /\ \/ Options[i].has_arg = "required" /\ LongRequired(Options[i].short_name)
           \/ /\ Options[i].has_arg = "optional" /\ optind' = optind + 1
              /\ Return(Options[i].short_name, IF Word.eq THEN <<optind, -1>> ELSE Nothing, "")
           \/ /\ Options[i].has_arg = "no" /\ optind' = optind + 1
              /\ Return(IF Word.eq THEN "?" ELSE Options[i].short_name, Nothing, "")
  BY DEF LongOption
<1>3. PICK o, c, eq : o = Options[i] /\ c = o.short_name /\ eq = Word.eq
  OBVIOUS
<1>4. i \in DOMAIN Options /\ First(Matches(Word.text)) = i
  BY <1>2, MatchFacts DEF Matches
<1>5. c \in Letters /\ c # "done" /\ eq \in BOOLEAN
  BY <1>1, <1>3, <1>4, OptionFacts, LettersAssumption, WordsFacts
<1>6. Long(argv, optind) =
        CASE eq /\ o.has_arg = "no" -> [log |-> <<Result("?", Nothing, "")>>, words |-> 1]
          [] eq /\ o.has_arg # "no" -> [log |-> <<Result(c, <<optind, -1>>, "")>>, words |-> 1]
          [] ~eq /\ o.has_arg # "required" ->
               [log |-> <<Result(c, Nothing, "")>>, words |-> 1]
          [] ~eq /\ o.has_arg = "required" ->
               [log |-> <<NextWord(argv, optind, c, "")>>, words |-> 2]
  <2>1. \E n \in DOMAIN Options : Matches(argv[optind].text) = {n}
    BY <1>1, <1>2, <1>4
  <2>2. o = Options[First(Matches(argv[optind].text))] /\ eq = argv[optind].eq
    BY <1>1, <1>3, <1>4
  <2>3. QED
    BY <1>3, <2>1, <2>2 DEF Long
<1>7. flags' = flags \cup Flagged(argv, optind)
  <2>1. Flagged(argv, optind) = IF o.flag THEN {i} ELSE {}
    BY <1>1, <1>2, <1>3 DEF Flagged
  <2>2. QED
    BY <1>2, <1>3, <2>1
<1>8. ASSUME NEW res, res # "done", NEW arg, Return(res, arg, ""), NEW n \in {1, 2},
             optind' = optind + n, Result(res, arg, "") \in Reports,
             Long(argv, optind) = [log |-> <<Result(res, arg, "")>>, words |-> n]
      PROVE  Scanned'
  <2>1. PICK r : r = Result(res, arg, "")
    OBVIOUS
  <2>2. log' = Append(log, r) /\ argv' = argv /\ result' # "done"
    BY <1>8, <2>1, ReturnIsResult
  <2>3. QED
    BY <1>1, <1>7, <1>8, <2>1, <2>2, LongStepScanned
<1>9. PICK p, q : p = <<optind, -1>> /\ q = <<optind + 1, 0>>
  OBVIOUS
<1>10. p \in Int \X Int /\ q \in Int \X Int
  BY <1>1, <1>9
<1>11. /\ Result("?", Nothing, "") \in Reports /\ Result(c, Nothing, "") \in Reports
       /\ Result(":", Nothing, "") \in Reports
       /\ Result(c, p, "") \in Reports /\ Result(c, q, "") \in Reports
  BY <1>5, <1>10, NothingTyped, ResultTyped
<1>12. CASE o.has_arg = "required" /\ LongRequired(c)
  <2>1. CASE eq
    <3>1. optind' = optind + 1 /\ Return(c, p, "")
      BY <1>3, <1>9, <1>12, <2>1 DEF LongRequired
    <3>2. Long(argv, optind) = [log |-> <<Result(c, p, "")>>, words |-> 1]
      BY <1>6, <1>9, <1>12, <2>1
    <3>3. QED
      BY <1>5, <1>8, <1>11, <3>1, <3>2
  <2>2. CASE ~eq
    <3>1. Long(argv, optind) = [log |-> <<NextWord(argv, optind, c, "")>>, words |-> 2]
      BY <1>6, <1>12, <2>2
    <3>2. /\ optind' = optind + 2
          /\ IF optind + 1 < argc THEN Return(c, q, "") ELSE Return(":", Nothing, "")
      BY <1>3, <1>9, <1>12, <2>2 DEF LongRequired
    <3>3. NextWord(argv, optind, c, "") =
            IF optind + 1 < argc THEN Result(c, q, "") ELSE Result(":", Nothing, "")
      <4>1. optind < Len(argv) <=> optind + 1 < argc
        BY <1>1
      <4>2. QED
        BY <1>9, <4>1 DEF NextWord
    <3>4. CASE optind + 1 < argc
      BY <1>5, <1>8, <1>11, <3>1, <3>2, <3>3, <3>4
    <3>5. CASE ~(optind + 1 < argc)
      BY <1>5, <1>8, <1>11, <3>1, <3>2, <3>3, <3>5
    <3>6. QED
      BY <3>4, <3>5
  <2>3. QED
    BY <1>5, <2>1, <2>2
<1>13. CASE /\ o.has_arg = "optional" /\ optind' = optind + 1
            /\ Return(c, IF eq THEN p ELSE Nothing, "")
  <2>1. CASE eq
    <3>1. Long(argv, optind) = [log |-> <<Result(c, p, "")>>, words |-> 1]
      BY <1>6, <1>9, <1>13, <2>1
    <3>2. Return(c, p, "")
      BY <1>13, <2>1
    <3>3. QED
      BY <1>5, <1>8, <1>11, <1>13, <3>1, <3>2
  <2>2. CASE ~eq
    <3>1. Long(argv, optind) = [log |-> <<Result(c, Nothing, "")>>, words |-> 1]
      BY <1>6, <1>13, <2>2
    <3>2. Return(c, Nothing, "")
      BY <1>13, <2>2
    <3>3. QED
      BY <1>5, <1>8, <1>11, <1>13, <3>1, <3>2
  <2>3. QED
    BY <1>5, <2>1, <2>2
<1>14. CASE /\ o.has_arg = "no" /\ optind' = optind + 1
            /\ Return(IF eq THEN "?" ELSE c, Nothing, "")
  <2>1. CASE eq
    <3>1. Long(argv, optind) = [log |-> <<Result("?", Nothing, "")>>, words |-> 1]
      BY <1>6, <1>14, <2>1
    <3>2. Return("?", Nothing, "")
      BY <1>14, <2>1
    <3>3. QED
      BY <1>8, <1>11, <1>14, <3>1, <3>2
  <2>2. CASE ~eq
    <3>1. Long(argv, optind) = [log |-> <<Result(c, Nothing, "")>>, words |-> 1]
      BY <1>6, <1>14, <2>2
    <3>2. Return(c, Nothing, "")
      BY <1>14, <2>2
    <3>3. QED
      BY <1>5, <1>8, <1>11, <1>14, <3>1, <3>2
  <2>3. QED
    BY <1>5, <2>1, <2>2
<1>15. QED
  BY <1>2, <1>3, <1>9, <1>12, <1>13, <1>14


LEMMA InitScanned == Init => Scanned
<1> SUFFICES ASSUME Init PROVE Scanned
  OBVIOUS
<1>1. optind = 1 /\ optcursor = 0 /\ flags = {} /\ result = "none" /\ log = <<>>
  BY DEF Init
<1>2. Ahead = Meaning /\ Ahead.log \in Seq(Reports)
  <2>1. IInv
    BY InitTyped
  <2>2. argv \in Seq(Words) /\ 1 \in 1..(Len(argv) + 2)
    BY <2>1, PlaceFacts
  <2>3. Reading(argv)[1] \in Finding
    BY <2>2, ReadingFacts
  <2>4. Ahead = Meaning
    BY <1>1 DEF Ahead, AheadOf, Meaning
  <2>5. QED
    BY <2>3, <2>4 DEF Meaning, Finding
<1>3. <<>> \o Ahead.log = Ahead.log
  BY <1>2, ConcatEmptySeq
<1>4. QED
  BY <1>1, <1>2, <1>3 DEF Scanned

LEMMA NextScanned == IInv /\ Scanned /\ [Next]_vars => Scanned'
<1> SUFFICES ASSUME IInv, Scanned, [Next]_vars PROVE Scanned'
  OBVIOUS
<1>1. CASE UNCHANGED vars
  BY <1>1 DEF vars, Scanned, Meaning, Ahead, Word
<1>2. CASE Next
  <2>1. result # "done" /\ IInv'
    BY <1>2, NextTyped DEF Next
  <2>2. Exhausted \/ NoMoreOptchars \/ ShortOption \/ LongOption \/ LongUnknown
    BY <1>2 DEF Next, GopNext
  <2>3. QED
    BY <2>1, <2>2, ExhaustedScanned, NoMoreScanned, ShortScanned, LongOptionScanned,
       LongUnknownScanned
<1>3. QED
  BY <1>1, <1>2

(* getopt.c:78-80, 101-103, 122-123: whatever the options and however long the     *)
(* command line, when gop_next has returned -1 its calls have reported every word  *)
(* up to the first operand, once each, in order and with its argument, stored to   *)
(* the flags of those options only, and left optind at the first operand.          *)
THEOREM CallsReportArgv == Spec => []ReportsArgv
<1>1. Init => IInv /\ Scanned
  BY InitTyped, InitScanned
<1>2. IInv /\ Scanned /\ [Next]_vars => IInv' /\ Scanned'
  BY NextTyped, NextScanned
<1>3. Scanned => ReportsArgv
  BY DEF Scanned, ReportsArgv
<1>4. QED
  BY <1>1, <1>2, <1>3, PTL DEF Spec
=============================================================================
