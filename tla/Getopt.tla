------------------------------- MODULE Getopt -------------------------------
(***************************************************************************)
(* getopt.c: a program calls gop_next until it returns -1.  A word of argv *)
(* is reduced to what gop_next tells apart: an operand (no dash, or "-"),  *)
(* "--", a group of short options after one dash, or a long option with    *)
(* the name it gives and whether it has a '='.                             *)
(***************************************************************************)
EXTENDS Integers, Sequences

CONSTANTS Letters,   \* the characters of groups and names
          Options,   \* longopts: records of name, has_arg, flag and short_name
          Words,     \* the words argv may hold
          MaxWords   \* bound on the words after argv[0]

Nothing == <<0, 0>>
HasArgs == {"no", "required", "optional"}

ASSUME OptionsAssumption ==
  Options \in Seq([name : Seq(Letters), has_arg : HasArgs, flag : BOOLEAN,
                   short_name : Letters])
ASSUME WordsAssumption ==
  /\ Words \subseteq [kind : {"operand", "end", "group", "long"},
                     text : Seq(Letters), eq : BOOLEAN]
  /\ \A w \in Words : w.kind = "group" => w.text # <<>>
\* -1, the end, is no character.
ASSUME LettersAssumption == "done" \notin Letters
ASSUME MaxWordsAssumption == MaxWords \in Nat

VARIABLES argv,       \* argv[1] to argv[argc - 1]
          optind,
          optcursor,  \* a place in the group argv[optind]; 0 for NULL and for its end
          optarg,     \* <<i, 0>>: the word argv[i]; <<i, k>>: that word from its k-th
                      \* letter on; <<i, -1>>: what follows its '='; Nothing for NULL
          optopt, longindex,
          flags,      \* the options through whose flag a value was stored
          result,     \* what the latest call returned; "done" for -1
          log         \* history: what every call returned, with optarg and optopt

vars == <<argv, optind, optcursor, optarg, optopt, longindex, flags, result, log>>

argc == Len(argv) + 1

\* gop_init
Init ==
  /\ argv \in UNION {[1..n -> Words] : n \in 0..MaxWords}
  /\ optind = 1 /\ optcursor = 0
  /\ optarg = Nothing /\ optopt = "" /\ longindex = 0
  /\ flags = {} /\ result = "none" /\ log = <<>>

Return(res, arg, opt) ==
  /\ result' = res /\ optarg' = arg /\ optopt' = opt
  /\ log' = Append(log, [result |-> res, optarg |-> arg, optopt |-> opt])
  /\ UNCHANGED argv

\* The options a short_name stands for; opt_search takes the first.
Named(c) == {i \in DOMAIN Options : Options[i].short_name = c}

First(S) == CHOOSE i \in S : \A j \in S : i <= j

\* strncmp over the length of what the user wrote: name may be cut short anywhere.
Matches(name) ==
  {i \in DOMAIN Options :
     Len(name) <= Len(Options[i].name) /\ SubSeq(Options[i].name, 1, Len(name)) = name}

-----------------------------------------------------------------------------
(* single *)

Exhausted ==
  /\ optind >= argc
  /\ Return("done", Nothing, "")
  /\ UNCHANGED <<optind, optcursor, longindex, flags>>

Word == argv[optind]

NoMoreOptchars ==
  /\ optind < argc /\ Word.kind \in {"operand", "end"}
  /\ optind' = IF Word.kind = "end" THEN optind + 1 ELSE optind
  /\ optcursor' = 0
  /\ Return("done", Nothing, "")
  /\ UNCHANGED <<longindex, flags>>

Cursor == IF optcursor = 0 THEN 1 ELSE optcursor
Optchar == Word.text[Cursor]
AtEnd == Cursor = Len(Word.text)

\* Mutant: the cursor outlives the word it points into.
StepOverKept ==
  IF AtEnd THEN optcursor' = Cursor /\ optind' = optind + 1
           ELSE optcursor' = Cursor + 1 /\ optind' = optind

\* Mutant: the end of a group leaves optind where it is.
StepOverStuck ==
  IF AtEnd THEN optcursor' = 0 /\ optind' = optind
           ELSE optcursor' = Cursor + 1 /\ optind' = optind

\* Line 128 for an option without an argument.
StepOver ==
  IF AtEnd THEN optcursor' = 0 /\ optind' = optind + 1
           ELSE optcursor' = Cursor + 1 /\ optind' = optind

ShortOption ==
  /\ optind < argc /\ Word.kind = "group"
  /\ UNCHANGED <<longindex, flags>>
  /\ IF Named(Optchar) = {}
     THEN StepOver /\ Return("?", Nothing, Optchar)
     ELSE LET o == Options[First(Named(Optchar))] IN
          \/ /\ o.has_arg = "no"
             /\ StepOver
             /\ Return(Optchar, Nothing, Optchar)
          \/ /\ o.has_arg # "no" /\ (~AtEnd \/ o.has_arg = "optional")
             /\ optind' = optind + 1 /\ optcursor' = 0
             /\ Return(Optchar, IF AtEnd THEN Nothing ELSE <<optind, Cursor + 1>>, Optchar)
          \/ /\ o.has_arg = "required" /\ AtEnd
             /\ optind' = optind + 2 /\ optcursor' = 0
             /\ IF optind + 1 < argc THEN Return(Optchar, <<optind + 1, 0>>, Optchar)
                                     ELSE Return(":", Nothing, Optchar)

-----------------------------------------------------------------------------
(* gop_next for a word of more than two characters that starts with "--" *)

\* Mutant: the word after a required argument is not skipped.
LongRequiredOnce(short_name) ==
  /\ optind' = optind + 1
  /\ IF Word.eq THEN Return(short_name, <<optind, -1>>, "")
     ELSE IF optind + 1 < argc THEN Return(short_name, <<optind + 1, 0>>, "")
     ELSE Return(":", Nothing, "")

\* Mutant: optind skips the next word even where '=' gave the argument.
LongRequiredAlwaysTwo(short_name) ==
  /\ optind' = optind + 2
  /\ IF Word.eq THEN Return(short_name, <<optind, -1>>, "")
     ELSE IF optind + 1 < argc THEN Return(short_name, <<optind + 1, 0>>, "")
     ELSE Return(":", Nothing, "")

LongRequired(short_name) ==
  /\ optind' = IF Word.eq THEN optind + 1 ELSE optind + 2
  /\ IF Word.eq THEN Return(short_name, <<optind, -1>>, "")
     ELSE IF optind + 1 < argc THEN Return(short_name, <<optind + 1, 0>>, "")
     ELSE Return(":", Nothing, "")

LongOption ==
  /\ optind < argc /\ Word.kind = "long"
  /\ UNCHANGED optcursor
  /\ \E i \in Matches(Word.text) :
       LET o == Options[i] IN
       /\ Matches(Word.text) = {i}
       /\ longindex' = i - 1
       /\ flags' = IF o.flag THEN flags \cup {i} ELSE flags
       /\ \/ o.has_arg = "required" /\ LongRequired(o.short_name)
          \/ /\ o.has_arg = "optional" /\ optind' = optind + 1
             /\ Return(o.short_name, IF Word.eq THEN <<optind, -1>> ELSE Nothing, "")
          \/ /\ o.has_arg = "no" /\ optind' = optind + 1
             /\ Return(IF Word.eq THEN "?" ELSE o.short_name, Nothing, "")

\* No option, or more than one.
LongUnknown ==
  /\ optind < argc /\ Word.kind = "long"
  /\ ~\E i \in DOMAIN Options : Matches(Word.text) = {i}
  /\ optind' = optind + 1
  /\ Return("?", Nothing, "")
  /\ UNCHANGED <<optcursor, longindex, flags>>

-----------------------------------------------------------------------------

GopNext == Exhausted \/ NoMoreOptchars \/ ShortOption \/ LongOption \/ LongUnknown

\* The program stops calling when gop_next has returned -1.
Next == result # "done" /\ GopNext

Spec == Init /\ [][Next]_vars

-----------------------------------------------------------------------------

TypeOK ==
  /\ argv \in Seq(Words)
  /\ optind \in Nat \ {0} /\ optcursor \in Nat
  /\ longindex \in Nat /\ flags \subseteq DOMAIN Options
  /\ optcursor # 0 => /\ optind < argc /\ Word.kind = "group"
                      /\ optcursor <= Len(Word.text)

(***************************************************************************)
(* getopt.c:96-99: "optind shall be incremented by 2.  If the resulting    *)
(* value of optind is greater than argc, this indicates a missing          *)
(* option-argument, and getopt() shall return an error indication."        *)
(* optind passes argc in no other way, by one only, and every call but the *)
(* last is then behind us.                                                 *)
(***************************************************************************)
OptindInArgv ==
  /\ optind <= argc + 1
  /\ optind > argc =>
       \E n \in DOMAIN log :
         /\ log[n].result = ":"
         /\ \A m \in DOMAIN log : m > n => log[m].result = "done"

(***************************************************************************)
(* Lines 44-45, 128-129, 165-166 and 218: each call that reports something *)
(* moves on, to a later word or to a later place in the same group, so     *)
(* that a program that calls gop_next until it returns -1 comes to an end. *)
(***************************************************************************)
Progress ==
  [][\/ result' = "done"
     \/ optind' > optind
     \/ optind' = optind /\ optcursor' > optcursor]_vars

-----------------------------------------------------------------------------
(***************************************************************************)
(* What a command line means, read word by word and with no cursor: the    *)
(* results of the calls, the options whose flag is stored to, and where    *)
(* optind ends up.  The first letter of a group with an argument ends the  *)
(* group; a long option may be cut short as long as it stays unique.       *)
(***************************************************************************)
Result(res, arg, opt) == [result |-> res, optarg |-> arg, optopt |-> opt]

Takes(c) == IF Named(c) = {} THEN "no" ELSE Options[First(Named(c))].has_arg

Letter(c) == Result(IF Named(c) = {} THEN "?" ELSE c, Nothing, c)

\* Where in a group the first option with an argument is, or its end.
ArgumentAt(text) ==
  IF \E k \in DOMAIN text : Takes(text[k]) # "no"
  THEN First({k \in DOMAIN text : Takes(text[k]) # "no"})
  ELSE Len(text) + 1

NextWord(words, i, c, opt) == IF i < Len(words) THEN Result(c, <<i + 1, 0>>, opt)
                                                ELSE Result(":", Nothing, opt)

\* The results of a word, and how many words it takes with it.
Group(words, i) ==
  LET text == words[i].text
      k == ArgumentAt(text)
      before == [j \in 1..(k - 1) |-> Letter(text[j])]
      c == text[k]
  IN  CASE k > Len(text) -> [log |-> before, words |-> 1]
        [] k < Len(text) ->
             [log |-> Append(before, Result(c, <<i, k + 1>>, c)), words |-> 1]
        [] k = Len(text) /\ Takes(c) = "optional" ->
             [log |-> Append(before, Result(c, Nothing, c)), words |-> 1]
        [] OTHER -> [log |-> Append(before, NextWord(words, i, c, c)), words |-> 2]

Long(words, i) ==
  LET known == \E n \in DOMAIN Options : Matches(words[i].text) = {n}
      o == Options[First(Matches(words[i].text))]
      c == o.short_name
      eq == words[i].eq
  IN  CASE ~known \/ (eq /\ o.has_arg = "no") ->
             [log |-> <<Result("?", Nothing, "")>>, words |-> 1]
        [] known /\ eq /\ o.has_arg # "no" ->
             [log |-> <<Result(c, <<i, -1>>, "")>>, words |-> 1]
        [] known /\ ~eq /\ o.has_arg # "required" ->
             [log |-> <<Result(c, Nothing, "")>>, words |-> 1]
        [] known /\ ~eq /\ o.has_arg = "required" ->
             [log |-> <<NextWord(words, i, c, "")>>, words |-> 2]

Flagged(words, i) ==
  {o \in Matches(words[i].text) :
     words[i].kind = "long" /\ Options[o].flag /\ Matches(words[i].text) = {o}}

Stop(i) == [log |-> <<Result("done", Nothing, "")>>, flags |-> {}, optind |-> i]

\* The words from the i-th on, where rest knows what the words after it mean.
Read(words, i, rest) ==
  IF i > Len(words) \/ words[i].kind = "operand" THEN Stop(i)
  ELSE IF words[i].kind = "end" THEN Stop(i + 1)
  ELSE LET word == IF words[i].kind = "group" THEN Group(words, i) ELSE Long(words, i)
           after == rest[i + word.words]
       IN  [log |-> word.log \o after.log, flags |-> Flagged(words, i) \cup after.flags,
            optind |-> after.optind]

Reading(words) ==
  LET from[i \in 1..(Len(words) + 2)] == Read(words, i, from) IN from

Meaning == Reading(argv)[1]

(***************************************************************************)
(* getopt.c:78-80: "The getopt() function shall return the next option     *)
(* character (if one is found) from argv", 101-103, 122-123.  The calls    *)
(* report the words of argv completely, once each and in order, whatever   *)
(* groups and arguments they are made of.                                  *)
(***************************************************************************)
ReportsArgv ==
  result = "done" => /\ log = Meaning.log
                     /\ flags = Meaning.flags
                     /\ optind = Meaning.optind
=============================================================================
