--------------------------------- MODULE Minfs ---------------------------------
(***************************************************************************)
(* Programs that put a path together with the functions of minfs_common.c  *)
(* and hand it to minfs_create_directories, which looks at one prefix of   *)
(* it after the other and makes the directories that are missing.  Other   *)
(* programs do the same at the same time, and the rest of the system       *)
(* removes things, puts files in the way and lets mkdir fail.              *)
(*                                                                         *)
(* A node of the file system is a sequence: "/" or "." (the directory the  *)
(* programs are in), and the names below it.  meant is the node a program  *)
(* takes its path to stand for, as long as every function it has used did  *)
(* what its name says.                                                     *)
(***************************************************************************)
EXTENDS MinfsPath

CONSTANTS Programs,
          Platforms,      \* TRUE: POSIX; FALSE: Windows
          Paths, Leaves,  \* what a program starts with, and what it joins
          BufSize,        \* size of the buffers it passes
          MaxStarts,      \* bound: how many paths the programs create in all
          MaxCalls,       \* bound: how many calls of path functions they make
          MaxDisturbances \* bound: what the rest of the system does

ASSUME PlatformsAssumption == Platforms \subseteq BOOLEAN
ASSUME PathsAssumption == Paths \subseteq Strings /\ Leaves \subseteq Strings
ASSUME BoundsAssumption ==
  /\ BufSize \in Nat \ {0}
  /\ MaxStarts \in Nat /\ MaxCalls \in Nat /\ MaxDisturbances \in Nat

VARIABLES posix,         \* the platform of the build
          pc, path,      \* what each program is at, and its path
          mark,          \* mrk, as an index into the path
          meant,         \* history: the node it means
          wrote,         \* history: how much its latest call wrote, and what it was
          starts, calls, \* how much the programs have done, for the bounds
          dirs, files,   \* the nodes there are
          disturbed,     \* history: the programs whose creation was interfered with
          disturbances   \* how often the rest of the system has acted

done == <<starts, calls>>
system == <<dirs, files, disturbances>>
vars == <<posix, pc, path, mark, meant, wrote, done, system, disturbed>>

Unknown == <<>>
Nothing == [bytes |-> 0, by |-> "nobody", p |-> 0]

\* The names in the first n bytes: those before the last slash, and what is after it.
NamesIn(s, n, names) ==
  LET slash == LastOf(SubSeq(s, 1, n), "/")
      name  == SubSeq(s, slash + 1, n)
  IN  (IF slash = 0 THEN <<>> ELSE names[slash - 1])
        \o (IF name = <<>> THEN <<>> ELSE <<name>>)

NamesUpTo(s) == LET names[n \in 0..Len(s)] == NamesIn(s, n, names) IN names

\* The names between the slashes; empty ones do not count.
Names(s) == NamesUpTo(Slashed(s))[Len(s)]

Node(s) == <<IF s # <<>> /\ Slashed(s)[1] = "/" THEN "/" ELSE ".">> \o Names(s)

Init ==
  /\ posix \in Platforms
  /\ pc = [a \in Programs |-> "idle"]
  /\ path = [a \in Programs |-> <<>>]
  /\ mark = [a \in Programs |-> 0]
  /\ meant = [a \in Programs |-> Unknown]
  /\ wrote = [a \in Programs |-> Nothing]
  /\ starts = 0 /\ calls = 0
  /\ dirs = {<<"/">>, <<".">>} /\ files = {}
  /\ disturbed = {} /\ disturbances = 0

-----------------------------------------------------------------------------
(* A program and its path *)

Start(a) ==
  /\ pc[a] = "idle" /\ pc' = [pc EXCEPT ![a] = "building"]
  /\ starts < MaxStarts /\ starts' = starts + 1
  /\ \E s \in Paths :
       path' = [path EXCEPT ![a] = s] /\ meant' = [meant EXCEPT ![a] = Node(s)]
  /\ UNCHANGED <<posix, mark, wrote, calls, disturbed, system>>

\* A path function is called.  Where its buffer is too small the program keeps what it
\* has, with each \ turned into a / by all of them but the join.
Calls(a, by, p, result, node) ==
  /\ pc[a] = "building" /\ calls < MaxCalls /\ calls' = calls + 1
  /\ wrote' = [wrote EXCEPT ![a] = [bytes |-> result.wrote, by |-> by, p |-> p]]
  /\ path' = [path EXCEPT ![a] = IF result.ok THEN result.path
                                ELSE IF by = "join" THEN @ ELSE Slashed(@)]
  /\ meant' = IF result.ok THEN [meant EXCEPT ![a] = node] ELSE meant
  /\ UNCHANGED <<posix, pc, mark, starts, disturbed, system>>

EndsInSlash(s) == s # <<>> /\ Last(Slashed(s)) = "/"

\* The last slash has a name before it and a name after it.
SlashInside(s) == LastOf(Slashed(s), "/") \in 2..(Len(s) - 1)

\* The last dot, if any, has a name before it and belongs to the last name.
DotInLeaf(s) ==
  \/ ~Contains(s, ".")
  \/ LastOf(s, ".") > LastOf(Slashed(s), "/") + 1 /\ ~EndsInSlash(s)

\* A parent that is one byte, without its slash, must be the root, and none empty.
RootOrLonger(s) == Len(JoinParent(s)) > 1 \/ JoinParent(s) \in {<<"/">>, <<"\\">>}

Means(a, known, node) == IF meant[a] # Unknown /\ known THEN node ELSE Unknown

GoToParent(a) ==
  Calls(a, "parent", 0, path_parent(path[a], BufSize),
        Means(a, SlashInside(path[a]), Front(meant[a])))

TakeLeaf(a) ==
  Calls(a, "leaf", 0, path_leaf(path[a], BufSize),
        Means(a, path[a] # <<>> /\ ~EndsInSlash(path[a]), <<".", Last(meant[a])>>))

DropExt(a) ==
  Calls(a, "without_ext", 0, path_without_ext(path[a], BufSize),
        Means(a, DotInLeaf(path[a]),
              IF ~Contains(path[a], ".") THEN meant[a]
              ELSE LET name == Last(meant[a])
                   IN  Append(Front(meant[a]), SubSeq(name, 1, LastOf(name, ".") - 1))))

JoinLeafTo(a) ==
  \E leaf \in Leaves :
    Calls(a, "join", Len(JoinParent(path[a])), path_join(path[a], leaf, BufSize),
          Means(a, RootOrLonger(path[a]), meant[a] \o Names(leaf)))

-----------------------------------------------------------------------------
(* minfs_create_directories *)

\* Where the next prefix ends: before the next slash, or with the path.
NextMark(s, m) == CHOOSE i \in (m + 1)..(Len(s) + 1) :
                    /\ i = Len(s) + 1 \/ s[i] = "/"
                    /\ \A j \in (m + 1)..(i - 1) : s[j] # "/"

Prefix(a) == SubSeq(path[a], 1, mark[a] - 1)

\* On Windows the path is converted first, which may lose the end of it.
CreateCall(a) ==
  LET s == Slashed(IF posix THEN path[a] ELSE utf8_to_uc2(path[a])) IN
  /\ pc[a] = "building"
  /\ pc' = [pc EXCEPT ![a] = "stat"]
  /\ path' = [path EXCEPT ![a] = s]
  /\ meant' = [meant EXCEPT ![a] = IF Len(s) < Len(path[a]) THEN Unknown ELSE @]
  /\ mark' = [mark EXCEPT ![a] = NextMark(s, 0)]
  /\ disturbed' = disturbed \ {a}
  /\ wrote' = [wrote EXCEPT ![a] = Nothing]
  /\ UNCHANGED <<posix, done, system>>

\* Mutant: the slash that ended a prefix is not put back.
NextPrefixCut(a) ==
  /\ pc' = [pc EXCEPT ![a] = "idle"]
  /\ path' = [path EXCEPT ![a] = <<>>]
  /\ mark' = [mark EXCEPT ![a] = 0]

\* On to the next prefix, or back to the program.
NextPrefix(a) ==
  IF mark[a] <= Len(path[a])
  THEN /\ pc' = [pc EXCEPT ![a] = "stat"]
       /\ mark' = [mark EXCEPT ![a] = NextMark(path[a], mark[a])]
       /\ UNCHANGED path
  ELSE /\ pc' = [pc EXCEPT ![a] = "idle"]
       /\ path' = [path EXCEPT ![a] = <<>>]
       /\ mark' = [mark EXCEPT ![a] = 0]

\* stat, or GetFileAttributesW, of no name fails.
Exists(s) == s # <<>> /\ Node(s) \in dirs \cup files

StatFinds(a) ==
  /\ pc[a] = "stat" /\ Exists(Prefix(a))
  /\ NextPrefix(a)
  /\ UNCHANGED <<posix, meant, wrote, done, disturbed, system>>

StatFindsNothing(a) ==
  /\ pc[a] = "stat" /\ ~Exists(Prefix(a))
  /\ pc' = [pc EXCEPT ![a] = "mkdir"]
  /\ UNCHANGED <<posix, path, mark, meant, wrote, done, disturbed, system>>

\* mkdir makes one directory, in one that is there, where nothing is yet; its
\* result is not looked at.
Mkdir(a) ==
  /\ pc[a] = "mkdir"
  /\ dirs' = IF Prefix(a) # <<>> /\ ~Exists(Prefix(a)) /\ Front(Node(Prefix(a))) \in dirs
             THEN dirs \cup {Node(Prefix(a))} ELSE dirs
  /\ NextPrefix(a)
  /\ UNCHANGED <<posix, meant, wrote, done, files, disturbed, disturbances>>

Program(a) ==
  \/ Start(a) \/ GoToParent(a) \/ TakeLeaf(a) \/ DropExt(a) \/ JoinLeafTo(a)
  \/ CreateCall(a) \/ StatFinds(a) \/ StatFindsNothing(a) \/ Mkdir(a)

-----------------------------------------------------------------------------
(* The rest of the system *)

Disturb(as) ==
  /\ disturbances < MaxDisturbances /\ disturbances' = disturbances + 1
  /\ disturbed' = disturbed \cup as

MkdirFails(a) ==
  /\ pc[a] = "mkdir" /\ NextPrefix(a)
  /\ Disturb({a})
  /\ UNCHANGED <<posix, meant, wrote, done, dirs, files>>

\* An empty directory, or a file.
Delete(n) ==
  /\ Len(n) > 1 /\ \A m \in dirs \cup files : m = n \/ ~IsPrefix(n, m)
  /\ dirs' = dirs \ {n} /\ files' = files \ {n}
  /\ Disturb(Programs)
  /\ UNCHANGED <<posix, pc, path, mark, meant, wrote, done>>

\* A file appears where a program is about to want a directory.
PutFile(n) ==
  /\ n \notin dirs \cup files /\ Len(n) > 1 /\ Front(n) \in dirs
  /\ files' = files \cup {n}
  /\ Disturb({})
  /\ UNCHANGED <<posix, pc, path, mark, meant, wrote, done, dirs>>

System ==
  \/ \E a \in Programs : MkdirFails(a)
  \/ \E n \in dirs \cup files : Delete(n)
  \/ \E a \in Programs : \E n \in Prefixes(meant[a]) : n # <<>> /\ PutFile(n)

Next == (\E a \in Programs : Program(a)) \/ System

Spec == Init /\ [][Next]_vars

-----------------------------------------------------------------------------

TypeOK ==
  /\ posix \in BOOLEAN
  /\ pc \in [Programs -> {"idle", "building", "stat", "mkdir"}]
  /\ \A a \in Programs :
       /\ mark[a] \in 0..(Len(path[a]) + 1)
       /\ mark[a] = 0 <=> pc[a] \in {"idle", "building"}
       /\ wrote[a].bytes \in 0..(BufSize + 1)
  /\ \A n \in dirs \cup files : Len(n) = 1 \/ Front(n) \in dirs
  /\ dirs \cap files = {} /\ disturbed \subseteq Programs
  /\ starts \in 0..MaxStarts /\ calls \in 0..MaxCalls
  /\ disturbances \in 0..MaxDisturbances

(***************************************************************************)
(* minfs_posix.c:66-87, minfs_win.c:92-112 with minfs_common.c:29-132: a   *)
(* program that puts a path together and has its directories created gets  *)
(* the directory it means, whoever else creates directories on the way at  *)
(* the same time, unless mkdir fails, something is removed meanwhile or a  *)
(* file is in the way.                                                     *)
(***************************************************************************)
CreatesWhatIsMeant ==
  [][\A a \in Programs :
       (/\ pc[a] \in {"stat", "mkdir"} /\ pc'[a] = "idle"
        /\ meant[a] # Unknown /\ a \notin disturbed')
         => \/ meant[a] \in dirs'
            \/ \E n \in Prefixes(meant[a]) : n \in files']_vars

(***************************************************************************)
(* The same code: no other directory is made on the way, however long the  *)
(* sequence of functions that led to the path and whatever goes wrong.     *)
(***************************************************************************)
CreatesNothingElse ==
  [][\A a \in Programs :
       (pc[a] = "mkdir" /\ <<pc[a], mark[a]>>' # <<pc[a], mark[a]>> /\ meant[a] # Unknown)
         => \A n \in dirs' \ dirs : IsPrefix(n, meant[a])]_vars

(***************************************************************************)
(* minfs_common.c:44, 70, 94, 115: a path function writes no more than its *)
(* buffer holds - but for the final zero of a join that put in a slash,    *)
(* which line 115 does not count.                                          *)
(***************************************************************************)
WritesFit ==
  \A a \in Programs :
    LET w == wrote[a] IN
    w.bytes <= (IF w.by = "join" /\ w.p > 1 THEN BufSize + 1 ELSE BufSize)
=============================================================================
