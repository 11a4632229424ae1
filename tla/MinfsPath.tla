------------------------------- MODULE MinfsPath -------------------------------
(***************************************************************************)
(* The path functions of minfs_common.c, on strings as sequences of bytes. *)
(* A byte is a separator, "." or what a name is made of; "lead" and "cont" *)
(* are the first and the second byte of a character beyond ASCII.          *)
(*                                                                         *)
(* A result is what the caller's buffer of size bytes holds, and how many  *)
(* bytes were written there, the final zero included.                      *)
(***************************************************************************)
EXTENDS Integers, Sequences, SequencesExt

CONSTANT Bytes  \* what strings are made of

ASSUME BytesAssumption == "/" \in Bytes

Strings == Seq(Bytes)

NoMem == [path |-> <<>>, wrote |-> 0, ok |-> FALSE]

Written(path) == [path |-> path, wrote |-> Len(path) + 1, ok |-> TRUE]

\* Every \ becomes a /, in the caller's string too.
Slashed(s) == [i \in 1..Len(s) |-> IF s[i] = "\\" THEN "/" ELSE s[i]]

LastOf(s, byte) == SelectLastInSeq(s, LAMBDA b : b = byte)

\* The first n bytes.
FirstBytes(s, n, size) == IF size > n THEN Written(SubSeq(s, 1, n)) ELSE NoMem

\* What is before the last byte of that kind, or all of s where there is none.
Before(s, byte, size) ==
  FirstBytes(s, IF LastOf(s, byte) = 0 THEN Len(s) ELSE LastOf(s, byte) - 1, size)

path_parent(s, size) == Before(Slashed(s), "/", size)

path_without_ext(s, size) == Before(Slashed(s), ".", size)

\* Of a path with a slash the slash is counted too.
path_leaf(s, size) ==
  LET slash == LastOf(Slashed(s), "/")
      name  == SubSeq(Slashed(s), slash + 1, Len(s))
  IN  IF size > (IF slash = 0 THEN Len(name) ELSE Len(name) + 1) THEN Written(name) ELSE NoMem

\* path_join leaves one / out where the two meet.
JoinParent(parent) ==
  IF Len(parent) > 1 /\ Last(parent) = "/" THEN Front(parent) ELSE parent
JoinLeaf(leaf) == IF leaf # <<>> /\ Head(leaf) = "/" THEN Tail(leaf) ELSE leaf

\* Mutant: a check that forgets the final zero.
JoinFitsBarely(p, l, size) == Len(l) + Len(p) <= size

JoinFits(p, l, size) == Len(l) + Len(p) + 1 <= size

\* Mutant: no separator.
JoinedTogether(p, l) == p \o l

\* A parent of one byte is taken for the root, and followed by no separator.
Joined(p, l) ==
  IF l = <<>> THEN p ELSE IF Len(p) > 1 THEN p \o <<"/">> \o l ELSE p \o l

path_join(parent, leaf, size) ==
  LET p == JoinParent(parent)
      l == JoinLeaf(leaf)
  IN  IF JoinFits(p, l, size) THEN Written(Joined(p, l)) ELSE NoMem

\* How long the character is that begins with a byte; 0: none begins with it.
utf8_codepoint(byte) == CASE byte = "lead" -> 2 [] byte = "cont" -> 0 [] OTHER -> 1

\* Goes on by one byte after each character, however long it was, and ends at
\* a byte that begins none.
utf8_to_uc2(s) ==
  LET stop == SelectInSeq(s, LAMBDA b : utf8_codepoint(b) = 0)
  IN  IF stop = 0 THEN s ELSE SubSeq(s, 1, stop - 1)
=============================================================================
