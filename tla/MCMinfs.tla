-------------------------------- MODULE MCMinfs --------------------------------
(* An instance of Minfs for TLC: the bytes, paths and leaves its programs use. *)
EXTENDS Minfs, TLC

SomeBytes == {"/", "\\", ".", "a", "b", "c", "lead", "cont"}

\* aa/b.c, \bb, a, a directory with a dot, slashes too many, and beyond ASCII
SomePaths ==
  { <<"a", "a", "/", "b", ".", "c">>, <<"\\", "b", "b">>, <<"a">>, <<"/">>,
    <<"a", ".", "b", "/", "a">>, <<"a", "a", "/", "/">>,
    <<"a", "lead", "cont", "/", "b">> }

SomeLeaves == { <<"b">>, <<"/", "a", "\\", "b">>, <<>> }

Symmetry == Permutations(Programs)
=============================================================================
