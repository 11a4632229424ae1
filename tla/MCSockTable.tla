----------------------------- MODULE MCSockTable -----------------------------
(* Instances of SockTable for TLC. *)
EXTENDS SockTable, TLC

Symmetry == Permutations(Users)
=============================================================================
