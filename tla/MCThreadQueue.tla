---------------------------- MODULE MCThreadQueue ----------------------------
(* Instances of ThreadQueue for TLC. *)
EXTENDS ThreadQueue, TLC

CONSTANTS a, b

NoEntries == <<>>
ThreeEntries == <<a, b, a>>
=============================================================================
