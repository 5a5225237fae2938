-------------------------- MODULE SharedSessionMC --------------------------
(***************************************************************************)
(* SharedSession for TLC.  The objects are alike, and only invariants are  *)
(* checked, so states that differ by a permutation of them are one.        *)
(***************************************************************************)
EXTENDS SharedSession, TLC

Alike == Permutations(Objects)
=============================================================================
