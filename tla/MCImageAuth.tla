----------------------------- MODULE MCImageAuth -----------------------------
(***************************************************************************)
(* ImageAuth for TLC.  Ids and images are interchangeable.                 *)
(***************************************************************************)
EXTENDS ImageAuth, TLC

Symmetry == Permutations(Ids) \cup Permutations(Images)
=============================================================================
