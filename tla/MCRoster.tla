------------------------------ MODULE MCRoster ------------------------------
(***************************************************************************)
(* Roster for TLC: a pinned person and one who is only enrolled, two keys, *)
(* three writes of the roster file, which is what a stale cache needs (one *)
(* before a call, one during it and one after), and one of a key file,     *)
(* before, during or between calls.  Both may be listed, so that the file  *)
(* can change and keep its size.  Access to the file changes without bound.*)
(***************************************************************************)
EXTENDS Roster, TLC

KeySymmetry == Permutations(Keys)
=============================================================================
