---------------------------- MODULE MCServerLife ----------------------------
(***************************************************************************)
(* ServerLife for TLC: two relays and two runs of key_manager, one of them *)
(* with a password.                                                        *)
(***************************************************************************)
EXTENDS ServerLife
=============================================================================
