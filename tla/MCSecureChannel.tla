-------------------------- MODULE MCSecureChannel --------------------------
(***************************************************************************)
(* SecureChannel for TLC.  CounterLimit stands for 2^64 - 1000, so that    *)
(* encrypt's refusal is reached; Window stands for 1000, so that losing    *)
(* Window packets leaves one more to refuse.  The client has one packet    *)
(* more to send than its counter allows; the server has one, which is      *)
(* enough for packets to be reflected to the end that sealed them.         *)
(***************************************************************************)
EXTENDS SecureChannel

MCBudget == [client |-> 4, server |-> 1]
=============================================================================
