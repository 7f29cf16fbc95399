------------------------------ MODULE MCFraming ------------------------------
(***************************************************************************)
(* Framing for TLC: bytes 0 and 1, a prefix of two bytes (which can name   *)
(* one length too many, 3), and packets up to the maximum length and one   *)
(* above it; <<1, 0>> reads like the prefix of a packet of one byte.       *)
(***************************************************************************)
EXTENDS Framing

MCPackets == {<<1>>, <<1, 0>>, <<0, 1>>, <<0, 1, 0>>}
=============================================================================
