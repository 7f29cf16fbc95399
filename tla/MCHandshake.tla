---------------------------- MODULE MCHandshake ----------------------------
(***************************************************************************)
(* Handshake for TLC: the clients of an enrolled and of an unenrolled      *)
(* person, and a second enrolled person, whose name damage can put into a  *)
(* hello; every combination of protocol versions; two server sessions, so  *)
(* that every packet can be delivered twice or to the wrong one.  With a   *)
(* skew of 1, a client that is 1 behind is refused when its hello is late, *)
(* one that is 2 ahead unless its hello is late, one with the server's     *)
(* time never.                                                             *)
(***************************************************************************)
EXTENDS Handshake, TLC

CONSTANTS alice1, carol1

MCOwner == alice1 :> "alice" @@ carol1 :> "carol"
MCImageKey == alice1 :> "valid" @@ carol1 :> "absent"

MCAheads == {-1, 0, 2}

ServerSymmetry == Permutations(ServerSessions)
=============================================================================
