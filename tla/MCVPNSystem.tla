----------------------------- MODULE MCVPNSystem -----------------------------
(***************************************************************************)
(* VPNSystem for TLC: a client with its preflight and one connection for   *)
(* an application, and the preflight of a second client that competes for  *)
(* the single slot.  Liveness is checked without the second client: the    *)
(* preflight, whose connection the server may still hold, competes too.    *)
(***************************************************************************)
EXTENDS VPNSystem, TLC

CONSTANTS alice, bob, preA, appA, preB

MCClientOf == preA :> alice @@ appA :> alice @@ preB :> bob
OneClientOf == preA :> alice @@ appA :> alice
=============================================================================
