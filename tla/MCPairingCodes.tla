--------------------------- MODULE MCPairingCodes ---------------------------
(* A small instance of PairingCodes for TLC: one person with two requests,   *)
(* who may retry or contradict themselves, and one with one.                 *)
EXTENDS PairingCodes

TwoPeople  == {"ana", "ben"}
ThreeTabs  == {<<"ana", 1>>, <<"ana", 2>>, <<"ben", 1>>}
OwnerOfTab == [t \in ThreeTabs |-> t[1]]
=============================================================================
