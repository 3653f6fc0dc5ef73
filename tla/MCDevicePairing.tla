--------------------------- MODULE MCDevicePairing ---------------------------
(* A small instance of DevicePairing for TLC. *)
EXTENDS DevicePairing, TLC

Codes == Permutations(Ids)
=============================================================================
