---------------------------- MODULE MCBoardCache ----------------------------
(* A small instance of BoardCache for TLC. *)
EXTENDS BoardCache
=============================================================================
