---------------------------- MODULE MCLiveSocket ----------------------------
(* Small instances of LiveSocket for TLC. *)
EXTENDS LiveSocket

TwoSockets == {1, 2}
EventBounds == [p \in Patterns |-> IF p = Watched THEN 2 ELSE 1]
=============================================================================
