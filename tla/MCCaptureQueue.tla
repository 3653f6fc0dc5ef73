--------------------------- MODULE MCCaptureQueue ---------------------------
(* A small instance of CaptureQueue for TLC. *)
EXTENDS CaptureQueue

TwoItems == 1..2
=============================================================================
