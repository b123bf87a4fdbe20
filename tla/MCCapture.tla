----------------------------- MODULE MCCapture -----------------------------
(* Small instance of Capture.                                              *)
EXTENDS Capture
=============================================================================
