---------------------------- MODULE MCLiveCapture ----------------------------
(* LiveCapture with its bounds.                                            *)
EXTENDS LiveCapture
=============================================================================
