--------------------------- MODULE MCSessionHandle ---------------------------
(* Instances of SessionHandle for TLC.  All threads interleave freely; only *)
(* the event queue, the far end's output and the caller's calls are small.  *)
EXTENDS SessionHandle

AllKinds == {"ssh", "telnet", "serial"}
=============================================================================
