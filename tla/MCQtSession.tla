----------------------------- MODULE MCQtSession -----------------------------
(* Instances of QtSession for TLC.  A queue of 2 or 4 overflows when the    *)
(* GUI thread is slow, as the real one of 64 does between two drains.      *)
EXTENDS QtSession

OnlySsh == {"ssh"}
=============================================================================
