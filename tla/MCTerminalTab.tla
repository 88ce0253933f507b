---------------------------- MODULE MCTerminalTab ----------------------------
(* Small instance of TerminalTab: one question a far end may ask, one      *)
(* credential prompt and two keyboard prompts per attempt.                 *)
EXTENDS TerminalTab

OneQuestion == {"otp"}
=============================================================================
