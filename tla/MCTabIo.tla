------------------------------ MODULE MCTabIo ------------------------------
(* Instances of TabIo for TLC.                                             *)
EXTENDS TabIo

LongLine  == <<97, CR, LF, 98, LF>>      (* its CRLF falls on the cut       *)
TwoLines  == <<99, LF, 100>>
SomeTexts == {LongLine, TwoLines}

Word(bytes) == [bytes |-> bytes, text |-> TRUE]
Escape(bytes) == [bytes |-> <<ESC>> \o bytes, text |-> FALSE]
SomeTokens == {Word(<<65>>), Word(<<195, 169>>),
               Escape(<<91, 49, 109>>),           (* CSI 1 m                *)
               Escape(<<40, 66>>),                (* ESC ( B                *)
               Escape(<<93, 48, BEL>>),           (* OSC ended by BEL       *)
               Escape(<<80, ESC, ESC, 92>>)}      (* DCS ended by ST        *)
=============================================================================
