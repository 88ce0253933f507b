------------------------------ MODULE MCTelnet ------------------------------
(* A peer that echoes and takes NAWS, and also offers STATUS (5) and asks  *)
(* the program to echo, which it refuses; one caller; the awkward bytes.   *)
EXTENDS Telnet

MCSizes == {<<255, 40>>}
MCTexts == {<<CR, 255, CR, LF>>}
MCStreams == {<<255, 255, CR, NUL>>, <<IAC, SB, TType, 1, IAC, SE>>}
MCPeerWill == {Echo, 5}
MCPeerDo == {NAWS, Echo}
=============================================================================
