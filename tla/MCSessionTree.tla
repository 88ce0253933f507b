----------------------------- MODULE MCSessionTree -----------------------------
(* A file with a folder in a folder, and one of an older version with two   *)
(* folders that share a position (the parent of one was deleted) and two    *)
(* sessions that share an address.                                          *)
EXTENDS SessionTree, TLC

F(up, pos, name, open) == [up |-> up, pos |-> pos, name |-> name, open |-> open]
Old(up, pos, name, host) == [up |-> up, pos |-> pos, name |-> name, host |-> host, count |-> 1]
S(up, pos, name, host) == Old(up, pos, name, host) @@ [own |-> 1]
MCStores == {
  [folder  |-> <<F(Root, 0, 100, TRUE), F(1, 0, 200, FALSE)>>,
   session |-> <<S(1, 0, 100, 1), S(2, 0, 200, 2)>>,
   last    |-> [folder |-> 2, session |-> 2]],
  [folder  |-> <<F(Root, 0, 200, TRUE), F(Root, 0, 100, TRUE)>>,
   session |-> <<Old(Root, 0, 200, 1), Old(Root, 0, 100, 1)>>,
   last    |-> [folder |-> 2, session |-> 2]]}
MCJoined(path, name) == path + name \div 100
MCFiles == {<<[folder |-> 200, name |-> 100, host |-> 1]>>}
Symmetry == Permutations(Apps)
=============================================================================
