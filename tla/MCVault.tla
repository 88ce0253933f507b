------------------------------ MODULE MCVault ------------------------------
(* Instances of Vault for TLC: one application thread and one dial          *)
(* goroutine; two ids, names, secrets and masters.                         *)
EXTENDS Vault, TLC

CONSTANTS a, b, n1, n2, m1, m2, s1, s2, gui, dial
TwoIds == {a, b}
TwoNames == {n1, n2}
TwoMasters == {m1, m2}
TwoSecrets == {s1, s2}
Gui == {gui}
Dial == {dial}
Nothing == {}
Symmetric == Permutations(TwoIds) \cup Permutations(TwoNames) \cup Permutations(TwoMasters) \cup Permutations(TwoSecrets)
============================================================================
