--------------------------------- MODULE MCDesk ---------------------------------
(* A session that names all it can and one that leaves all to the settings; *)
(* a config.json in full, of an installation with other themes, and one     *)
(* that lacks a field.                                                      *)
EXTENDS Desk

MCRows == {[ssh |-> TRUE, cred |-> TRUE, theme |-> "light", font |-> 2],
           [ssh |-> TRUE, cred |-> FALSE, theme |-> Absent, font |-> NoSize]}
MCConfigs == {[theme |-> "gone", font |-> 2], [theme |-> "light"]}
MCOmegaConfigs == {[mode |-> "ask"]}
=================================================================================
