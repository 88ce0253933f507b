------------------------------- MODULE MCDial -------------------------------
(* Instances of Dial for TLC.                                              *)
EXTENDS Dial, TLC

CONSTANTS d1, d2, k1, k2, old, s1, r1, core, edge
TwoDials == {d1, d2}
OneDial == {d1}
ThreeKeys == {k1, k2, old}
MCAlgo == (k1 :> "ed25519") @@ (k2 :> "ed25519") @@ (old :> "ssh-rsa")
Modern == <<"ed25519", "ecdsa">>
Legacy == <<"ssh-rsa">>
BothKinds == {k1, old}
SomeHeld == {BothKinds, {k2}, {old}}
OneSecret == {s1}
OneRef == {r1}

TwoHosts == {core, edge}
Typed == [transport |-> "ssh", usable |-> TRUE, log |-> FALSE, host |-> edge, jumpHost |-> core, policy |-> "strict", jump |-> FALSE, password |-> s1, credential |-> NoRef,
          jumpPassword |-> NoSecret, jumpCredential |-> NoRef,
          identity |-> "none", jumpIdentity |-> "none", answer |-> FALSE, legacy |-> FALSE]
SomeStored == { [password |-> s1, identity |-> "none"], [password |-> NoSecret, identity |-> "opens"] }
ThroughBastion == [Typed EXCEPT !.policy = "tofu", !.log = TRUE, !.jump = TRUE, !.password = NoSecret,
                         !.credential = r1, !.jumpCredential = r1]
(* One box by two paths: edge is a target twice, core bastion and target.  *)
WithAnswer == [Typed EXCEPT !.policy = "tofu", !.password = NoSecret, !.answer = TRUE, !.legacy = TRUE]
AllRequests ==
  { Typed, [ThroughBastion EXCEPT !.policy = "strict"], WithAnswer,
    [WithAnswer EXCEPT !.host = core, !.password = s1],
    [Typed EXCEPT !.policy = "insecure", !.jump = TRUE, !.password = NoSecret, !.jumpIdentity = "opens"],
    [Typed EXCEPT !.identity = "unreadable"],
    [Typed EXCEPT !.jump = TRUE, !.jumpIdentity = "unreadable"],
    [Typed EXCEPT !.transport = "telnet", !.log = TRUE],
    [Typed EXCEPT !.transport = "telnet", !.jump = TRUE],
    [Typed EXCEPT !.transport = "serial", !.log = TRUE],
    [Typed EXCEPT !.transport = "serial", !.usable = FALSE] }
(* Both dials share a new host and a bastion; the first may be any, and     *)
(* passes a bastion's key only once the other has accepted it.             *)
SomeRequests == (d1 :> AllRequests) @@ (d2 :> {ThroughBastion})
OneRequest == d1 :> AllRequests

(* The hosts' own logins: the bastion's is a password, the other's may be any. *)
SomeLogins == { (core :> "password") @@ (edge :> want) : want \in Want }

Pinned(k) == [host |-> edge, key |-> k, readable |-> TRUE, comment |-> FALSE]
Holding(line, ended) == [exists |-> TRUE, entries |-> <<line>>, ended |-> ended]
SomeFiles == { [exists |-> TRUE, entries |-> <<>>, ended |-> TRUE], Holding(Pinned(k2), TRUE),
               Holding([Pinned(k2) EXCEPT !.comment = TRUE], FALSE),
               Holding([Pinned(k1) EXCEPT !.readable = FALSE], FALSE) }
=============================================================================
