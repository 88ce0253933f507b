------------------------------ MODULE Dial_proofs ------------------------------
(* Theorems of Dial, for any number of dials, any requests and any keys.   *)
EXTENDS Dial, SequenceTheorems, TLAPS

(* The variables keep their types.                                         *)
Stages == {"none", "refused", "resolving", "dialling", "opening", "setting", "looking", "creating",
           "loading", "connecting", "jumpKey", "jumpLogin", "tunnelling", "key", "login", "shell",
           "up", "pty", "failed", "closed"}
Vaults == [locked : BOOLEAN, closed : BOOLEAN,
           creds : [Refs -> [secret : Secret, enabled : BOOLEAN]]]
Things == {"log", "bastion", "target", "shell"}
Reasons == {"none", "unreachable", "key", "credential", "file", "no methods", "unknown key",
            "mismatch", "algorithms", "rejected", "jump rejected", "question", "silent", "shell"}
Markers == {"unknown host key for", "host key verification failed for", "unable to authenticate",
            "keyboard-interactive prompt", "authentication failed for"}
TypeOK ==
  /\ vault \in Vaults
  /\ file \in KnownHosts
  /\ hostKey \in [Hosts -> Held]
  /\ stage \in [Dials -> Stages] /\ cfg \in [Dials -> Request]
  /\ pins \in [Dials -> Seq(Entry)] /\ passed \in [Dials -> SUBSET Entry]
  /\ open \in [Dials -> SUBSET Things]
  /\ why \in [Dials -> Reasons] /\ text \in [Dials -> SUBSET Markers]
  /\ hadFile \in BOOLEAN /\ trusted \in SUBSET Entry /\ exposed \in SUBSET Entry
  /\ changes \in Nat

(* A dial fills in what its request left blank, and nothing else.          *)
Same(c, r) == /\ c \in Request /\ c.transport = r.transport /\ c.jump = r.jump
              /\ c.log = r.log /\ c.policy = r.policy /\ c.legacy = r.legacy

LEMMA FillType ==
  ASSUME TypeOK, NEW ref \in Refs \cup {NoRef}
  PROVE  /\ \A p \in Secrets \cup {NoSecret} : Fill(p, ref) \in Secrets \cup {NoSecret}
         /\ \A i \in Identities : FillKey(i, ref) \in Identities
  BY DEF TypeOK, Vaults, Secret, Fill, FillKey

LEMMA WithJumpSame ==
  ASSUME TypeOK, NEW c \in Request
  PROVE  Same(WithJump(c), c)
  <1>1. /\ c.jumpPassword \in Secrets \cup {NoSecret} /\ c.jumpIdentity \in Identities
        /\ c.jumpCredential \in Refs \cup {NoRef}
    BY DEF Request
  <1>2. /\ Fill(c.jumpPassword, c.jumpCredential) \in Secrets \cup {NoSecret}
        /\ FillKey(c.jumpIdentity, c.jumpCredential) \in Identities
    BY <1>1, FillType
  <1> QED BY <1>2, ZenonT(30) DEF WithJump, Same, Request

LEMMA WithTargetSame ==
  ASSUME TypeOK, NEW c \in Request
  PROVE  Same(WithTarget(c), c)
  <1>1. /\ c.password \in Secrets \cup {NoSecret} /\ c.identity \in Identities
        /\ c.credential \in Refs \cup {NoRef}
    BY DEF Request
  <1>2. /\ Fill(c.password, c.credential) \in Secrets \cup {NoSecret}
        /\ FillKey(c.identity, c.credential) \in Identities
    BY <1>1, FillType
  <1> QED BY <1>2 DEF WithTarget, Same, Request

(* A dial's own steps, and what the rest of the program does meanwhile.    *)
Step(d) == \/ omegassh_open(d) \/ connectTelnet(d) \/ openPort(d) \/ setReadTimeout(d)
           \/ resolveSecrets(d)
           \/ statKnownHosts(d) \/ createKnownHosts(d) \/ loadKnownHosts(d)
           \/ connect(d) \/ tunnel(d) \/ checkHostKey(d) \/ noCommonAlgorithm(d)
           \/ authenticate(d)
           \/ timeout(d) \/ hangUp(d) \/ newChannel(d) \/ newShell(d) \/ close(d)
DialVars == <<stage, cfg, pins, open, why, text, passed, file, trusted, exposed, hadFile>>

LEMMA NextCases ==
  ASSUME [Next]_vars
  PROVE  (\E d \in Dials : Step(d)) \/ VaultCall \/ Rekey \/ UNCHANGED vars
  BY DEF Next, Step

LEMMA AroundDials ==
  ASSUME VaultCall \/ Rekey \/ UNCHANGED vars
  PROVE  UNCHANGED DialVars
  BY DEF VaultCall, Rekey, vars, DialVars, Edited, omegassh_vault_lock, omegassh_vault_unlock,
         omegassh_vault_close, omegassh_vault_store, omegassh_vault_delete,
         omegassh_vault_set_disabled

------------------------------------------------------------------------------
(* Type correctness.                                                       *)

LEMMA WrittenType ==
  NoFile \in KnownHosts /\ EmptyFile \in KnownHosts
  <1>1. <<>> \in Seq(Entry)
    OBVIOUS
  <1> QED BY <1>1 DEF KnownHosts, NoFile, EmptyFile

(* What an append makes of the lines of the file.                           *)
LEMMA AppendedFacts ==
  ASSUME TypeOK, NEW e \in Entry
  PROVE  /\ Appended(e) \in KnownHosts /\ Appended(e).exists /\ Appended(e).ended
         /\ file.ended => Lines(Appended(e).entries) = Lines(file.entries) \cup {e}
         /\ Lines(file.entries) \ LastLine(file.entries) \subseteq Lines(Appended(e).entries)
  <1> DEFINE es == file.entries
             joined == [es EXCEPT ![Len(es)] = Joined(@)]
  <1>1. /\ es \in Seq(Entry) /\ file.ended \in BOOLEAN /\ Len(es) \in Nat
        /\ DOMAIN es = 1..Len(es)
    BY DEF TypeOK, KnownHosts
  <1>2. /\ Append(es, e) \in Seq(Entry) /\ DOMAIN Append(es, e) = 1..(Len(es) + 1)
        /\ Append(es, e)[Len(es) + 1] = e /\ \A n \in 1..Len(es) : Append(es, e)[n] = es[n]
    BY <1>1
  <1>3. \A x \in Entry : Joined(x) \in Entry
    BY DEF Joined, Entry
  <1>4. /\ joined \in Seq(Entry) /\ DOMAIN joined = 1..Len(es)
        /\ \A n \in 1..Len(es) : n # Len(es) => joined[n] = es[n]
    <2>1. \A n \in 1..Len(es) : joined[n] \in Entry
      BY <1>1, <1>3
    <2>2. DOMAIN joined = 1..Len(es) /\ joined = [n \in 1..Len(es) |-> joined[n]]
      BY <1>1
    <2>3. [n \in 1..Len(es) |-> joined[n]] \in Seq(Entry)
      BY <1>1, <2>1
    <2> QED BY <1>1, <2>2, <2>3
  <1>5. Appended(e) = [exists |-> TRUE, ended |-> TRUE,
                       entries |-> IF file.ended THEN Append(es, e) ELSE joined]
    BY DEF Appended
  <1> HIDE DEF es, joined
  <1>9. PICK lines : /\ lines = IF file.ended THEN Append(es, e) ELSE joined
                     /\ Appended(e) = [exists |-> TRUE, ended |-> TRUE, entries |-> lines]
    BY <1>5
  <1>10. /\ lines \in Seq(Entry) /\ Appended(e).entries = lines
         /\ Appended(e).exists /\ Appended(e).ended
    BY <1>2, <1>4, <1>9
  <1>6. Appended(e) \in KnownHosts /\ Appended(e).exists /\ Appended(e).ended
    BY <1>9, <1>10 DEF KnownHosts
  <1>7. file.ended => Lines(Appended(e).entries) = Lines(es) \cup {e}
    <2> SUFFICES ASSUME file.ended PROVE Lines(lines) = Lines(es) \cup {e}
      BY <1>10
    <2>1. lines = Append(es, e)
      BY <1>9
    <2>2. /\ DOMAIN lines = 1..(Len(es) + 1) /\ lines[Len(es) + 1] = e
          /\ \A n \in 1..Len(es) : lines[n] = es[n]
      BY <1>2, <2>1
    <2> HIDE DEF es
    <2>3. \A n \in 1..(Len(es) + 1) : n \in 1..Len(es) \/ n = Len(es) + 1
      BY <1>1
    <2>4. 1..Len(es) \subseteq 1..(Len(es) + 1) /\ Len(es) + 1 \in 1..(Len(es) + 1)
      BY <1>1
    <2>5. Lines(lines) \subseteq Lines(es) \cup {e}
      <3> SUFFICES ASSUME NEW n \in DOMAIN lines PROVE lines[n] \in Lines(es) \cup {e}
        BY DEF Lines
      <3> QED BY <1>1, <2>2, <2>3 DEF Lines
    <2>6. Lines(es) \subseteq Lines(lines)
      <3> SUFFICES ASSUME NEW n \in DOMAIN es PROVE es[n] \in Lines(lines)
        BY DEF Lines
      <3>1. n \in DOMAIN lines /\ lines[n] = es[n]
        BY <1>1, <2>2, <2>4
      <3> QED BY <3>1 DEF Lines
    <2>7. e \in Lines(lines)
      BY <2>2, <2>4 DEF Lines
    <2> QED BY <2>5, <2>6, <2>7
  <1>8. Lines(es) \ LastLine(es) \subseteq Lines(Appended(e).entries)
    <2>1. \A n \in 1..Len(es) : n # Len(es) => n \in DOMAIN lines /\ lines[n] = es[n]
      <3>1. CASE file.ended
        <4>1. lines = Append(es, e)
          BY <1>9, <3>1
        <4>2. DOMAIN lines = 1..(Len(es) + 1) /\ \A n \in 1..Len(es) : lines[n] = es[n]
          BY <1>2, <4>1
        <4> QED BY <1>1, <4>2
      <3>2. CASE ~file.ended
        <4>1. lines = joined
          BY <1>9, <3>2
        <4> QED BY <1>4, <4>1
      <3> QED BY <3>1, <3>2
    <2>2. \A x \in Lines(es) \ LastLine(es) : \E n \in 1..Len(es) : n # Len(es) /\ x = es[n]
      BY <1>1 DEF Lines, LastLine
    <2> QED BY <1>10, <2>1, <2>2 DEF Lines
  <1> QED BY <1>6, <1>7, <1>8 DEF es

LEMMA InitType == Init => TypeOK
  <1> SUFFICES ASSUME Init PROVE TypeOK
    OBVIOUS
  <1> USE DialAssumption DEF DialAssumption
  <1>1. vault \in Vaults
    <2> DEFINE first == CHOOSE s \in Stored : s.identity = "none"
               creds == [r \in Refs |-> [secret |-> first, enabled |-> TRUE]]
    <2>1. first \in Secret
      OBVIOUS
    <2>2. creds \in [Refs -> [secret : Secret, enabled : BOOLEAN]]
      BY <2>1
    <2>3. PICK locked \in BOOLEAN : vault = [locked |-> locked, closed |-> FALSE, creds |-> creds]
      BY DEF Init
    <2> HIDE DEF creds
    <2> QED BY <2>2, <2>3 DEF Vaults
  <1>2. file \in KnownHosts
    BY WrittenType DEF Init
  <1>8. trusted \in SUBSET Entry /\ exposed \in SUBSET Entry
    <2>1. file.entries \in Seq(Entry)
      BY <1>2 DEF KnownHosts
    <2>2. Lines(file.entries) \subseteq Entry /\ LastLine(file.entries) \subseteq Entry
      BY <2>1 DEF Lines, LastLine
    <2> QED BY <2>2 DEF Init
  <1>5. hadFile \in BOOLEAN
    BY <1>2 DEF Init, KnownHosts
  <1>3. cfg \in [Dials -> Request]
    <2>1. \A d \in Dials : (CHOOSE r \in Requests[d] : TRUE) \in Request
      OBVIOUS
    <2> QED BY <2>1 DEF Init
  <1>4. stage \in [Dials -> Stages] /\ why \in [Dials -> Reasons] /\ text \in [Dials -> SUBSET Markers]
    BY DEF Init, Stages, Reasons
  <1>6. hostKey \in [Hosts -> Held] /\ changes \in Nat
    BY DEF Init
  <1>7. /\ pins \in [Dials -> Seq(Entry)] /\ passed \in [Dials -> SUBSET Entry]
        /\ open \in [Dials -> SUBSET Things]
    BY DEF Init
  <1> QED BY <1>1, <1>2, <1>3, <1>4, <1>5, <1>6, <1>7, <1>8 DEF TypeOK

(* Which keys a host presents, and what a step opens, in the state's types. *)
LEMMA HopTypes ==
  ASSUME TypeOK, NEW d \in Dials
  PROVE  /\ HopOf(d) \in {"bastion", "target"} /\ HostOf(d) \in Hosts
         /\ \A k \in Presented(d) : Line(d, k) \in Entry
  <1>1. HopOf(d) \in {"bastion", "target"}
    BY DEF HopOf
  <1>2. HostOf(d) \in Hosts
    BY DEF HostOf, TypeOK, Request
  <1> QED BY <1>1, <1>2, DialAssumption DEF Presented, Entry, Line, TypeOK, DialAssumption

LEMMA OpensTyped ==
  ASSUME TypeOK, NEW d \in Dials, omegassh_open(d)
  PROVE  stage' \in [Dials -> Stages] /\ cfg' \in [Dials -> Request]
  <1>1. \A req \in Requests[d] : req \in Request /\ Checked(req) \in Request
    BY DialAssumption, WithJumpSame DEF DialAssumption, Checked, Same
  <1>2. \A req \in Requests[d] : FirstStage(req) \in Stages
    BY <1>1 DEF FirstStage, Stages, Request
  <1> QED BY <1>1, <1>2 DEF omegassh_open, TypeOK, To, Stages

LEMMA ResolvesTyped ==
  ASSUME TypeOK, NEW d \in Dials, resolveSecrets(d)
  PROVE  cfg' \in [Dials -> Request]
  <1>1. cfg[d] \in Request
    BY DEF TypeOK
  <1>2. WithTarget(cfg[d]) \in Request
    BY <1>1, WithTargetSame DEF Same
  <1>3. WithJump(WithTarget(cfg[d])) \in Request
    BY <1>2, WithJumpSame DEF Same
  <1> QED BY <1>3 DEF resolveSecrets, TypeOK

(* A dial fails: what its error paths close is closed.                      *)
Others(d) == \A e \in Dials \ {d} : /\ stage'[e] = stage[e] /\ open'[e] = open[e]
                                    /\ why'[e] = why[e] /\ text'[e] = text[e]
Moved == /\ stage' \in [Dials -> Stages] /\ open' \in [Dials -> SUBSET Things]
         /\ why' \in [Dials -> Reasons] /\ text' \in [Dials -> SUBSET Markers]

LEMMA Failing ==
  ASSUME TypeOK, NEW d \in Dials, NEW r \in Reasons, NEW m \in SUBSET Markers, Fail(d, r, m)
  PROVE  /\ Moved /\ Others(d)
         /\ stage'[d] = "failed" /\ open'[d] = open[d] \ ClosedOnError(d) /\ why'[d] = r /\ text'[d] = m
  <1> USE DEF TypeOK, Fail, To
  <1>1. stage' \in [Dials -> Stages] /\ open' \in [Dials -> SUBSET Things]
    BY DEF Stages, Things
  <1>2. why' \in [Dials -> Reasons] /\ text' \in [Dials -> SUBSET Markers]
    OBVIOUS
  <1> QED BY <1>1, <1>2 DEF Moved, Others

Grows(d, x) == open' = [open EXCEPT ![d] = @ \cup {x}]
LEMMA Growing ==
  ASSUME TypeOK, NEW d \in Dials, NEW s \in Stages, To(d, s), Verdict,
         NEW x \in Things, Grows(d, x)
  PROVE  /\ Moved /\ Others(d)
         /\ stage'[d] = s /\ open'[d] = open[d] \cup {x} /\ why'[d] = why[d] /\ text'[d] = text[d]
  <1>1. stage' \in [Dials -> Stages]
    BY DEF TypeOK, To
  <1>2. open' \in [Dials -> SUBSET Things]
    BY DEF TypeOK, Grows
  <1> QED BY <1>1, <1>2 DEF Moved, Others, TypeOK, To, Verdict, Grows

Starts(d, o) == open' = [open EXCEPT ![d] = o]
LEMMA Starting ==
  ASSUME TypeOK, NEW d \in Dials, NEW s \in Stages, To(d, s), Verdict,
         NEW o \in SUBSET Things, Starts(d, o)
  PROVE  /\ Moved /\ Others(d)
         /\ stage'[d] = s /\ open'[d] = o /\ why'[d] = why[d] /\ text'[d] = text[d]
  <1>1. stage' \in [Dials -> Stages]
    BY DEF TypeOK, To
  <1>2. open' \in [Dials -> SUBSET Things]
    BY DEF TypeOK, Starts
  <1> QED BY <1>1, <1>2 DEF Moved, Others, TypeOK, To, Verdict, Starts

LEMMA GoingOn ==
  ASSUME TypeOK, NEW d \in Dials, NEW s \in Stages, To(d, s), Verdict, UNCHANGED open
  PROVE  /\ Moved /\ Others(d)
         /\ stage'[d] = s /\ open'[d] = open[d] /\ why'[d] = why[d] /\ text'[d] = text[d]
  <1>1. stage' \in [Dials -> Stages]
    BY DEF TypeOK, To
  <1> QED BY <1>1 DEF Moved, Others, TypeOK, To, Verdict, Things

(* The shape of every step: where the dial goes, what it has open then, and *)
(* what it says of a failure.                                              *)
LEMMA Shapes ==
  ASSUME TypeOK, NEW d \in Dials
  PROVE  /\ omegassh_open(d) => \E req \in Requests[d] :
              \/ To(d, FirstStage(req)) /\ Starts(d, openLog(req)) /\ Verdict
              \/ To(d, "refused") /\ Starts(d, openLog(req) \ discard) /\ Verdict
              \/ To(d, "refused") /\ UNCHANGED open /\ Verdict
         /\ connectTelnet(d) => \/ To(d, "up") /\ Grows(d, "target") /\ Verdict
                                \/ Fail(d, "unreachable", {})
         /\ openPort(d) => \/ To(d, "setting") /\ Grows(d, "target") /\ Verdict
                           \/ Fail(d, "unreachable", {})
         /\ connect(d) =>
              \/ /\ To(d, IF cfg[d].jump THEN "jumpKey" ELSE "key")
                 /\ Grows(d, HopOf(d)) /\ Verdict
              \/ Fail(d, "unreachable", {}) \/ Fail(d, "no methods", {})
         /\ tunnel(d) => \/ To(d, "key") /\ Grows(d, "target") /\ Verdict
                         \/ Fail(d, "unreachable", {})
         /\ newChannel(d) => \/ To(d, "pty") /\ Grows(d, "shell") /\ Verdict
                             \/ Fail(d, "shell", {})
         /\ newShell(d) => \/ To(d, "up") /\ UNCHANGED open /\ Verdict
                           \/ Fail(d, "shell", {})
         /\ close(d) => To(d, "closed") /\ Starts(d, open[d] \ Closes(d)) /\ Verdict
  <1>1. omegassh_open(d) => \E req \in Requests[d] :
              \/ To(d, FirstStage(req)) /\ Starts(d, openLog(req)) /\ Verdict
              \/ To(d, "refused") /\ Starts(d, openLog(req) \ discard) /\ Verdict
              \/ To(d, "refused") /\ UNCHANGED open /\ Verdict
    BY DEF omegassh_open, Starts
  <1>2. close(d) => To(d, "closed") /\ Starts(d, open[d] \ Closes(d)) /\ Verdict
    BY DEF close, Starts, TypeOK
  <1> QED BY <1>1, <1>2 DEF connectTelnet, openPort, connect, tunnel, newChannel, newShell, Grows

LEMMA StepMoves ==
  ASSUME TypeOK, NEW d \in Dials, Step(d)
  PROVE  Moved /\ Others(d)
  <1> USE DEF Stages, Reasons, Markers
  <1>1. /\ HopOf(d) \in Things /\ "target" \in Things /\ "shell" \in Things
        /\ open[d] \ Closes(d) \in SUBSET Things
    BY HopTypes DEF Things, TypeOK
  <1>3. CASE omegassh_open(d)
    <2>1. \A req \in Requests[d] : FirstStage(req) \in Stages
      BY DialAssumption DEF DialAssumption, FirstStage, Request
    <2>2. \A req \in Requests[d] :
            openLog(req) \in SUBSET Things /\ openLog(req) \ discard \in SUBSET Things
      BY DEF openLog, OpenLog, discard, Things
    <2>3. "refused" \in Stages
      OBVIOUS
    <2>4. PICK req \in Requests[d] :
              \/ To(d, FirstStage(req)) /\ Starts(d, openLog(req)) /\ Verdict
              \/ To(d, "refused") /\ Starts(d, openLog(req) \ discard) /\ Verdict
              \/ To(d, "refused") /\ UNCHANGED open /\ Verdict
      BY <1>3, Shapes
    <2> HIDE DEF Stages
    <2>5. CASE To(d, FirstStage(req)) /\ Starts(d, openLog(req)) /\ Verdict
      BY <2>1, <2>2, <2>5, Starting
    <2>6. CASE To(d, "refused") /\ Starts(d, openLog(req) \ discard) /\ Verdict
      BY <2>2, <2>3, <2>6, Starting
    <2>7. CASE To(d, "refused") /\ UNCHANGED open /\ Verdict
      BY <2>3, <2>7, GoingOn
    <2> QED BY <2>4, <2>5, <2>6, <2>7
  <1>4. CASE connectTelnet(d) \/ openPort(d) \/ connect(d) \/ tunnel(d) \/ newChannel(d) \/ newShell(d) \/ close(d)
    BY <1>1, <1>4, Shapes, Growing, Starting, GoingOn, Failing, ZenonT(60)
  <1>5. CASE setReadTimeout(d) \/ resolveSecrets(d)
    BY <1>5, GoingOn, Failing DEF setReadTimeout, resolveSecrets
  <1>6. CASE statKnownHosts(d) \/ createKnownHosts(d) \/ loadKnownHosts(d)
    BY <1>6, GoingOn, Failing DEF statKnownHosts, createKnownHosts, loadKnownHosts
  <1>8. CASE checkHostKey(d)
    BY <1>8, GoingOn, Failing DEF checkHostKey, Accept, AfterKey
  <1>9. CASE noCommonAlgorithm(d) \/ timeout(d) \/ hangUp(d)
    BY <1>9, Failing DEF noCommonAlgorithm, timeout, hangUp
  <1>10. CASE authenticate(d)
    <2>1. \A m \in SUBSET Markers : Labelled(d, m) \in SUBSET Markers
      BY DEF Labelled
    <2>2. KeyboardPrompt \in SUBSET Markers
      BY DEF KeyboardPrompt
    <2>3. \A also \in SUBSET {"unable to authenticate"} : also \cup KeyboardPrompt \in SUBSET Markers
      BY <2>2
    <2>4. {"unable to authenticate"} \in SUBSET Markers
      OBVIOUS
    <2>5. \A also \in SUBSET {"unable to authenticate"} :
            Labelled(d, also \cup KeyboardPrompt) \in SUBSET Markers
      BY <2>1, <2>3
    <2>6. Labelled(d, {"unable to authenticate"}) \in SUBSET Markers
      BY <2>1, <2>4
    <2> QED BY <1>10, <2>5, <2>6, GoingOn, Failing DEF authenticate
  <1> QED BY <1>3, <1>4, <1>5, <1>6, <1>8, <1>9, <1>10 DEF Step

(* A step may accept one key, and write it down; or empty known_hosts.      *)
Written(e) == /\ file' = Appended(e) /\ trusted' = trusted \cup {e}
              /\ exposed' = IF file.ended THEN exposed ELSE exposed \cup {e}

LEMMA StepTrust ==
  ASSUME TypeOK, NEW d \in Dials, Step(d)
  PROVE  \/ UNCHANGED <<passed, trusted, exposed, file>>
         \/ /\ createKnownHosts(d) /\ UNCHANGED <<passed, trusted, exposed>>
            /\ file' = EmptyFile
         \/ \E e \in Entry :
               /\ checkHostKey(d) /\ \E k \in Presented(d) : e = Line(d, k)
               /\ passed' = [passed EXCEPT ![d] = @ \cup {e}]
               /\ \/ UNCHANGED <<trusted, exposed, file>>
                  \/ Written(e)
  <1>1. CASE checkHostKey(d)
    <2>1. PICK k \in Presented(d) : \E e \in {Line(d, k)} :
            \/ Accept(d, e) /\ Files
            \/ Accept(d, e) /\ Written(e)
            \/ UNCHANGED passed /\ Files
      BY <1>1 DEF checkHostKey, Written
    <2>2. Line(d, k) \in Entry
      BY HopTypes
    <2> QED BY <1>1, <2>1, <2>2 DEF Accept, Files
  <1>2. CASE createKnownHosts(d)
    BY <1>2 DEF createKnownHosts
  <1>3. CASE ~checkHostKey(d) /\ ~createKnownHosts(d)
    BY <1>3 DEF Files, Step, omegassh_open, connectTelnet, openPort, setReadTimeout,
         resolveSecrets, statKnownHosts, loadKnownHosts, connect, tunnel, noCommonAlgorithm,
         authenticate, timeout, hangUp, newChannel, newShell, close
  <1> QED BY <1>1, <1>2, <1>3

(* known_hosts is read once, between its creation and the first connect.    *)
LEMMA StepPins ==
  ASSUME NEW d \in Dials, Step(d)
  PROVE  \/ UNCHANGED pins
         \/ loadKnownHosts(d) /\ pins' = [pins EXCEPT ![d] = file.entries]
  BY DEF Step, omegassh_open, connectTelnet, openPort, setReadTimeout, resolveSecrets,
         statKnownHosts, createKnownHosts, loadKnownHosts, connect, tunnel, checkHostKey,
         noCommonAlgorithm, authenticate, timeout, hangUp, newChannel, newShell, close

(* What is planned changes when it is made and when secrets are resolved.   *)
LEMMA StepPlan ==
  ASSUME NEW d \in Dials, Step(d)
  PROVE  UNCHANGED cfg \/ omegassh_open(d) \/ resolveSecrets(d)
  BY DEF Step, connectTelnet, openPort, setReadTimeout,
         statKnownHosts, createKnownHosts, loadKnownHosts, connect, tunnel, checkHostKey,
         noCommonAlgorithm, authenticate, timeout, hangUp, newChannel, newShell, close

(* What no dial touches; every other call counts as a change.               *)
LEMMA StepKeeps ==
  ASSUME NEW d \in Dials, Step(d)
  PROVE  UNCHANGED <<vault, hostKey, hadFile, changes>>
  BY DEF Shared, farVars, Step, omegassh_open, connectTelnet, openPort, setReadTimeout,
         resolveSecrets, statKnownHosts, createKnownHosts, loadKnownHosts, connect, tunnel,
         checkHostKey, noCommonAlgorithm, authenticate, timeout, hangUp, newChannel, newShell, close

LEMMA AroundCounts ==
  ASSUME VaultCall \/ Rekey
  PROVE  changes' = changes + 1
  BY DEF VaultCall, Rekey, Edited, omegassh_vault_lock, omegassh_vault_unlock,
         omegassh_vault_close, omegassh_vault_store, omegassh_vault_delete,
         omegassh_vault_set_disabled

LEMMA StepType ==
  ASSUME TypeOK, NEW d \in Dials, Step(d)
  PROVE  TypeOK'
  <1>1. UNCHANGED <<vault, hostKey, hadFile, changes>>
    BY StepKeeps
  <1>2. cfg' \in [Dials -> Request]
    BY StepPlan, OpensTyped, ResolvesTyped DEF TypeOK
  <1>3. pins' \in [Dials -> Seq(Entry)]
    <2>1. file.entries \in Seq(Entry)
      BY DEF TypeOK, KnownHosts
    <2> QED BY <2>1, StepPins DEF TypeOK
  <1>4. /\ passed' \in [Dials -> SUBSET Entry] /\ trusted' \in SUBSET Entry
        /\ exposed' \in SUBSET Entry /\ file' \in KnownHosts
    <2>1. CASE UNCHANGED <<passed, trusted, exposed, file>>
      BY <2>1 DEF TypeOK
    <2>2. CASE /\ UNCHANGED <<passed, trusted, exposed>>
               /\ file' = EmptyFile
      BY <2>2, WrittenType DEF TypeOK
    <2>3. ASSUME NEW e \in Entry, passed' = [passed EXCEPT ![d] = @ \cup {e}],
                 UNCHANGED <<trusted, exposed, file>> \/ Written(e)
          PROVE  /\ passed' \in [Dials -> SUBSET Entry] /\ trusted' \in SUBSET Entry
                 /\ exposed' \in SUBSET Entry /\ file' \in KnownHosts
      <3>1. passed' \in [Dials -> SUBSET Entry]
        BY <2>3 DEF TypeOK
      <3>2. CASE UNCHANGED <<trusted, exposed, file>>
        BY <3>1, <3>2 DEF TypeOK
      <3>3. CASE Written(e)
        <4>1. trusted' \in SUBSET Entry /\ exposed' \in SUBSET Entry
          BY <3>3 DEF Written, TypeOK
        <4>2. file' \in KnownHosts
          BY <3>3, AppendedFacts DEF Written
        <4> QED BY <3>1, <4>1, <4>2
      <3> QED BY <2>3, <3>2, <3>3
    <2> QED BY <2>1, <2>2, <2>3, StepTrust
  <1> QED BY <1>1, <1>2, <1>3, <1>4, StepMoves DEF TypeOK, Moved

LEMMA NextType == TypeOK /\ [Next]_vars => TypeOK'
  <1> SUFFICES ASSUME TypeOK, [Next]_vars PROVE TypeOK'
    OBVIOUS
  <1>1. CASE \E d \in Dials : Step(d)
    BY <1>1, StepType
  <1>2. CASE VaultCall
    <2>1. UNCHANGED DialVars /\ UNCHANGED hostKey /\ changes' = changes + 1
      BY <1>2, AroundDials DEF VaultCall, Edited, farVars, omegassh_vault_lock,
         omegassh_vault_unlock, omegassh_vault_close, omegassh_vault_store,
         omegassh_vault_delete, omegassh_vault_set_disabled
    <2>2. Nothing \in Secret /\ Stored \subseteq Secret
      BY DialAssumption DEF DialAssumption, Nothing, Secret, Identities
    <2>3. vault' \in Vaults
      <3>1. CASE omegassh_vault_lock \/ omegassh_vault_unlock \/ omegassh_vault_close
        BY <3>1 DEF TypeOK, Vaults, omegassh_vault_lock, omegassh_vault_unlock,
           omegassh_vault_close
      <3>2. ASSUME NEW ref \in Refs, NEW secret \in Secret,
                   vault' = [vault EXCEPT !.creds[ref].secret = secret]
            PROVE  vault' \in Vaults
        <4> DEFINE c == vault.creds
        <4> DEFINE edited == [c EXCEPT ![ref].secret = secret]
        <4>1. /\ vault.locked \in BOOLEAN /\ vault.closed \in BOOLEAN
              /\ c \in [Refs -> [secret : Secret, enabled : BOOLEAN]]
          BY DEF TypeOK, Vaults
        <4>2. edited \in [Refs -> [secret : Secret, enabled : BOOLEAN]]
          <5> HIDE DEF c
          <5> QED BY <4>1
        <4>3. vault' = [vault EXCEPT !.creds = edited]
          BY <3>2 DEF TypeOK, Vaults
        <4>4. vault \in Vaults
          BY DEF TypeOK
        <4> HIDE DEF edited
        <4> QED BY <4>2, <4>3, <4>4 DEF Vaults
      <3>3. ASSUME NEW ref \in Refs, omegassh_vault_set_disabled(ref)
            PROVE  vault' \in Vaults
        <4>1. vault.creds[ref].enabled \in BOOLEAN
          BY DEF TypeOK, Vaults
        <4> DEFINE flipped == ~vault.creds[ref].enabled
        <4> HIDE DEF flipped
        <4>2. vault' = [vault EXCEPT !.creds[ref].enabled = flipped]
          BY <3>3 DEF omegassh_vault_set_disabled, flipped
        <4>3. flipped \in BOOLEAN
          BY <4>1 DEF flipped
        <4> QED BY <4>2, <4>3 DEF TypeOK, Vaults
      <3> QED BY <1>2, <2>2, <3>1, <3>2, <3>3
          DEF VaultCall, omegassh_vault_store, omegassh_vault_delete
    <2>5. hostKey' \in [Hosts -> Held] /\ changes' \in Nat
      BY <2>1 DEF TypeOK
    <2>4. UNCHANGED <<stage, cfg, pins, open, why, text, passed, file, trusted, exposed, hadFile>>
      BY <2>1 DEF DialVars
    <2>6. /\ stage' \in [Dials -> Stages] /\ cfg' \in [Dials -> Request]
          /\ pins' \in [Dials -> Seq(Entry)] /\ passed' \in [Dials -> SUBSET Entry]
          /\ open' \in [Dials -> SUBSET Things]
      BY <2>4 DEF TypeOK
    <2>7. /\ why' \in [Dials -> Reasons] /\ text' \in [Dials -> SUBSET Markers]
          /\ hadFile' \in BOOLEAN /\ trusted' \in SUBSET Entry /\ exposed' \in SUBSET Entry
          /\ file' \in KnownHosts
      BY <2>4 DEF TypeOK
    <2> QED BY <2>3, <2>5, <2>6, <2>7 DEF TypeOK
  <1>3. CASE Rekey
    <2>1. UNCHANGED <<stage, cfg, pins, open, why, text, passed, file, trusted, exposed, hadFile, vault>>
      BY <1>3 DEF Rekey
    <2>2. hostKey' \in [Hosts -> Held] /\ changes' \in Nat
      BY <1>3 DEF Rekey, TypeOK
    <2> QED BY <2>1, <2>2 DEF TypeOK
  <1>4. CASE UNCHANGED vars
    BY <1>4 DEF vars, farVars, TypeOK
  <1> QED BY <1>1, <1>2, <1>3, <1>4, NextCases

(* Every variable of a dial keeps its type, on every path through every     *)
(* transport.                                                              *)
THEOREM DialTypes == Spec => []TypeOK
  BY InitType, NextType, PTL DEF Spec

------------------------------------------------------------------------------
(* What a dial has open is a function of where it is and what it planned.   *)

LogOf(c) == IF c.log THEN {"log"} ELSE {}
Bastion(c) == IF c.jump THEN {"bastion"} ELSE {}
Local == {"resolving", "looking", "creating", "loading", "connecting"}
AtBastion == {"jumpKey", "jumpLogin", "tunnelling"}
AtTarget == {"key", "login", "shell"}
Over == {"none", "refused", "failed", "closed"}

Holds(s, c, o) ==
  /\ s \in Over => o = {}
  /\ s \in Local => o = LogOf(c) /\ c.transport = "ssh"
  /\ s \in {"dialling", "opening"} => o = LogOf(c) /\ c.transport # "ssh" /\ ~c.jump
  /\ s = "setting" => o = LogOf(c) \cup {"target"} /\ c.transport # "ssh" /\ ~c.jump
  /\ s \in AtBastion => o = LogOf(c) \cup {"bastion"} /\ c.transport = "ssh" /\ c.jump
  /\ s \in AtTarget => o = LogOf(c) \cup Bastion(c) \cup {"target"} /\ c.transport = "ssh"
  /\ s = "pty" => o = LogOf(c) \cup Bastion(c) \cup {"target", "shell"} /\ c.transport = "ssh"
  /\ s = "up" => o = Path(c) /\ (c.transport # "ssh" => ~c.jump)
Accounted == \A d \in Dials : Holds(stage[d], cfg[d], open[d])

LEMMA SameHolds ==
  ASSUME NEW c, NEW r, Same(c, r), NEW s, NEW o, Holds(s, r, o)
  PROVE  Holds(s, c, o)
  BY DEF Holds, Same, LogOf, Bastion, Path

LEMMA FailedHolds == ASSUME NEW c PROVE Holds("failed", c, {}) /\ Holds("closed", c, {}) /\ Holds("refused", c, {})
  BY DEF Holds, Over, Local, AtBastion, AtTarget

(* A dial that starts has its log open, if it was asked for one.            *)
LEMMA OpenHolds ==
  ASSUME TypeOK, Accounted, NEW d \in Dials, omegassh_open(d)
  PROVE  Holds(stage'[d], cfg'[d], open'[d])
  <1>1. stage[d] = "none" /\ open[d] = {}
    BY DEF omegassh_open, Accounted, Holds, Over
  <1>2. PICK req \in Requests[d] :
          \/ /\ prepare(req) /\ To(d, FirstStage(req)) /\ Starts(d, LogOf(req))
             /\ cfg' = [cfg EXCEPT ![d] = Checked(req)]
          \/ To(d, "refused") /\ (UNCHANGED open \/ Starts(d, {}))
    <2>1. \A req : openLog(req) = LogOf(req) /\ openLog(req) \ discard = {}
      BY DEF openLog, OpenLog, LogOf, discard
    <2> QED BY <2>1 DEF omegassh_open, Starts
  <1>3. req \in Request
    BY DialAssumption DEF DialAssumption
  <1>4. CASE /\ prepare(req) /\ To(d, FirstStage(req)) /\ Starts(d, LogOf(req))
             /\ cfg' = [cfg EXCEPT ![d] = Checked(req)]
    <2>1. /\ stage'[d] = FirstStage(req) /\ open'[d] = LogOf(req) /\ cfg'[d] = Checked(req)
      BY <1>4 DEF To, Starts, TypeOK
    <2>2. Same(Checked(req), req)
      BY <1>3, WithJumpSame DEF Checked
    <2>3. req.transport \in {"ssh", "telnet", "serial"}
      BY <1>3 DEF Request
    <2>4. Holds(FirstStage(req), req, LogOf(req))
      <3>1. CASE req.transport = "ssh"
        BY <3>1 DEF FirstStage, Holds, Over, Local, AtBastion, AtTarget
      <3>2. CASE req.transport = "telnet"
        BY <1>4, <3>2 DEF prepare, prepareTelnet, Plain, FirstStage, Holds, Over, Local, AtBastion, AtTarget
      <3>3. CASE req.transport = "serial"
        BY <1>4, <3>3 DEF prepare, prepareSerial, Plain, FirstStage, Holds, Over, Local, AtBastion, AtTarget
      <3> QED BY <2>3, <3>1, <3>2, <3>3
    <2> QED BY <2>1, <2>2, <2>4, SameHolds
  <1>5. CASE To(d, "refused") /\ (UNCHANGED open \/ Starts(d, {}))
    <2>1. stage'[d] = "refused"
      BY <1>5 DEF To, TypeOK
    <2>2. open'[d] = {}
      BY <1>1, <1>5 DEF Starts, TypeOK
    <2> QED BY <2>1, <2>2, FailedHolds
  <1> QED BY <1>2, <1>4, <1>5

(* On every path the closes of the functions that return are all there is. *)
LEMMA ClosesAll ==
  ASSUME Accounted, NEW d \in Dials, stage[d] \in Stages \ (Over \cup {"up"})
  PROVE  open[d] \ ClosedOnError(d) = {}
  <1> DEFINE s == stage[d]
             o == open[d]
             c == cfg[d]
  <1>1. Holds(s, c, o) /\ s \in Stages \ (Over \cup {"up"})
    BY DEF Accounted
  <1>2. /\ LogOf(c) \subseteq {"log"} /\ Bastion(c) = jumpClientClose(d)
    BY DEF LogOf, Bastion, jumpClientClose
  <1>3. CASE s \in Local \cup {"dialling", "opening"}
    <2>1. o \subseteq {"log"}
      BY <1>1, <1>2, <1>3 DEF Holds
    <2> QED BY <2>1 DEF ClosedOnError, discard
  <1>4. CASE s = "setting"
    <2>1. o \subseteq {"log", "target"}
      BY <1>1, <1>2, <1>4 DEF Holds
    <2> QED BY <1>4, <2>1 DEF ClosedOnError, discard
  <1>5. CASE s \in AtBastion
    <2>1. o \subseteq {"log", "bastion"} /\ c.jump
      BY <1>1, <1>2, <1>5 DEF Holds
    <2> QED BY <1>5, <2>1 DEF ClosedOnError, discard, AtBastion, jumpClientClose
  <1>6. CASE s \in {"key", "login", "shell"}
    <2>1. o \subseteq {"log", "target"} \cup jumpClientClose(d)
      BY <1>1, <1>2, <1>6 DEF Holds, AtTarget
    <2> QED BY <1>6, <2>1 DEF ClosedOnError, discard, handshakeCloses, clientClose
  <1>7. CASE s = "pty"
    <2>1. o \subseteq {"log", "target", "shell"} \cup jumpClientClose(d)
      BY <1>1, <1>2, <1>7 DEF Holds
    <2> QED BY <1>7, <2>1 DEF ClosedOnError, discard, clientClose
  <1> QED BY <1>1, <1>3, <1>4, <1>5, <1>6, <1>7 DEF Stages, Over, Local, AtBastion

LEMMA FailHolds ==
  ASSUME TypeOK, Accounted, NEW d \in Dials, NEW r, NEW m, Fail(d, r, m),
         stage[d] \notin Over \cup {"up"}
  PROVE  Holds(stage'[d], cfg'[d], open'[d])
  <1>1. open[d] \ ClosedOnError(d) = {}
    BY ClosesAll DEF TypeOK
  <1>2. stage'[d] = "failed" /\ open'[d] = open[d] \ ClosedOnError(d)
    BY DEF Fail, To, TypeOK
  <1> QED BY <1>1, <1>2, FailedHolds

(* A close takes all a session holds.                                      *)
LEMMA CloseHolds ==
  ASSUME TypeOK, Accounted, NEW d \in Dials, close(d)
  PROVE  Holds(stage'[d], cfg'[d], open'[d])
  <1>1. Holds("up", cfg[d], open[d])
    BY DEF Accounted, close
  <1>2. stage'[d] = "closed" /\ open'[d] = open[d] \ Closes(d)
    BY DEF close, To, TypeOK
  <1>3. open[d] = Path(cfg[d]) /\ (cfg[d].transport # "ssh" => ~cfg[d].jump)
    BY <1>1 DEF Holds
  <1>4. Path(cfg[d]) \ Closes(d) = {}
    BY <1>3 DEF Path, Closes, clientClose, jumpClientClose
  <1> QED BY <1>2, <1>3, <1>4, FailedHolds

LEMMA StepHolds ==
  ASSUME TypeOK, Accounted, NEW d \in Dials, Step(d)
  PROVE  Holds(stage'[d], cfg'[d], open'[d])
  <1>1. Holds(stage[d], cfg[d], open[d]) /\ cfg[d] \in Request
    BY DEF Accounted, TypeOK
  <1>2. ASSUME NEW s \in Stages, To(d, s), NEW x \in Things, Grows(d, x)
        PROVE  stage'[d] = s /\ open'[d] = open[d] \cup {x}
    BY <1>2 DEF To, Grows, TypeOK
  <1>3. ASSUME NEW s \in Stages, To(d, s), UNCHANGED open
        PROVE  stage'[d] = s /\ open'[d] = open[d]
    BY <1>3 DEF To, TypeOK
  <1> USE DEF Holds, Over, Local, AtBastion, AtTarget, Stages, Things
  <1>4. CASE omegassh_open(d)
    BY <1>4, OpenHolds
  <1>5. CASE connectTelnet(d) \/ newChannel(d) \/ tunnel(d)
    BY <1>1, <1>2, <1>5, FailHolds DEF connectTelnet, newChannel, tunnel, Path, LogOf, Bastion, Grows
  <1>14. CASE newShell(d)
    BY <1>1, <1>3, <1>14, FailHolds DEF newShell, Path, LogOf, Bastion
  <1>6. CASE openPort(d) \/ setReadTimeout(d)
    BY <1>1, <1>2, <1>3, <1>6, FailHolds DEF openPort, setReadTimeout, Path, LogOf, Bastion, Grows
  <1>7. CASE resolveSecrets(d)
    <2>1. CASE Fail(d, "key", {}) \/ Fail(d, "credential", {})
      BY <1>7, <2>1, FailHolds DEF resolveSecrets
    <2>2. CASE /\ stage[d] = "resolving" /\ UNCHANGED open
               /\ cfg' = [cfg EXCEPT ![d] = WithJump(WithTarget(@))]
               /\ To(d, IF cfg[d].policy = "insecure" THEN "connecting" ELSE "looking")
      <3>1. cfg'[d] = WithJump(WithTarget(cfg[d]))
        BY <2>2 DEF TypeOK
      <3>2. Same(WithTarget(cfg[d]), cfg[d])
        BY <1>1, WithTargetSame
      <3>3. Same(WithJump(WithTarget(cfg[d])), WithTarget(cfg[d]))
        BY <3>2, WithJumpSame DEF Same
      <3>4. Same(cfg'[d], cfg[d])
        BY <3>1, <3>2, <3>3 DEF Same
      <3>5. /\ stage'[d] \in {"connecting", "looking"} /\ open'[d] = open[d]
        BY <1>3, <2>2
      <3>6. Holds(stage'[d], cfg[d], open'[d])
        BY <1>1, <2>2, <3>5
      <3> HIDE DEF Holds
      <3> QED BY <3>4, <3>6, SameHolds
    <2> QED BY <1>7, <2>1, <2>2 DEF resolveSecrets
  <1>8. CASE statKnownHosts(d) \/ createKnownHosts(d) \/ loadKnownHosts(d)
    BY <1>1, <1>3, <1>8, FailHolds DEF statKnownHosts, createKnownHosts, loadKnownHosts
  <1>9. CASE connect(d)
    BY <1>1, <1>2, <1>9, FailHolds DEF connect, HopOf, Bastion, Grows
  <1>10. CASE checkHostKey(d)
    BY <1>1, <1>3, <1>10, FailHolds DEF checkHostKey, Accept, AfterKey
  <1>11. CASE noCommonAlgorithm(d) \/ timeout(d) \/ hangUp(d)
    <2>1. stage[d] \notin {"none", "refused", "failed", "closed", "up"}
      BY <1>11 DEF noCommonAlgorithm, timeout, hangUp, DeadlineStages
    <2>2. \E r, m : Fail(d, r, m)
      BY <1>11 DEF noCommonAlgorithm, timeout, hangUp
    <2> HIDE DEF Holds
    <2> QED BY <2>1, <2>2, FailHolds
  <1>12. CASE authenticate(d)
    BY <1>1, <1>3, <1>12, FailHolds DEF authenticate
  <1>13. CASE close(d)
    BY <1>13, CloseHolds
  <1> QED BY <1>4, <1>5, <1>6, <1>7, <1>8, <1>9, <1>10, <1>11, <1>12, <1>13, <1>14 DEF Step

LEMMA OthersKeep ==
  ASSUME TypeOK, NEW d \in Dials, Step(d), NEW e \in Dials \ {d}
  PROVE  /\ stage'[e] = stage[e] /\ open'[e] = open[e] /\ cfg'[e] = cfg[e]
         /\ why'[e] = why[e] /\ text'[e] = text[e]
         /\ pins'[e] = pins[e] /\ passed'[e] = passed[e]
  <1>1. cfg'[e] = cfg[e]
    BY StepPlan DEF TypeOK, omegassh_open, resolveSecrets
  <1>2. pins'[e] = pins[e]
    BY StepPins DEF TypeOK
  <1>3. passed'[e] = passed[e]
    BY StepTrust DEF TypeOK
  <1> QED BY <1>1, <1>2, <1>3, StepMoves DEF Others

LEMMA AccountedStep == TypeOK /\ Accounted /\ [Next]_vars => Accounted'
  <1> SUFFICES ASSUME TypeOK, Accounted, [Next]_vars PROVE Accounted'
    OBVIOUS
  <1>1. ASSUME NEW d \in Dials, Step(d) PROVE Accounted'
    BY <1>1, StepHolds, OthersKeep DEF Accounted
  <1>2. CASE UNCHANGED DialVars
    BY <1>2 DEF DialVars, Accounted
  <1> QED BY <1>1, <1>2, NextCases, AroundDials

(* Whatever fails, on whichever transport, nothing a dial opened stays      *)
(* open; a session that is up holds its whole path, and a target behind a   *)
(* bastion is held through the bastion.                                     *)
THEOREM LeaksNothing == Spec => []NothingLeaks
  <1>1. Init => Accounted
    BY DEF Init, Accounted, Holds, Over, Local, AtBastion, AtTarget
  <1>2. TypeOK /\ Accounted => NothingLeaks
    <2> SUFFICES ASSUME TypeOK, Accounted, NEW d \in Dials
                 PROVE  /\ stage[d] \in {"failed", "refused", "closed"} => open[d] = {}
                        /\ stage[d] = "up" => open[d] = Path(cfg[d])
                        /\ cfg[d].jump /\ "target" \in open[d] => "bastion" \in open[d]
      BY DEF NothingLeaks
    <2>1. Holds(stage[d], cfg[d], open[d]) /\ stage[d] \in Stages
      BY DEF Accounted, TypeOK
    <2>2. cfg[d].jump /\ "target" \in open[d] => "bastion" \in open[d]
      BY <2>1 DEF Holds, Stages, Over, Local, AtBastion, AtTarget, LogOf, Bastion, Path
    <2> QED BY <2>1, <2>2 DEF Holds, Over
  <1>3. Spec => []Accounted
    BY <1>1, AccountedStep, DialTypes, PTL DEF Spec
  <1> QED BY <1>2, <1>3, DialTypes, PTL

------------------------------------------------------------------------------
(* Each reason a dial fails for puts its own question, and no other.        *)

Right(reason, markers) ==
  Dialogs(markers) = CASE reason = "unknown key" -> {"fingerprint"}
                       [] reason = "question" -> {"question"}
                       [] reason = "rejected" -> {"credentials"}
                       [] OTHER -> {}

LEMMA SilentRight ==
  ASSUME NEW r, r \notin {"unknown key", "question", "rejected"} PROVE Right(r, {})
  BY DEF Right, Dialogs, parseHostKeyError, parseKeyboardPrompt, isAuthFailure

LEMMA FailRight ==
  ASSUME TypeOK, NEW d \in Dials, NEW r, NEW m, Fail(d, r, m), Right(r, m)
  PROVE  Right(why'[d], text'[d])
  BY DEF Fail, TypeOK

LEMMA StepRight ==
  ASSUME TypeOK, RightQuestion, NEW d \in Dials, Step(d), stage'[d] = "failed"
  PROVE  Right(why'[d], text'[d])
  <1>1. ASSUME NEW s, To(d, s) PROVE stage'[d] = s
    BY <1>1 DEF To, TypeOK
  <1>2. CASE omegassh_open(d)
    <2>1. \A req \in Requests[d] : FirstStage(req) \in {"resolving", "dialling", "opening"}
      BY DialAssumption DEF DialAssumption, FirstStage, Request
    <2>2. \A req \in Requests[d] : FirstStage(req) # "failed"
      BY <2>1
    <2> QED BY <1>1, <1>2, <2>2 DEF omegassh_open
  <1> USE SilentRight, FailRight
  <1>3. CASE connectTelnet(d) \/ openPort(d) \/ setReadTimeout(d) \/ tunnel(d) \/ newChannel(d) \/ newShell(d)
    BY <1>1, <1>3 DEF connectTelnet, openPort, setReadTimeout, tunnel, newChannel, newShell
  <1>4. CASE resolveSecrets(d) \/ connect(d)
    BY <1>1, <1>4 DEF resolveSecrets, connect
  <1>5. CASE statKnownHosts(d) \/ createKnownHosts(d) \/ loadKnownHosts(d)
    BY <1>1, <1>5 DEF statKnownHosts, createKnownHosts, loadKnownHosts
  <1>6. CASE noCommonAlgorithm(d) \/ timeout(d) \/ hangUp(d) \/ close(d)
    BY <1>1, <1>6 DEF noCommonAlgorithm, timeout, hangUp, close
  <1>7. CASE checkHostKey(d)
    <2>1. /\ Right("unknown key", {"unknown host key for"})
          /\ Right("mismatch", {"host key verification failed for"})
      BY DEF Right, Dialogs, parseHostKeyError, parseKeyboardPrompt, isAuthFailure
    <2> QED BY <1>1, <1>7, <2>1 DEF checkHostKey, Accept, AfterKey
  <1>8. CASE authenticate(d)
    <2>1. stage[d] = "login" => Right("rejected", Labelled(d, {"unable to authenticate"}))
      BY DEF Right, Labelled, IsAuthFailure, Dialogs, parseHostKeyError, parseKeyboardPrompt,
         isAuthFailure
    <2>2. stage[d] # "login" => Right("jump rejected", Labelled(d, {"unable to authenticate"}))
      BY DEF Right, Labelled, Dialogs, parseHostKeyError, parseKeyboardPrompt, isAuthFailure
    <2>3. \A also \in SUBSET {"unable to authenticate"} :
            Right("question", Labelled(d, also \cup KeyboardPrompt))
      BY DEF Right, Labelled, IsAuthFailure, KeyboardPrompt, Dialogs, parseHostKeyError,
         parseKeyboardPrompt, isAuthFailure
    <2> QED BY <1>1, <1>8, <2>1, <2>2, <2>3 DEF authenticate
  <1> QED BY <1>2, <1>3, <1>4, <1>5, <1>6, <1>7, <1>8 DEF Step

(* A failure puts in front of the person the one question that can help:    *)
(* the fingerprint, the far end's, the target's credentials, or none.       *)
THEOREM AsksTheRightQuestion == Spec => []RightQuestion
  <1>1. Init => RightQuestion
    BY DEF Init, RightQuestion
  <1>2. TypeOK /\ RightQuestion /\ [Next]_vars => RightQuestion'
    <2> SUFFICES ASSUME TypeOK, RightQuestion, [Next]_vars PROVE RightQuestion'
      OBVIOUS
    <2>0. \A d \in Dials : stage[d] = "failed" => Right(why[d], text[d])
      BY DEF RightQuestion, Right
    <2>1. ASSUME NEW d \in Dials, Step(d)
          PROVE  \A e \in Dials : stage'[e] = "failed" => Right(why'[e], text'[e])
      BY <2>0, <2>1, StepRight, OthersKeep
    <2>2. CASE UNCHANGED DialVars
      BY <2>2 DEF DialVars, RightQuestion
    <2>3. (\A e \in Dials : stage'[e] = "failed" => Right(why'[e], text'[e])) => RightQuestion'
      BY DEF RightQuestion, Right, Dialogs, parseHostKeyError, parseKeyboardPrompt, isAuthFailure
    <2> QED BY <2>1, <2>2, <2>3, NextCases, AroundDials
  <1> QED BY <1>1, <1>2, DialTypes, PTL DEF Spec

------------------------------------------------------------------------------
(* Trust.                                                                  *)

Before == {"none", "dialling", "opening", "setting"} \cup Local
PinsFirst == \A d \in Dials : stage[d] \in Before => passed[d] = {}
NotEmptied == hadFile => file.exists /\ \A d \in Dials : stage[d] # "creating"

(* The keys a host presents that holds what it held at first.               *)
Offered(held, legacy) ==
  LET order  == hostKeyAlgos(legacy)
      shared == {n \in DOMAIN order : \E k \in held : Algo[k] = order[n]}
  IN  {k \in held : \E n \in shared : Algo[k] = order[n] /\ \A m \in shared : n <= m}

LEMMA OneOffer ==
  ASSUME NEW l1 \in BOOLEAN, NEW l2 \in BOOLEAN,
         NEW k \in Offered(AtFirst, l1), NEW j \in Offered(AtFirst, l2)
  PROVE  k = j
  <1> DEFINE A == modernHostKeys \o legacyHostKeys
             M == modernHostKeys
             N == Len(M)
             On(o) == {n \in DOMAIN o : \E i \in AtFirst : Algo[i] = o[n]}
  <1>1. /\ N \in Nat /\ Len(legacyHostKeys) \in Nat /\ DOMAIN M = 1..N
        /\ DOMAIN A = 1..(N + Len(legacyHostKeys))
        /\ \A n \in 1..N : A[n] = M[n]
    BY DialAssumption, ConcatProperties DEF DialAssumption
  <1>2. \A x, y \in AtFirst : Algo[x] = Algo[y] => x = y
    BY DialAssumption DEF DialAssumption
  <1>3. \A l \in BOOLEAN : hostKeyAlgos(l) = IF l THEN A ELSE M
    BY DEF hostKeyAlgos
  <1> HIDE DEF A, M, N
  <1>4. \A o, x : (\E l \in BOOLEAN : o = hostKeyAlgos(l) /\ x \in Offered(AtFirst, l)) =>
          x \in AtFirst /\ \E n \in On(o) : Algo[x] = o[n] /\ \A m \in On(o) : n <= m
    BY DEF Offered
  <1> HIDE DEF On
  <1>5. PICK a \in On(IF l1 THEN A ELSE M) :
          Algo[k] = (IF l1 THEN A ELSE M)[a] /\ \A m \in On(IF l1 THEN A ELSE M) : a <= m
    BY <1>3, <1>4
  <1>6. PICK b \in On(IF l2 THEN A ELSE M) :
          Algo[j] = (IF l2 THEN A ELSE M)[b] /\ \A m \in On(IF l2 THEN A ELSE M) : b <= m
    BY <1>3, <1>4
  <1>7. k \in AtFirst /\ j \in AtFirst
    BY <1>3, <1>4
  <1>8. \A n \in On(M) : n \in 1..N /\ n \in On(A)
    BY <1>1 DEF On
  <1>9. \A n \in On(A) : n \in 1..(N + Len(legacyHostKeys)) /\ (n <= N => n \in On(M))
    BY <1>1 DEF On
  <1>10. a = b
    BY <1>1, <1>5, <1>6, <1>8, <1>9
  <1> QED BY <1>1, <1>2, <1>5, <1>6, <1>7, <1>8, <1>10

LEMMA PresentedOffered ==
  ASSUME NEW d \in Dials, hostKey[HostOf(d)] = AtFirst
  PROVE  Presented(d) = Offered(AtFirst, cfg[d].legacy)
  BY DEF Presented, Offered

(* Until a host is re-keyed, a file these dials made pins first keys only.  *)
Genuine(e) == e.readable /\ \E legacy \in BOOLEAN : e.key \in Offered(AtFirst, legacy)
AllGenuine(entries) == \A e \in Lines(entries) : Genuine(e)
OnlyGenuine ==
  changes = 0 /\ ~hadFile =>
    /\ \A h \in Hosts : hostKey[h] = AtFirst
    /\ file.ended /\ AllGenuine(file.entries)
    /\ \A d \in Dials : AllGenuine(pins[d])

(* Until something is appended, an unended last line is all that is exposed; *)
(* after that the file is ended and nothing more is.                       *)
Exposure ==
  /\ \A a, b, c \in exposed : a = b \/ b = c \/ a = c
  /\ ~file.ended => exposed = LastLine(file.entries)
TrustInv == PinsFirst /\ NotEmptied /\ OnlyGenuine /\ Exposure /\ TrustIsKept

(* No step leads back to before the first handshake.                        *)
LEMMA NeverBack ==
  ASSUME TypeOK, NEW d \in Dials, Step(d), stage'[d] \in Before
  PROVE  stage[d] \in Before /\ ~checkHostKey(d)
  <1>1. ASSUME NEW s, To(d, s) PROVE stage'[d] = s
    BY <1>1 DEF To, TypeOK
  <1>2. ASSUME NEW r, NEW m, Fail(d, r, m) PROVE stage'[d] = "failed"
    BY <1>1, <1>2 DEF Fail
  <1> USE DEF Before, Local
  <1>3. ~checkHostKey(d) /\ ~authenticate(d)
    BY <1>1, <1>2 DEF checkHostKey, Accept, AfterKey, authenticate
  <1>4. ~tunnel(d) /\ ~newChannel(d) /\ ~newShell(d) /\ ~close(d)
    BY <1>1, <1>2 DEF tunnel, newChannel, newShell, close
  <1>5. ~noCommonAlgorithm(d) /\ ~timeout(d) /\ ~hangUp(d) /\ ~connect(d)
    BY <1>1, <1>2 DEF noCommonAlgorithm, timeout, hangUp, connect
  <1> QED BY <1>3, <1>4, <1>5 DEF Step, omegassh_open, connectTelnet, openPort, setReadTimeout,
             resolveSecrets, statKnownHosts, createKnownHosts, loadKnownHosts

LEMMA PinsFirstStep ==
  ASSUME TypeOK, PinsFirst, NEW d \in Dials, Step(d)
  PROVE  PinsFirst'
  <1> SUFFICES ASSUME NEW e \in Dials, stage'[e] \in Before PROVE passed'[e] = {}
    BY DEF PinsFirst
  <1>1. CASE e # d
    BY <1>1, OthersKeep DEF PinsFirst
  <1>2. CASE e = d
    BY <1>2, NeverBack, StepTrust DEF PinsFirst
  <1> QED BY <1>1, <1>2

(* What a dial passed agrees with what it found pinned.                     *)
Agrees(d) ==
  cfg[d].policy # "insecure" =>
    \A e \in passed[d] : PinsOf(d, e.host) = {} \/ e.key \in PinsOf(d, e.host)

LEMMA PinsHoldStep ==
  ASSUME TypeOK, PinsFirst, PinsHold, NEW d \in Dials, Step(d)
  PROVE  PinsHold'
  <1> SUFFICES ASSUME NEW e \in Dials PROVE Agrees(e)'
    BY DEF PinsHold, Agrees
  <1>1. Agrees(e)
    BY DEF PinsHold, Agrees
  <1>2. CASE e # d
    BY <1>1, <1>2, OthersKeep DEF Agrees, PinsOf, Usable
  <1>3. CASE e = d /\ (stage[d] \in Before /\ ~checkHostKey(d))
    <2>1. passed'[d] = {}
      BY <1>3, StepTrust DEF PinsFirst
    <2> QED BY <1>3, <2>1 DEF Agrees
  <1>4. CASE e = d /\ stage[d] \notin Before
    <2>1. UNCHANGED <<cfg, pins>>
      BY <1>4, StepPlan, StepPins DEF Before, Local, omegassh_open, resolveSecrets, loadKnownHosts
    <2>2. CASE ~checkHostKey(d)
      BY <1>1, <1>4, <2>1, <2>2, StepTrust DEF Agrees, PinsOf, Usable
    <2>3. CASE checkHostKey(d)
      <3>1. \/ UNCHANGED passed
            \/ \E x : /\ passed'[d] = passed[d] \cup {x}
                      /\ \/ cfg[d].policy = "insecure" \/ x.key \in PinsOf(d, x.host)
                         \/ FirstContact(d, x)
        BY <2>3 DEF checkHostKey, Accept, TypeOK
      <3> QED BY <1>1, <1>4, <2>1, <3>1 DEF Agrees, PinsOf, Usable, FirstContact
    <2> QED BY <2>2, <2>3
  <1>5. stage[d] \in Before => ~checkHostKey(d)
    BY DEF Before, Local, checkHostKey
  <1> QED BY <1>2, <1>3, <1>4, <1>5

(* Only a last line without its end is given up, for the one joined to it.  *)
LEMMA AppendExposes ==
  ASSUME TypeOK, Exposure, NEW e \in Entry, Written(e)
  PROVE  /\ Exposure'
         /\ trusted \ exposed \subseteq Lines(file.entries)
              => trusted' \ exposed' \subseteq Lines(file'.entries)
  <1>1. /\ file'.ended
        /\ file.ended => Lines(file'.entries) = Lines(file.entries) \cup {e}
        /\ Lines(file.entries) \ LastLine(file.entries) \subseteq Lines(file'.entries)
    BY AppendedFacts DEF Written
  <1>2. CASE file.ended
    <2>1. exposed' = exposed /\ trusted' = trusted \cup {e}
      BY <1>2 DEF Written
    <2> QED BY <1>1, <1>2, <2>1 DEF Exposure
  <1>3. CASE ~file.ended
    <2>1. /\ exposed = LastLine(file.entries)
          /\ exposed' = exposed \cup {e} /\ trusted' = trusted \cup {e}
      BY <1>3 DEF Written, Exposure
    <2>2. \A a, b \in LastLine(file.entries) : a = b
      BY DEF LastLine
    <2>3. \A a, b, c \in exposed' : a = b \/ b = c \/ a = c
      BY <2>1, <2>2
    <2> QED BY <1>1, <2>1, <2>3 DEF Exposure
  <1> QED BY <1>2, <1>3

LEMMA ExposureStep ==
  ASSUME TypeOK, Exposure, NEW d \in Dials, Step(d)
  PROVE  Exposure'
  <1>1. CASE UNCHANGED <<trusted, exposed, file>>
    BY <1>1 DEF Exposure
  <1>2. CASE UNCHANGED exposed /\ file' = EmptyFile
    <2>1. file'.ended
      BY <1>2 DEF EmptyFile
    <2> QED BY <1>2, <2>1 DEF Exposure
  <1>3. ASSUME NEW e \in Entry, Written(e) PROVE Exposure'
    BY <1>3, AppendExposes
  <1> QED BY <1>1, <1>2, <1>3, StepTrust

LEMMA NotEmptiedStep ==
  ASSUME TypeOK, NotEmptied, Exposure, PinsPersist, NEW d \in Dials, Step(d), UNCHANGED hadFile
  PROVE  NotEmptied' /\ PinsPersist'
  <1> SUFFICES ASSUME hadFile
               PROVE  /\ file'.exists /\ trusted' \ exposed' \subseteq Lines(file'.entries)
                      /\ \A e \in Dials : stage'[e] # "creating"
    BY ExposureStep DEF NotEmptied, PinsPersist, Exposure
  <1>1. /\ file.exists /\ trusted \ exposed \subseteq Lines(file.entries)
        /\ \A e \in Dials : stage[e] # "creating"
    BY DEF NotEmptied, PinsPersist
  <1>2. file'.exists /\ trusted' \ exposed' \subseteq Lines(file'.entries)
    <2>1. CASE UNCHANGED <<trusted, exposed, file>>
      BY <1>1, <2>1
    <2>2. ~createKnownHosts(d)
      BY <1>1 DEF createKnownHosts
    <2>3. ASSUME NEW e \in Entry, Written(e)
          PROVE  file'.exists /\ trusted' \ exposed' \subseteq Lines(file'.entries)
      <3>1. file'.exists
        BY <2>3, AppendedFacts DEF Written
      <3> QED BY <1>1, <2>3, <3>1, AppendExposes
    <2> QED BY <2>1, <2>2, <2>3, StepTrust
  <1>3. stage'[d] # "creating"
    <2>1. ASSUME NEW s, To(d, s) PROVE stage'[d] = s
      BY <2>1 DEF To, TypeOK
    <2>2. ASSUME NEW r, NEW m, Fail(d, r, m) PROVE stage'[d] = "failed"
      BY <2>1, <2>2 DEF Fail
    <2>3. omegassh_open(d) => stage'[d] # "creating"
      <3>1. \A req \in Requests[d] : FirstStage(req) \in {"resolving", "dialling", "opening"}
        BY DialAssumption DEF DialAssumption, FirstStage, Request
      <3>2. \A req \in Requests[d] : FirstStage(req) # "creating"
        BY <3>1
      <3> QED BY <2>1, <3>2 DEF omegassh_open
    <2>4. connectTelnet(d) \/ openPort(d) \/ setReadTimeout(d) \/ tunnel(d) \/ newChannel(d) \/ newShell(d)
          \/ resolveSecrets(d) \/ connect(d) => stage'[d] # "creating"
      BY <2>1, <2>2 DEF connectTelnet, openPort, setReadTimeout, tunnel, newChannel, newShell,
         resolveSecrets, connect
    <2>5. statKnownHosts(d) => stage'[d] # "creating"
      BY <1>1, <2>1 DEF statKnownHosts
    <2>6. createKnownHosts(d) \/ loadKnownHosts(d) \/ noCommonAlgorithm(d) \/ timeout(d)
          \/ hangUp(d) \/ close(d) => stage'[d] # "creating"
      BY <2>1, <2>2 DEF createKnownHosts, loadKnownHosts, noCommonAlgorithm, timeout, hangUp, close
    <2>7. checkHostKey(d) \/ authenticate(d) => stage'[d] # "creating"
      BY <2>1, <2>2 DEF checkHostKey, Accept, AfterKey, authenticate
    <2> QED BY <2>3, <2>4, <2>5, <2>6, <2>7 DEF Step
  <1> QED BY <1>1, <1>2, <1>3, OthersKeep

(* The verdict of a handshake, on the key that was presented.               *)
LEMMA MismatchComesFrom ==
  ASSUME TypeOK, NEW d \in Dials, Step(d), why'[d] = "mismatch"
  PROVE  \/ why[d] = "mismatch"
         \/ \E k \in Presented(d) :
              PinsOf(d, HostOf(d)) # {} /\ k \notin PinsOf(d, HostOf(d))
  <1>1. ASSUME NEW r, NEW m, Fail(d, r, m) PROVE why'[d] = r
    BY <1>1 DEF Fail, TypeOK
  <1>2. CASE Verdict
    BY <1>2 DEF Verdict
  <1>3. CASE checkHostKey(d)
    <2>1. PICK k \in Presented(d) : \E e \in {Line(d, k)} :
            \/ Verdict \/ Fail(d, "unknown key", {"unknown host key for"})
            \/ ~FirstContact(d, e) /\ e.key \notin PinsOf(d, e.host)
      BY <1>3 DEF checkHostKey, Accept
    <2>2. Line(d, k).key = k /\ Line(d, k).host = HostOf(d)
      BY DEF Line
    <2> QED BY <1>1, <1>2, <2>1, <2>2 DEF FirstContact
  <1>4. CASE connectTelnet(d) \/ openPort(d) \/ setReadTimeout(d) \/ tunnel(d) \/ newChannel(d) \/ newShell(d)
             \/ resolveSecrets(d) \/ connect(d)
    BY <1>1, <1>2, <1>4 DEF connectTelnet, openPort, setReadTimeout, tunnel, newChannel, newShell,
       resolveSecrets, connect
  <1>5. CASE omegassh_open(d) \/ statKnownHosts(d) \/ createKnownHosts(d) \/ loadKnownHosts(d)
    BY <1>1, <1>2, <1>5 DEF omegassh_open, statKnownHosts, createKnownHosts, loadKnownHosts
  <1>6. CASE noCommonAlgorithm(d) \/ timeout(d) \/ hangUp(d) \/ close(d) \/ authenticate(d)
    BY <1>1, <1>2, <1>6 DEF noCommonAlgorithm, timeout, hangUp, close, authenticate
  <1> QED BY <1>3, <1>4, <1>5, <1>6 DEF Step

LEMMA GenuineStep ==
  ASSUME TypeOK, OnlyGenuine, MismatchMeansChange, NEW d \in Dials, Step(d),
         UNCHANGED <<hostKey, hadFile, changes>>
  PROVE  OnlyGenuine' /\ MismatchMeansChange'
  <1> SUFFICES ASSUME changes = 0, ~hadFile
               PROVE  /\ \A h \in Hosts : hostKey'[h] = AtFirst
                      /\ file'.ended /\ AllGenuine(file'.entries)
                      /\ \A x \in Dials : AllGenuine(pins'[x])
                      /\ \A x \in Dials : why'[x] # "mismatch"
    BY DEF OnlyGenuine, MismatchMeansChange, AllGenuine, Genuine, Offered, hostKeyAlgos
  <1>1. /\ \A h \in Hosts : hostKey[h] = AtFirst
        /\ file.ended /\ AllGenuine(file.entries)
        /\ \A x \in Dials : AllGenuine(pins[x])
        /\ \A x \in Dials : why[x] # "mismatch"
    BY DEF OnlyGenuine, MismatchMeansChange
  <1>2. Presented(d) = Offered(AtFirst, cfg[d].legacy) /\ cfg[d].legacy \in BOOLEAN
    BY <1>1, HopTypes, PresentedOffered DEF TypeOK, Request
  <1>3. file'.ended /\ AllGenuine(file'.entries)
    <2>1. CASE UNCHANGED file
      BY <1>1, <2>1
    <2>2. CASE file' = EmptyFile
      <3>1. file'.ended /\ file'.entries = <<>>
        BY <2>2 DEF EmptyFile
      <3>2. Lines(<<>>) = {}
        BY DEF Lines
      <3> QED BY <3>1, <3>2 DEF AllGenuine
    <2>3. ASSUME NEW e \in Entry, NEW k \in Presented(d), e = Line(d, k), Written(e)
          PROVE  file'.ended /\ AllGenuine(file'.entries)
      <3>1. Genuine(e)
        BY <1>2, <2>3 DEF Genuine, Line
      <3>2. file'.ended /\ Lines(file'.entries) = Lines(file.entries) \cup {e}
        BY <1>1, <2>3, AppendedFacts DEF Written
      <3> QED BY <1>1, <3>1, <3>2 DEF AllGenuine
    <2> QED BY <2>1, <2>2, <2>3, StepTrust
  <1>4. \A x \in Dials : AllGenuine(pins'[x])
    <2>1. AllGenuine(pins'[d])
      BY <1>1, StepPins DEF TypeOK
    <2> QED BY <1>1, <2>1, OthersKeep
  <1>5. why'[d] # "mismatch"
    <2> SUFFICES ASSUME why'[d] = "mismatch" PROVE FALSE
      OBVIOUS
    <2>1. PICK k \in Presented(d) :
            PinsOf(d, HostOf(d)) # {} /\ k \notin PinsOf(d, HostOf(d))
      BY <1>1, MismatchComesFrom
    <2>2. PICK e \in Lines(pins[d]) : e.key \in PinsOf(d, HostOf(d))
      BY <2>1 DEF PinsOf, Usable, Lines
    <2>3. Genuine(e)
      BY <1>1 DEF AllGenuine
    <2>4. k = e.key
      BY <1>2, <2>3, OneOffer DEF Genuine
    <2> QED BY <2>1, <2>2, <2>4
  <1> QED BY <1>1, <1>3, <1>4, <1>5, OthersKeep

(* known_hosts binds every dial, stays said, and is never turned against a  *)
(* host whose keys did not change, whatever paths and algorithms were used. *)
THEOREM TrustKept == Spec => []TrustIsKept
  <1>1. Init => TrustInv
    <2> SUFFICES ASSUME Init PROVE TrustInv
      OBVIOUS
    <2>1. trusted = Lines(file.entries) /\ hadFile = file.exists
      BY DEF Init
    <2>2. ~hadFile => file.ended /\ Lines(file.entries) = {}
      <3>1. file = NoFile \/ file.exists
        BY DialAssumption DEF Init, DialAssumption
      <3> QED BY <2>1, <3>1 DEF NoFile, Lines
    <2>3. PinsFirst /\ PinsHold
      BY DEF Init, PinsFirst, PinsHold
    <2>6. Exposure
      <3>1. exposed = IF file.ended THEN {} ELSE LastLine(file.entries)
        BY DEF Init
      <3>2. \A a, b \in LastLine(file.entries) : a = b
        BY DEF LastLine
      <3> QED BY <3>1, <3>2 DEF Exposure
    <2>7. PinsPersist
      BY <2>1, <2>6 DEF PinsPersist, Exposure
    <2>4. NotEmptied /\ MismatchMeansChange
      BY <2>1 DEF Init, NotEmptied, MismatchMeansChange
    <2>5. OnlyGenuine
      <3>1. Lines(<<>>) = {}
        BY DEF Lines
      <3> QED BY <2>2, <3>1 DEF Init, OnlyGenuine, AllGenuine
    <2> QED BY <2>3, <2>4, <2>5, <2>6, <2>7 DEF TrustInv, TrustIsKept
  <1>2. TypeOK /\ TrustInv /\ [Next]_vars => TrustInv'
    <2> SUFFICES ASSUME TypeOK, TrustInv, [Next]_vars PROVE TrustInv'
      OBVIOUS
    <2> USE DEF TrustInv, TrustIsKept
    <2>1. ASSUME NEW d \in Dials, Step(d) PROVE TrustInv'
      <3>1. UNCHANGED <<hostKey, hadFile, changes>>
        BY <2>1, StepKeeps
      <3> QED BY <2>1, <3>1, PinsFirstStep, PinsHoldStep, NotEmptiedStep,
             ExposureStep, GenuineStep
    <2>2. CASE VaultCall \/ Rekey
      <3>1. changes' = changes + 1 /\ changes \in Nat
        BY <2>2, AroundCounts DEF TypeOK
      <3>2. OnlyGenuine' /\ MismatchMeansChange'
        BY <3>1 DEF OnlyGenuine, MismatchMeansChange
      <3>3. UNCHANGED DialVars
        BY <2>2, AroundDials
      <3>4. PinsFirst' /\ PinsHold' /\ PinsPersist' /\ NotEmptied' /\ Exposure'
        <4>1. PinsFirst' /\ NotEmptied' /\ PinsPersist'
          BY <3>3 DEF DialVars, PinsFirst, NotEmptied, PinsPersist
        <4>2. Exposure'
          BY <3>3 DEF DialVars, Exposure
        <4>3. \A x, h : PinsOf(x, h)' = PinsOf(x, h)
          BY <3>3 DEF DialVars, PinsOf, Usable
        <4>4. PinsHold'
          BY <3>3, <4>3 DEF DialVars, PinsHold
        <4> QED BY <4>1, <4>2, <4>4
      <3> QED BY <3>2, <3>4
    <2>3. CASE UNCHANGED vars
      <3>1. PinsFirst' /\ PinsHold' /\ PinsPersist' /\ NotEmptied' /\ Exposure'
        <4>1. PinsFirst' /\ NotEmptied' /\ PinsPersist'
          BY <2>3 DEF vars, PinsFirst, NotEmptied, PinsPersist
        <4>2. Exposure'
          BY <2>3 DEF vars, Exposure
        <4>3. \A x, h : PinsOf(x, h)' = PinsOf(x, h)
          BY <2>3 DEF vars, PinsOf, Usable
        <4>4. PinsHold'
          BY <2>3, <4>3 DEF vars, PinsHold
        <4> QED BY <4>1, <4>2, <4>4
      <3>2. OnlyGenuine' /\ MismatchMeansChange'
        BY <2>3 DEF vars, farVars, OnlyGenuine, AllGenuine, MismatchMeansChange, Genuine, Offered, hostKeyAlgos
      <3> QED BY <3>1, <3>2
    <2> QED BY <2>1, <2>2, <2>3, NextCases
  <1> QED BY <1>1, <1>2, DialTypes, PTL DEF Spec, TrustInv
=============================================================================
