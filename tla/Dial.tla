-------------------------------- MODULE Dial --------------------------------
(***************************************************************************)
(* Dials as the C surface runs them: prepare() on the caller's thread      *)
(* (capi/open.go), then a goroutine per dial.  Telnet and serial open one  *)
(* thing; SSH is sshcore.OpenShell: credentials from the vault,            *)
(* known_hosts, the bastion, the target, the shell.  Dials run side by     *)
(* side and share the known_hosts file and the vault; far ends answer,     *)
(* refuse, are re-keyed, or say nothing.                                   *)
(***************************************************************************)
EXTENDS Naturals, FiniteSets, Sequences

CONSTANTS
  Dials,        (* goroutines                                              *)
  Requests,     (* what each dial's caller may ask for, see Request        *)
  Keys, Algo,   (* host keys, and the algorithm of each                    *)
  modernHostKeys, legacyHostKeys,  (* algorithms, the preferred first      *)
  Hosts,        (* remote hosts; any may be a target or a bastion          *)
  AtFirst, Held, (* the keys a host holds at first, and re-keyed            *)
  Logins,       (* what each host may want of a login, see Want            *)
  Secrets,      (* passwords, typed or stored                              *)
  Refs,         (* names of credentials                                    *)
  NoSecret, NoRef,
  Stored,       (* what a credential of the vault may hold, see Secret      *)
  FileAtStart,  (* the known_hosts files there may be, see KnownHosts      *)
  MaxChanges    (* bound: edits of the vault, re-keyed hosts               *)

(* A password, its password by keyboard-interactive, or a one-time code.   *)
Want == {"password", "asks", "code"}

(* A private key: the host takes it, does not, or the key does not load.   *)
Identities == {"none", "opens", "refused", "unreadable"}

(* What a credential gives a dial: the one thing its auth type names.      *)
Secret == [password : Secrets \cup {NoSecret}, identity : Identities]
Nothing == [password |-> NoSecret, identity |-> "none"]

(* The fields of openRequest that matter here.  usable: a host is named,   *)
(* or a port and a mode that exists.                                       *)
Request == [transport : {"ssh", "telnet", "serial"}, usable : BOOLEAN, log : BOOLEAN,
            host : Hosts, jumpHost : Hosts,
            policy : {"strict", "tofu", "insecure"}, jump : BOOLEAN,
            password : Secrets \cup {NoSecret}, credential : Refs \cup {NoRef},
            jumpPassword : Secrets \cup {NoSecret}, jumpCredential : Refs \cup {NoRef},
            identity : Identities, jumpIdentity : Identities,
            answer : BOOLEAN,      (* the KI question has been answered    *)
            legacy : BOOLEAN]

(* A line of known_hosts: whom it pins, whether it parses, and whether a    *)
(* comment follows the key.  ended: the file is empty or ends in a newline. *)
Entry == [host : Hosts, key : Keys, readable : BOOLEAN, comment : BOOLEAN]
KnownHosts == [exists : BOOLEAN, entries : Seq(Entry), ended : BOOLEAN]
NoFile == [exists |-> FALSE, entries |-> <<>>, ended |-> TRUE]
EmptyFile == [exists |-> TRUE, entries |-> <<>>, ended |-> TRUE]
Lines(entries) == {entries[n] : n \in DOMAIN entries}
LastLine(entries) == {entries[n] : n \in DOMAIN entries \cap {Len(entries)}}

(* A host presents one key of an algorithm.                                *)
ASSUME DialAssumption ==
  /\ Requests \in [Dials -> (SUBSET Request) \ {{}}] /\ NoSecret \notin Secrets /\ NoRef \notin Refs
  /\ \A f \in FileAtStart : f \in KnownHosts /\ f.exists /\ (f.entries = <<>> => f.ended)
  /\ AtFirst \in Held /\ Held \subseteq SUBSET Keys /\ Algo \in [Keys -> STRING]
  /\ \A held \in Held : \A k, l \in held : Algo[k] = Algo[l] => k = l
  /\ modernHostKeys \in Seq(STRING) /\ legacyHostKeys \in Seq(STRING)
  /\ Secrets # {} /\ Stored \subseteq Secret /\ MaxChanges \in Nat
  /\ \E s \in Stored : s.identity = "none"
  /\ Logins \subseteq [Hosts -> Want]

VARIABLES
  vault,        (* locked, handle closed; per credential: secret, enabled  *)
  file,         (* known_hosts                                             *)
  hostKey,      (* far end: the keys each host holds                       *)
  login,        (* far end: what each host wants                           *)
  opens,        (* far end: the password each host takes                   *)
  stage,        (* where each dial is                                      *)
  cfg,          (* the plan's Config                                       *)
  pins,         (* the lines its host-key callback was built with          *)
  open,         (* connections, channels and the log it has open           *)
  why, text,    (* why it failed; markers its message carries              *)
  hadFile,      (* history: known_hosts existed when the program started   *)
  trusted,      (* history: entries of the file and those accepted into it *)
  exposed,      (* history: the entries that met in one line of the file   *)
  passed,       (* history: per dial, the keys it accepted                 *)
  changes

farVars == <<hostKey, login, opens>>
vars == <<vault, file, farVars, stage, cfg, pins, open, why, text, hadFile, trusted,
          exposed, passed, changes>>

To(d, s) == stage' = [stage EXCEPT ![d] = s]
Shared == UNCHANGED <<vault, farVars, hadFile, changes>>
Files == UNCHANGED <<file, trusted, exposed>>
Verdict == UNCHANGED <<why, text>>

(* What each error path closes, in the function it returns from, of what   *)
(* that function opened: x/crypto/ssh the connection whose handshake failed *)
(* under dialJump; Dial the bastion's client when its channel fails, and    *)
(* connection and client when the target's handshake does; NewShell the    *)
(* channel, and OpenShell the client; Connect a port with no read timeout;  *)
(* and runDial the log, through discard.                                   *)
jumpClientClose(d) == IF cfg[d].jump THEN {"bastion"} ELSE {}
handshakeKeepsBastion(d) == {"target"}                                     (* Fault *)
handshakeCloses(d) == {"target"} \cup jumpClientClose(d)
clientClose(d) == {"target"} \cup jumpClientClose(d)
discard == {"log"}
ClosedOnError(d) ==
  discard \cup CASE stage[d] \in {"jumpKey", "jumpLogin"} -> {"bastion"}
                 [] stage[d] = "tunnelling" -> jumpClientClose(d)
                 [] stage[d] \in {"key", "login"} -> handshakeCloses(d)
                 [] stage[d] = "shell" -> clientClose(d)
                 [] stage[d] = "pty" -> {"shell"} \cup clientClose(d)
                 [] stage[d] = "setting" -> {"target"}
                 [] OTHER -> {}

(* The dial returns an error.                                              *)
Fail(d, reason, markers) ==
  /\ To(d, "failed") /\ open' = [open EXCEPT ![d] = @ \ ClosedOnError(d)]
  /\ why' = [why EXCEPT ![d] = reason] /\ text' = [text EXCEPT ![d] = markers]

------------------------------------------------------------------------------
(* Credentials.                                                            *)

(* Source.Resolve; a credential that is gone holds nothing.                *)
Resolvable(ref) == ~vault.locked /\ vault.creds[ref].enabled /\ vault.creds[ref].secret # Nothing

(* applySecret: the reference supplies what was left blank.                *)
Fill(typed, ref) == IF typed # NoSecret \/ ref = NoRef THEN typed ELSE vault.creds[ref].secret.password
FillKey(typed, ref) == IF typed # "none" \/ ref = NoRef THEN typed ELSE vault.creds[ref].secret.identity

RefsOf(c) == ({c.credential} \cup (IF c.jump THEN {c.jumpCredential} ELSE {})) \ {NoRef}
WithJump(c) ==
  IF c.jump THEN [c EXCEPT !.jumpPassword = Fill(@, c.jumpCredential), !.jumpIdentity = FillKey(@, c.jumpCredential)]
            ELSE c
WithTarget(c) == [c EXCEPT !.password = Fill(@, c.credential), !.identity = FillKey(@, c.credential)]

(* CheckCredentials resolves into a copy of the Config; the jump host's    *)
(* part is a pointer the copy shares, and keeps what it got.               *)
Checked(req) == WithJump(req)
vlookup == ~vault.closed
buildConfig(req) == (RefsOf(req) # {} => vlookup) /\ (req.jumpCredential # NoRef => req.jump)
prepareSSH(req) == req.usable /\ buildConfig(req) /\ \A r \in RefsOf(req) : Resolvable(r)

(* A login or a bastion that the transport cannot honour is refused.       *)
Plain(req) == ~req.jump /\ req.credential = NoRef /\ req.jumpCredential = NoRef
Validate(req) == req.usable
prepareTelnet(req) == req.usable /\ Plain(req)
prepareSerial(req) == Validate(req) /\ Plain(req)
prepare(req) == CASE req.transport = "ssh"    -> prepareSSH(req)
                  [] req.transport = "telnet" -> prepareTelnet(req)
                  [] req.transport = "serial" -> prepareSerial(req)

(* The plan's log, open before anything else is.                           *)
OpenLog == {"log"}
openLog(req) == IF req.log THEN OpenLog ELSE {}

FirstStage(req) == CASE req.transport = "ssh"    -> "resolving"
                     [] req.transport = "telnet" -> "dialling"
                     [] req.transport = "serial" -> "opening"

omegassh_open(d) ==
  /\ stage[d] = "none"
  /\ \E req \in Requests[d] :
       \/ /\ prepare(req) /\ To(d, FirstStage(req))
          /\ open' = [open EXCEPT ![d] = openLog(req)]
          /\ cfg' = [cfg EXCEPT ![d] = Checked(req)]
       (* the request is not in order, or its log cannot be opened         *)
       \/ To(d, "refused") /\ UNCHANGED <<cfg, open>>
       (* newHandle fails                                                  *)
       \/ /\ prepare(req) /\ To(d, "refused") /\ UNCHANGED cfg
          /\ open' = [open EXCEPT ![d] = openLog(req) \ discard]
  /\ UNCHANGED <<pins, passed>> /\ Verdict /\ Shared /\ Files

(* Telnet: a TCP connect under its timeout, and its first offers.          *)
connectTelnet(d) ==
  /\ stage[d] = "dialling"
  /\ \/ To(d, "up") /\ open' = [open EXCEPT ![d] = @ \cup {"target"}] /\ Verdict
     \/ Fail(d, "unreachable", {})
  /\ UNCHANGED <<cfg, pins, passed>> /\ Shared /\ Files

(* Serial: the port opens, and then takes a read timeout or is given back. *)
openPort(d) ==
  /\ stage[d] = "opening"
  /\ \/ To(d, "setting") /\ open' = [open EXCEPT ![d] = @ \cup {"target"}] /\ Verdict
     \/ Fail(d, "unreachable", {})
  /\ UNCHANGED <<cfg, pins, passed>> /\ Shared /\ Files

setReadTimeout(d) ==
  /\ stage[d] = "setting"
  /\ \/ To(d, "up") /\ Verdict /\ UNCHANGED open
     \/ Fail(d, "unreachable", {})
  /\ UNCHANGED <<cfg, pins, passed>> /\ Shared /\ Files

(* The rest of Dial that is local: resolveSecrets, again, and              *)
(* buildAuthMethods, which loads the target's key.                         *)
publicKeyAuth(c) == c.identity # "unreadable"
resolveSecrets(d) ==
  /\ stage[d] = "resolving"
  /\ \/ /\ \A r \in RefsOf(cfg[d]) : Resolvable(r)
        /\ cfg' = [cfg EXCEPT ![d] = WithJump(WithTarget(@))]
        /\ \/ /\ publicKeyAuth(cfg'[d])
              /\ To(d, IF cfg[d].policy = "insecure" THEN "connecting" ELSE "looking")
              /\ Verdict /\ UNCHANGED open
           \/ ~publicKeyAuth(cfg'[d]) /\ Fail(d, "key", {})
     \/ /\ \E r \in RefsOf(cfg[d]) : ~Resolvable(r)
        /\ Fail(d, "credential", {}) /\ UNCHANGED cfg
  /\ UNCHANGED <<pins, passed>> /\ Shared /\ Files

------------------------------------------------------------------------------
(* known_hosts: buildHostKeyCallback.                                      *)

statKnownHosts(d) ==
  /\ stage[d] = "looking"
  /\ To(d, IF file.exists THEN "loading" ELSE "creating")
  /\ UNCHANGED <<cfg, pins, open, passed>> /\ Verdict /\ Shared /\ Files

(* os.WriteFile of nothing: it creates the file, and empties one that has  *)
(* appeared since.                                                         *)
createKnownHosts(d) ==
  /\ stage[d] = "creating"
  /\ \/ file' = EmptyFile /\ To(d, "loading") /\ Verdict /\ UNCHANGED open
     \/ Fail(d, "file", {}) /\ UNCHANGED file
  /\ UNCHANGED <<cfg, pins, passed, trusted, exposed>> /\ Shared

(* usableKnownHosts and knownhosts.New, of the file as it is now.          *)
loadKnownHosts(d) ==
  /\ stage[d] = "loading"
  /\ \/ /\ pins' = [pins EXCEPT ![d] = file.entries] /\ To(d, "connecting")
        /\ Verdict /\ UNCHANGED open
     \/ Fail(d, "file", {}) /\ UNCHANGED pins
  /\ UNCHANGED <<cfg, passed>> /\ Shared /\ Files

------------------------------------------------------------------------------
(* The network.                                                            *)

HopOf(d) == IF cfg[d].jump /\ stage[d] \in {"connecting", "jumpKey", "jumpLogin", "tunnelling"}
            THEN "bastion" ELSE "target"
HostOf(d) == IF HopOf(d) = "bastion" THEN cfg[d].jumpHost ELSE cfg[d].host

(* dialJump's local part: a key that does not load, or nothing to try.     *)
NoMethods(d) ==
  cfg[d].jump /\ (cfg[d].jumpIdentity = "unreadable" \/ <<cfg[d].jumpPassword, cfg[d].jumpIdentity>> = <<NoSecret, "none">>)

(* TCP to the first hop, with the timeout of the configuration.            *)
connect(d) ==
  /\ stage[d] = "connecting"
  /\ \/ /\ ~NoMethods(d)
        /\ To(d, IF cfg[d].jump THEN "jumpKey" ELSE "key")
        /\ open' = [open EXCEPT ![d] = @ \cup {HopOf(d)}] /\ Verdict
     \/ ~NoMethods(d) /\ Fail(d, "unreachable", {})
     \/ NoMethods(d) /\ Fail(d, "no methods", {})
  /\ UNCHANGED <<cfg, pins, passed>> /\ Shared /\ Files

(* The target, through the bastion's channel.                              *)
tunnel(d) ==
  /\ stage[d] = "tunnelling"
  /\ \/ To(d, "key") /\ open' = [open EXCEPT ![d] = @ \cup {"target"}] /\ Verdict
     \/ Fail(d, "unreachable", {})
  /\ UNCHANGED <<cfg, pins, passed>> /\ Shared /\ Files

AfterKey(s) == IF s = "jumpKey" THEN "jumpLogin" ELSE "login"
Accept(d, e) == /\ To(d, AfterKey(stage[d])) /\ passed' = [passed EXCEPT ![d] = @ \cup {e}]
                /\ Verdict /\ UNCHANGED open

(* The order of preference, the same on every path: of the algorithms a     *)
(* host has a key for, the first decides which key it presents.            *)
hostKeyAlgosLegacyFirst(legacy) ==                                         (* Fault *)
  IF legacy THEN legacyHostKeys \o modernHostKeys ELSE modernHostKeys
hostKeyAlgos(legacy) == IF legacy THEN modernHostKeys \o legacyHostKeys ELSE modernHostKeys
Presented(d) ==
  LET order  == hostKeyAlgos(cfg[d].legacy)
      held   == hostKey[HostOf(d)]
      shared == {n \in DOMAIN order : \E k \in held : Algo[k] = order[n]}
  IN  {k \in held : \E n \in shared : Algo[k] = order[n] /\ \A m \in shared : n <= m}

(* What the callback knows of a host: a line that does not parse pins       *)
(* nobody, and of each algorithm the first line counts.                    *)
Usable(d, host) == {n \in DOMAIN pins[d] : pins[d][n].readable /\ pins[d][n].host = host}
PinsOf(d, host) ==
  {pins[d][n].key : n \in {n \in Usable(d, host) :
     \A m \in Usable(d, host) : m < n => Algo[pins[d][m].key] # Algo[pins[d][n].key]}}

AnyNewKey(d, e) == e.key \notin PinsOf(d, e.host)                         (* Fault *)

(* The line for a key that a host presents.                                *)
Line(d, key) == [host |-> HostOf(d), key |-> key, readable |-> TRUE, comment |-> FALSE]

(* The file is opened to append, and a line written with its newline.  Of a *)
(* last line that had none the new one becomes the rest: of its comment, or *)
(* of a key that no longer parses.                                         *)
Joined(last) == IF last.comment THEN last ELSE [last EXCEPT !.readable = FALSE]
Overwritten(e) == [exists |-> TRUE, ended |-> TRUE, entries |-> <<e>>]     (* Fault *)
Appended(e) ==
  [exists  |-> TRUE, ended |-> TRUE,
   entries |-> IF file.ended THEN Append(file.entries, e)
               ELSE [file.entries EXCEPT ![Len(file.entries)] = Joined(@)]]

(* First contact: no entry at all; another key is a mismatch.              *)
FirstContact(d, e) == PinsOf(d, e.host) = {}

(* The host-key callback, at the handshake of either hop.  Under TOFU the  *)
(* C surface accepts every first contact; the entry is appended, or the    *)
(* append fails and the key is trusted for this session only.              *)
checkHostKey(d) ==
  /\ stage[d] \in {"jumpKey", "key"}
  /\ \E k \in Presented(d) :
     LET e == Line(d, k)
     IN  \/ /\ cfg[d].policy = "insecure" \/ e.key \in PinsOf(d, e.host)
            /\ Accept(d, e) /\ Files
         \/ /\ cfg[d].policy = "tofu" /\ FirstContact(d, e)
            /\ Accept(d, e)
            /\ \/ /\ file' = Appended(e) /\ trusted' = trusted \cup {e}
                  /\ exposed' = IF file.ended THEN exposed ELSE exposed \cup {e}
               \/ Files
         \/ /\ cfg[d].policy = "strict" /\ FirstContact(d, e)
            /\ Fail(d, "unknown key", {"unknown host key for"}) /\ UNCHANGED passed /\ Files
         \/ /\ cfg[d].policy # "insecure" /\ ~FirstContact(d, e) /\ e.key \notin PinsOf(d, e.host)
            /\ Fail(d, "mismatch", {"host key verification failed for"}) /\ UNCHANGED passed /\ Files
  /\ UNCHANGED <<cfg, pins>> /\ Shared

(* No algorithm in common: nothing is presented, and nothing is asked.     *)
noCommonAlgorithm(d) ==
  /\ stage[d] \in {"jumpKey", "key"} /\ Presented(d) = {}
  /\ Fail(d, "algorithms", {})
  /\ UNCHANGED <<cfg, pins, passed>> /\ Shared /\ Files

(* What the library says of a login that failed: wrapped as an             *)
(* authentication failure on the target only, and only when no marker      *)
(* names a question of its own (IsAuthFailure).                            *)
IsAuthFailureLoosely(markers) == "unable to authenticate" \in markers        (* Fault *)
IsAuthFailure(markers) ==
  "unable to authenticate" \in markers
  /\ markers \cap {"unknown host key for", "keyboard-interactive prompt", "host key verification failed for"} = {}
Labelled(d, markers) ==
  IF stage[d] = "login" /\ IsAuthFailure(markers)
  THEN markers \cup {"authentication failed for"} ELSE markers

(* The chain of the target: key, password, keyboard-interactive, which     *)
(* answers a question about a password by itself; the bastion's has no     *)
(* keyboard-interactive.  A host that wants a code takes nothing else.     *)
Given(d) == IF stage[d] = "login" THEN cfg[d].password ELSE cfg[d].jumpPassword
Key(d) == IF stage[d] = "login" THEN cfg[d].identity ELSE cfg[d].jumpIdentity
Enters(d) ==
  LET host == HostOf(d)
  IN  \/ login[host] # "code" /\ Key(d) = "opens"
      \/ login[host] = "password" /\ Given(d) = opens[host]
      \/ stage[d] = "login" /\ login[host] = "asks" /\ Given(d) = opens[host]
      \/ stage[d] = "login" /\ login[host] = "code" /\ cfg[d].answer
(* A question nothing given answers: it goes up, for the next dial.        *)
Asked(d) ==
  /\ stage[d] = "login" /\ ~Enters(d)
  /\ \/ login[HostOf(d)] = "code"
     \/ login[HostOf(d)] = "asks" /\ Given(d) = NoSecret
KeyboardPrompt == {"keyboard-interactive prompt"}

authenticate(d) ==
  /\ stage[d] \in {"jumpLogin", "login"}
  /\ \/ /\ Enters(d) /\ To(d, IF stage[d] = "login" THEN "shell" ELSE "tunnelling")
        /\ Verdict /\ UNCHANGED open
     \/ /\ ~Enters(d) \/ login[HostOf(d)] = "code"        (* a code may be stale *)
        /\ ~Asked(d)
        /\ Fail(d, IF stage[d] = "login" THEN "rejected" ELSE "jump rejected", Labelled(d, {"unable to authenticate"}))
     \/ /\ Asked(d)
        /\ \E also \in SUBSET {"unable to authenticate"} :
             Fail(d, "question", Labelled(d, also \cup KeyboardPrompt))
  /\ UNCHANGED <<cfg, pins, passed>> /\ Shared /\ Files

(* What the tab reads in a failure's text, wherever the marker stands in    *)
(* it; the dialogs it may put on the strength of that.                     *)
parseHostKeyError(markers) == "unknown host key for" \in markers
parseKeyboardPrompt(markers) == "keyboard-interactive prompt" \in markers
isAuthFailure(markers) == "authentication failed for" \in markers
Dialogs(markers) == (IF parseHostKeyError(markers) THEN {"fingerprint"} ELSE {})
               \cup (IF parseKeyboardPrompt(markers) THEN {"question"} ELSE {})
               \cup (IF isAuthFailure(markers) THEN {"credentials"} ELSE {})

(* The deadline set around the target's handshake.  It binds a TCP         *)
(* connection only: a channel through a bastion takes no deadline.         *)
DeadlineCleared == {"key"}                                                 (* Fault *)
DeadlineStages == {"key", "login"}
timeout(d) ==
  /\ stage[d] \in DeadlineStages /\ ~cfg[d].jump /\ Fail(d, "silent", {})
  /\ UNCHANGED <<cfg, pins, passed>> /\ Shared /\ Files
(* The far end goes away instead of answering.                             *)
hangUp(d) ==
  /\ stage[d] \in {"jumpKey", "jumpLogin", "tunnelling", "key", "login", "shell", "pty"}
  /\ Fail(d, "silent", {})
  /\ UNCHANGED <<cfg, pins, passed>> /\ Shared /\ Files

(* NewShell: the channel, then the pty and the shell on it.                *)
newChannel(d) ==
  /\ stage[d] = "shell"
  /\ \/ To(d, "pty") /\ open' = [open EXCEPT ![d] = @ \cup {"shell"}] /\ Verdict
     \/ Fail(d, "shell", {})
  /\ UNCHANGED <<cfg, pins, passed>> /\ Shared /\ Files

newShell(d) ==
  /\ stage[d] = "pty"
  /\ \/ To(d, "up") /\ Verdict /\ UNCHANGED open
     \/ Fail(d, "shell", {})
  /\ UNCHANGED <<cfg, pins, passed>> /\ Shared /\ Files

(* Session.Close of a session that owns its connection, or a backend's;    *)
(* finish closes the log.                                                  *)
Closes(d) == {"log"} \cup IF cfg[d].transport = "ssh" THEN {"shell"} \cup clientClose(d) ELSE {"target"}
close(d) ==
  /\ stage[d] = "up" /\ To(d, "closed") /\ open' = [open EXCEPT ![d] = @ \ Closes(d)]
  /\ UNCHANGED <<cfg, pins, passed>> /\ Verdict /\ Shared /\ Files

------------------------------------------------------------------------------
(* Around the dials: the vault is locked, closed and edited, through its   *)
(* own handle; a host is re-keyed.                                         *)

Edited == changes < MaxChanges /\ changes' = changes + 1
          /\ UNCHANGED <<file, farVars, stage, cfg, pins, open, why, text, hadFile, trusted, exposed, passed>>

omegassh_vault_lock == ~vault.locked /\ vault' = [vault EXCEPT !.locked = TRUE] /\ Edited
omegassh_vault_unlock == vlookup /\ vault.locked /\ vault' = [vault EXCEPT !.locked = FALSE] /\ Edited
(* It locks the vault under every dial that has borrowed it.               *)
omegassh_vault_close == vlookup /\ vault' = [vault EXCEPT !.closed = TRUE, !.locked = TRUE] /\ Edited

omegassh_vault_store(ref, secret) ==
  vlookup /\ ~vault.locked /\ vault' = [vault EXCEPT !.creds[ref].secret = secret] /\ Edited
omegassh_vault_delete(ref) ==
  vlookup /\ ~vault.locked /\ vault' = [vault EXCEPT !.creds[ref].secret = Nothing] /\ Edited
omegassh_vault_set_disabled(ref) ==
  vlookup /\ ~vault.locked /\ vault' = [vault EXCEPT !.creds[ref].enabled = ~@] /\ Edited

VaultCall ==
  \/ omegassh_vault_lock \/ omegassh_vault_unlock \/ omegassh_vault_close
  \/ \E ref \in Refs : \/ \E secret \in Stored : omegassh_vault_store(ref, secret)
                       \/ omegassh_vault_delete(ref) \/ omegassh_vault_set_disabled(ref)

Rekey ==
  /\ changes < MaxChanges /\ changes' = changes + 1
  /\ \E host \in Hosts, held \in Held : hostKey' = [hostKey EXCEPT ![host] = held]
  /\ UNCHANGED <<vault, file, login, opens, stage, cfg, pins, open, why, text, hadFile, trusted,
                 exposed, passed>>

Init ==
  /\ \E locked \in BOOLEAN :
       vault = [locked |-> locked, closed |-> FALSE,
                creds |-> [r \in Refs |-> [secret |-> CHOOSE s \in Stored : s.identity = "none", enabled |-> TRUE]]]
  /\ file \in {NoFile} \cup FileAtStart
  /\ hadFile = file.exists
  /\ hostKey = [h \in Hosts |-> AtFirst]
  /\ login \in Logins
  /\ opens \in [Hosts -> {CHOOSE s \in Secrets : TRUE}]
  /\ stage = [d \in Dials |-> "none"]
  /\ cfg = [d \in Dials |-> CHOOSE r \in Requests[d] : TRUE]
  /\ pins = [d \in Dials |-> <<>>] /\ open = [d \in Dials |-> {}]
  /\ why = [d \in Dials |-> "none"] /\ text = [d \in Dials |-> {}]
  /\ trusted = Lines(file.entries)
  /\ exposed = IF file.ended THEN {} ELSE LastLine(file.entries)
  /\ passed = [d \in Dials |-> {}] /\ changes = 0

Next ==
  \/ \E d \in Dials :
       \/ omegassh_open(d) \/ connectTelnet(d) \/ openPort(d) \/ setReadTimeout(d)
       \/ resolveSecrets(d)
       \/ statKnownHosts(d) \/ createKnownHosts(d) \/ loadKnownHosts(d)
       \/ connect(d) \/ tunnel(d) \/ checkHostKey(d) \/ noCommonAlgorithm(d)
       \/ authenticate(d)
       \/ timeout(d) \/ hangUp(d) \/ newChannel(d) \/ newShell(d) \/ close(d)
  \/ VaultCall \/ Rekey

Spec == Init /\ [][Next]_vars
(* The goroutine runs, connects fail by themselves after their timeout and *)
(* deadlines fire; no far end owes an answer.                              *)
Fairness == \A d \in Dials :
  /\ WF_vars(connectTelnet(d)) /\ WF_vars(openPort(d)) /\ WF_vars(setReadTimeout(d))
  /\ WF_vars(resolveSecrets(d)) /\ WF_vars(statKnownHosts(d))
  /\ WF_vars(createKnownHosts(d)) /\ WF_vars(loadKnownHosts(d))
  /\ WF_vars(connect(d)) /\ WF_vars(timeout(d))
FairSpec == Spec /\ Fairness
------------------------------------------------------------------------------
(* Properties.                                                             *)

(* Whatever step fails, on whichever transport, what the error paths close  *)
(* one by one is all the dial had open, its log included; a session that is *)
(* up holds its whole path, and a target behind a bastion is reached       *)
(* through it or not at all; closing the session takes bastion and log.    *)
Path(c) == {"target"} \cup (IF c.transport = "ssh" THEN {"shell"} ELSE {})
                      \cup (IF c.jump THEN {"bastion"} ELSE {})
                      \cup (IF c.log THEN {"log"} ELSE {})
NothingLeaks ==
  \A d \in Dials :
    /\ stage[d] \in {"failed", "refused", "closed"} => open[d] = {}
    /\ stage[d] = "up" => open[d] = Path(cfg[d])
    /\ cfg[d].jump /\ "target" \in open[d] => "bastion" \in open[d]

(* No policy but insecure passes a key that contradicts what the dial      *)
(* found pinned: TOFU never applies to a mismatch, on either hop.          *)
PinsHold ==
  \A d \in Dials : cfg[d].policy # "insecure" =>
    \A e \in passed[d] : PinsOf(d, e.host) = {} \/ e.key \in PinsOf(d, e.host)

(* Every failure puts the one question that can help, and no other, in     *)
(* front of the person: the fingerprint, the far end's question, or the    *)
(* credentials of the target; a mismatch, a bastion's refusal, a timeout   *)
(* or a bad reference none (autherror, kbdprompt and host-key dialogs).    *)
RightQuestion ==
  \A d \in Dials : stage[d] = "failed" =>
    Dialogs(text[d]) =
      CASE why[d] = "unknown key" -> {"fingerprint"}
        [] why[d] = "question" -> {"question"}
        [] why[d] = "rejected" -> {"credentials"}
        [] OTHER -> {}

(* "accepted keys persist", and whatever else the file held, readable or   *)
(* not: several dials append to one known_hosts and none takes anything    *)
(* out of it, once there is a file.  A file whose last line was not ended  *)
(* costs two entries at most, that line's and the first one accepted.      *)
PinsPersist ==
  hadFile => /\ trusted \ exposed \subseteq Lines(file.entries)
             /\ \A a, b, c \in exposed : a = b \/ b = c \/ a = c

(* A mismatch is news of the host, never of the dial: while no host was     *)
(* re-keyed, and nothing but these dials wrote known_hosts, none is refused *)
(* its key, whichever path and algorithms it used (algorithms.go).         *)
MismatchMeansChange ==
  changes = 0 /\ ~hadFile => \A d \in Dials : why[d] # "mismatch"

(* What known_hosts says binds every dial, stays said, and is not turned    *)
(* against a host that never changed.                                      *)
TrustIsKept == PinsHold /\ PinsPersist /\ MismatchMeansChange

(* Without a bastion a dial gets to a shell request or to a verdict,       *)
(* whatever the far end does: each wait has a deadline.                    *)
DirectDialDecides ==
  \A d \in Dials :
    (stage[d] \in {"resolving", "dialling", "opening"} /\ ~cfg[d].jump) ~> (stage[d] \in {"shell", "up", "failed", "closed"})

(* "a socket and a log file can outlive their tab by up to                 *)
(* timeout_seconds": every dial is over at some time (capi/dial.go).       *)
EveryDialEnds ==
  \A d \in Dials : (stage[d] \in {"resolving", "dialling", "opening"}) ~> (stage[d] \in {"up", "failed", "closed"})
=============================================================================
