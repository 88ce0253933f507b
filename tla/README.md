# Verification of OmegaSSH-Qt

TLA+ models of the parts of this repository where threads, callbacks, dialogs,
failures and crashes meet, checked with TLC on small instances and, for nearly all of
the safety properties, proved with TLAPS for every instance. Every definition is
translated from the source; `PROJECT.json` names the lines of each.

## 1. The system

OmegaSSH-Qt is a terminal client. A Go library opens SSH, telnet and serial
sessions and is exported as a C interface; a Qt class turns a C handle into
signals; the application puts each session in a tab, keeps credentials in an
encrypted vault and sessions in a store.

| Component | Where | State it keeps | Operations |
| --- | --- | --- | --- |
| Session handle | `capi/capi.go`, `events.go`, `dial.go`, `notify_*.go` | recorded state, error, verdict flag, queue of 64 events, geometry to apply, the filed session, whether closed and reaped, a pipe | `open` (dials on a goroutine), `adopt`, `publish`, `failDial`, `onEvent`, `pump`, `read`, `write`, `resize`, `next_event`, `alive`, `close` |
| Session life cycle | `transport/session.go`, `logtap.go` | session state, handler, closing flag, once, log | `finish`, `setState`, `emitError`, `Close`, the tap on the output, the bridge goroutine of telnet and serial |
| Output buffer | `sshcore/buffer.go` | bytes, end of file, closed, callback, `wakeMu` | `Pump`, `Drain`, `notify`, `Close` |
| Telnet | `telnetx/telnet.go` | filter state, options on both sides, size, socket | `Connect`, `Read`, `Write`, `Resize`, `Close`, negotiation |
| Serial | `serialx/` | port | `Connect`, `Read`, `Write`, `Close` |
| Open and prepare | `capi/open.go` | none | checks a request, looks up credentials, opens the log, returns a plan |
| SSH dial | `sshcore/dial.go`, `auth.go`, `hostkey.go`, `algorithms.go`, `kbdprompt.go`, `secrets.go` | `known_hosts` | resolve credentials, dial a bastion and a target, check the host key, authenticate, open a shell; failures that are questions |
| Qt wrapper | `qt/omegasshsession.cpp` | handle, notifier, state, error, exit code | `start`, `onNotifyActivated`, `drain`, `write`, `resize`, `terminate` |
| Vault | `vault/*.go`, `capi/vault.go` | key, salt, list of credentials, file, `v.mu` | create, unlock, lock, change master, add, store, rename, edit, delete, default, disable, stamp |
| Keyring | `vault/keyring` | one master per vault path | set, get, clear |
| Terminal tab | `app/terminaltab.cpp` | configuration, answers, prompt counters, suppression flag, error, overlay | start, reconnect, cancel, three prompts and their retries |
| Capture, paste, anti-idle | `app/capturewriter.cpp`, `pastequeue.cpp`, `antiidle.cpp`, half of `terminaltab.cpp` | escape-sequence state, queue, bracket, timers | paste, send next piece, cancel, tick, write, start, stop |
| Window | `app/mainwindow.cpp`, `livesessions.cpp` | tabs, their texts and links, the settings in force, the pill of the vault | open, close, prompts, vault dialogs, settings, themes, restart |
| Session store and tree | `sessions/*.cpp`, `app/sessiontree*.cpp`, `sessioneditordialog.cpp`, `sessiontransfer.cpp` | two SQLite tables; a tree, a filter and an editor per window | add, edit, move, delete, drag, expand, filter, import, export, migrate |
| Settings | `app/settings.cpp`, `effectiveconfig.cpp` | two files, layers of options | load, save, resolve |
| Other dialogs, chrome, themes | rest of `app/` | presentation only | |

How they interact:

    window --start, prompts--> tab --start/terminate--> Qt wrapper --C calls--> handle
    window <--finished, restarted-- tab <--signals-- Qt wrapper <--one pipe-- handle
    handle = dial goroutine + pump + (telnet, serial) bridge + the caller's thread
    dial --Resolve, MarkUsed--> vault <--C calls-- window and dialogs --> keyring
    dials --append, read--> known_hosts
    window --rows--> store <--rows-- windows of other processes
    window --links--> tree;  window --settings, pins--> tabs

What is hard, and what should hold there:

* **The handle.** Four threads share it under six locks; the end of a session is
  noticed by whichever is first. It should tell one story, with its reason, once;
  leave no session open with no owner; never wake a notifier that is closed.
* **The wrapper.** One level-triggered wake stands for bytes, events and the end.
  No wake may be lost, bytes stay in order and come before `finished`, and a
  widget at rest agrees with the library.
* **Telnet.** Bytes arrive cut anywhere, options are answered by the reader while
  other threads write and resize. Negotiation must end in agreement and no byte of
  the text may be lost, added or taken for a command.
* **The dial.** A dozen steps may each fail, on either hop; several dials share
  `known_hosts` and the vault. Whatever fails, all that was opened is closed; a pin
  is never overruled; the failure must raise the one question that can help.
* **The vault.** Every edit rewrites the file; dials edit too. A failed
  operation or a crash at any step must leave a whole file that opens with the
  master a person believes in, and loses nothing reported saved.
* **The tab.** Three failures are questions; a prompt is deferred to a timer, and
  everything about the old session may still arrive after the new one started. No
  tab may spin for ever, ask without limit, or submit a used one-time answer. A
  paced paste, a capture and an idle clock outlive the connection under them.
* **The window.** Dialogs run their own event loop, so tabs move while one is up;
  settings, rows and pins are layered; tabs are destroyed later than they close.
* **The store.** An editor writes back a copy taken earlier, a drag renumbers row by
  row, an import stops half-way, and a second window writes the same file.

`PROJECT.json` lists every hazard at its line, with the properties that would
catch it. Five have none: a resize while the session is being adopted
(`capi/dial.go:171`) and an edit whose save failed (`vault/vault.go:575`), which the
code loses, see section 6; an edit that comes between the read and the lock of a change
of master (`vault/vault.go:410`), for which it takes a second calling thread; two
applications on one vault file (`vault/vault.go:797`), which one modelled process cannot
show; and the unlocked write of the option map (`telnetx/telnet.go:509`), of which the
model has the outcome, a stopped process, as one more behaviour.

## 2. Modules

| Module | Models | Extends |
| --- | --- | --- |
| `SessionHandle` | one handle, all its goroutines, its session, buffer and link | |
| `SessionPromise` | abstract: what `omegasshsession.h` promises an application | |
| `QtSession` | the Qt wrapper, its GUI thread interleaved with the library | `SessionHandle` |
| `Telnet` | one telnet connection and a far end that keeps to RFC 854 | |
| `Dial` | dials side by side from `omegassh_open` to the shell, with `known_hosts` and a vault | |
| `Vault` | the vault, its file, the keyring, dials that stamp credentials | |
| `TerminalTab` | one tab, its prompts and re-dials, its text in the window | |
| `TabIo` | what a tab sends by itself and what it writes down | |
| `Desk` | the window: tabs, links, settings, themes, vault menu, restart | |
| `SessionTree` | the store's tables and the windows that have them open | |
| `SessionHandle_proofs` | theorems of the handle and of the wrapper | `QtSession`, `TLAPS` |
| `Vault_proofs`, `Dial_proofs`, `TerminalTab_proofs`, `Desk_proofs`, `TabIo_proofs`, `Telnet_proofs`, `SessionTree_proofs` | theorems | the module, `TLAPS` |
| `MC*` | small sets for TLC | the module |

The modules meet where the code does. `QtSession` is the composition of the wrapper
with the whole library below it. `Dial` opens what `SessionHandle` adopts, and
abstracts the vault to what a dial reads of it. `TerminalTab` abstracts a dial to its
outcomes, `Dial!Dialogs` says which outcome a failure text becomes; `TabIo` and
`Desk` abstract a tab to its link. `Desk` takes rows as given, `SessionTree` keeps
them. Definitions marked `\* fault` are plausible mistakes, used by the mutants in
`PROJECT.json` and by nothing else.

### SessionHandle

An action is one critical section, or one call no other thread can see half-done.
`pc[t]` is the place of a thread: `dial` (`runDial`, `adopt`), `pump`, `bridge`
and `caller`. Two windows are modelled apart from `pc` because several threads
pass through them: `poke[t]` (`handleState.poke`, from the decision to wake to the
write under `notifyMu`) and `wake` (`OutputBuffer.notify`, which copies the
callback, unlocks, and calls it). `fin` is a run of `base.finish`, with its
separate emissions of the error and of the state. The pipe is the flag
`readable`. Output is a sequence of numbered chunks, so order and loss are
visible; which bytes they hold is left out. `err` keeps only why: a failed write
or the reason of the end. A size is the number of the `omegassh_resize` call that
asked for it. `omegassh_resize` and the write that succeeds are single steps.

### QtSession

`gui` is the place of the GUI thread inside `start`, `drain`, `write`, `terminate`
and the destructor; each C call is one step, so the library moves between any two.
`readable` is cleared by `drainNotify` before anything is read, as in the code.
`KeepsPromise` says that `QtSession` implements `SessionPromise` under the mapping
at the end of the module: output arrives in order, the session ends once, by
itself only after everything has been delivered, or because it was told to, and
the end always comes. `Safety` of the promise is the part without "always comes".

### Telnet

The reader filters one byte, or answers one command in the steps of the code: it
decides, records what it declares, and writes. `caller` is a thread inside `Resize`,
which stores the size, reads `localWill` and then writes; the reader writes that map
without the lock, and when the two meet the Go runtime may stop the process
(`crashed`). Reads may cut the stream anywhere: the filter's state (`state`,
`sbOpt`, `sbBuf`, `prevCR`) is carried in variables. A frame is what one
`conn.Write` sends. `crlf` is whether newlines are translated (`WithCRLF`): `Connect`
takes either. The far end answers by RFC 854 and may offer, retract and repeat
options at will, those the program refuses too, but speaks first about an option only
when it changes it or repeats what it said. `again` is history: the options it took up
once more after taking them back. `DataOf` is the reference: a recursive function that reads a whole stream,
item by item (`Carries` is what an item gives, `Following` what comes after it), and
`BareCR` what the end of a line stands for.

### Dial

An action is one step of a dial's goroutine: `omegassh_open` (with `prepare`, which
runs on the caller's thread, looks credentials up and opens the log), the three
stages about `known_hosts` (stat, create, load), a connect, the tunnel through the
bastion, the host-key check, the login, the session's channel, the pty and shell on it.
An error path closes what the function it returns from closes in the code, and nothing
else (`ClosedOnError`): the bastion's connection under `dialJump`, the bastion's client
when its channel or the target's handshake fails, the shell's channel in `NewShell`, the
client in `OpenShell`, a serial port without its read timeout, the log in `runDial`.
`known_hosts` is a sequence of lines that may not end in a newline: `Appended` writes
line and newline behind whatever the last byte is, so that a last line without one takes
the new line into its comment, or into a key that no longer parses. `createKnownHosts`
truncates, as `os.WriteFile` does. A host is an address: one may be the bastion of one
dial and the target of another, or be reached both directly and through a bastion. It
holds a set of keys, and which one a dial is shown depends on the order of algorithms
it offers (`Presented`). The vault may be locked,
edited or closed between any two steps. `text` holds the markers a message carries,
and `Dialogs` is what the application reads out of them. The far end chooses what a
login wants (a password, the same by keyboard-interactive, a one-time code), refuses,
is re-keyed or says nothing. `hadFile`, `trusted`, `exposed` (the entries that met in
one line) and `passed` are history.

### Vault

`pc` and `job` are a call in progress. An action is one critical section of
`v.mu`, one file operation of `saveLocked` (open, write, harden, rename), or one
read made outside the lock: `Unlock` and `ChangeMasterPassword` read the file
before they lock, `omegassh_vault_store` and `_rename` read the record under one
lock and write it under another. `Crash` may come between any two steps and keeps
only the disk and the keyring. `SaveFails` is a failure of any file operation:
the code returns an error and **leaves memory changed**, and so does the model. A
failed `ChangeMasterPassword` leaves the new key in memory, and a later stamp
then commits it. A key is the master it derives from. A name is its trimmed,
case-folded form. `private` is set by `Harden` (the mode argument of `WriteFile`
is advisory on Windows). `stored` and `told` are history: what was reported saved
and which master was last reported in force. `Unlock` is called only on a locked
vault and `ChangeMasterPassword` only on an unlocked one, as the application does
(`vault.go:435-442` would let a locked vault change its master too); ids are never issued twice; the keyring is
available and enabled.

### TerminalTab

Everything runs on the GUI thread, so an action is one delivery of the event loop
with all the slots it calls. Slots nest (`start` emits `stateChanged`, which may
offer a prompt); operators on the record `tab` stand for them. `lib` and `news` are
the dial and what it has recorded and no drain has delivered. `StartsDial` covers
dials that have moved on, or ended, before `start()` reads their state. A prompt is
offered (`Offer`), fires from its zero timer (`DeferredPrompt`) and is answered or
given up. Dialogs are modal and may be stacked, since timers run under `exec()`.
`seen` is history and is read by no action. `missed` marks a dial that ended inside
`start()` or that `start()` refused; `crossed` marks a Reconnect clicked between a
failure and its deferred prompt. The two appear in properties only where the code is
known to behave otherwise (section 6).

### TabIo

One action is one event of the GUI thread. The paste confirmation is a nested event
loop, so the network, the timers and the far end's modes move while `asking` is
set. `queue` holds the pieces `PasteQueue::load` cut the text into; `got` is what the
current connection was given, each item labelled with the paste it belongs to. A paste
that goes out at once goes through the widget, which puts the far end's bracket around
it when that is on. `SetRate` may come while a paste is under way; `hurried` is history:
the pastes during which the rate became unlimited.
The stripper of the capture is a state machine over bytes, and a token the far end
prints arrives byte by byte, so a start, a stop or a drop may fall inside it;
`aligned` says that none has. Time is left out: a timer that runs may fire.

### Desk

An action is one delivery of the event loop. While `modal` is set the person can
only answer the dialog, but links move, closed tabs are destroyed and another window
may write a row. `tab` holds the tabs alive, those of the strip and those waiting for
`deleteLater`. Closing a tab ends its session first (`terminate`), and what that says
of the link reaches the registry while the tab is still there (`Ends`, `setLink`). `entries` is the registry; `rank` its order of links. `disk` and
`omegaDisk` are the fields the two files hold: a file that lacks one, or that does
not parse, leaves the default. `Launch` starts the application, with a theme on the
command line or not.

### SessionTree

`rows` are the two tables. Every window has the tree it built at its last reload, a
filter, a modal editor that holds a copy of a row (`dialog`), and the operation it is in
the middle of (`job`). Every statement commits on its own, so other windows may write
between any two. A drop turns the row the user saw, in a list of folders and then
sessions, into a place among the moved one's kind (`dropGap`, `SubIndex`) and those into
a list of rows to rewrite (`dropChanges`); a rename and an expansion rewrite one row. A
row is rewritten in two steps, read whole (`getRow`) and written back whole with the
columns that change (`updateRow`); it may be gone (`rowGone`), or the write may fail
(`rowFails`), and what then happens to the rest depends on the operation. An import
reads every session once (`applyImport`), then goes device by device: it finds or makes
the folder, and leaves, merges or inserts, a merge writing back the copy it took at the
start; a failing write ends it there (`importFails`). What a reload tells the view to
open and close comes back through the signals that record what the user did
(`restoreExpansion`, `Record`), and so does a filter that opens everything. A file of
an older version lacks a column until `migrate` adds it. A name is a number, in
collation order. `seen` is history; of it, `raced` holds rows saved while another window
had them in hand, and `crossed` says that a folder was put under one that had been moved
unseen, or back to where it was when its row was read. The properties name both, since
there the code loses (section 6). Three abstractions: `nextPosition` and the INSERT after
it are one step, and so are reading a session to copy it and adding the copy; two groups
of one name in a row of an import file count as one; and the path of a folder in a cycle
is cut after as many steps as there are folders, where the code takes 64.

## 3. Runs

| Run | Bounds | States | What it shows |
| --- | --- | --- | --- |
| `handle_safety` | three transports, queue of 2, 1 chunk, 1 failed write, no resize | 1.5 million | types; no wake on a closed notifier; the dial's session is filed or shut; the story a handle tells is true (`StoryIsTrue`); a verdict is never revised; nothing is published after close |
| `handle_liveness` | three transports, queue of 2, 1 chunk, 1 resize, no failed write; fair | 0.9 million | close ends pump, bridge, link and log, and the dial as soon as it does not wait for the far end; a dead link is noticed; a size and output that came early are not forgotten |
| `qt_safety` | SSH, queue of 4, 1 chunk, 1 resize, 1 failed write | 4.6 million | no lost wake; the end is told in full (`EndIsTold`) |
| `qt_promise` | SSH, queue of 2, 2 chunks; fair | 0.8 million | refinement of `SessionPromise`, liveness included |
| `vault` | 2 ids, names, secrets and masters, 1 caller and 1 dial, 1 failed operation, 1 crash | 3.8 million | lists sound; file whole and private; what was reported saved is kept; file, keyring and announced master agree (`FileFollows`); secrets change only where a caller supplies them |
| `tab_safety` | 1 question, 2 credential and 2 keyboard prompts, 1 prompt waiting | 164 thousand | no tab waits for nothing; prompts bounded; used answers forgotten; what is shown is so (`TellsTheTruth`) |
| `telnet` | 1 caller, newlines translated or not, size 255 x 40, a text with a bare CR, a CR LF and byte 255, a peer that echoes and takes NAWS and speaks of two options the program refuses, 2 moves | 2.6 million | negotiation does not loop; both ends agree when it is quiet; data intact in both directions |
| `session_tree` | 2 windows, either of which may do anything, 3 ids a table, 2 starting files, 2 operations | 531 thousand | no subtree cut loose but by two moves that cross; rows keep what an operation does not own; expansion is the user's; a drop lands in its gap |
| `desk` | 1 session, 2 tabs, 2 installed themes and a missing one, 4 moves | 1.1 million | row and pill are honest; pins painted; a save reaches every tab; a cancel puts back window and tabs |
| `tab_io` | 2 texts, pieces of 2, confirmation above 1 line, 6 tokens, 4 moves | 0.8 million | a paced paste is the paste; the idle clock runs; the capture is the text |
| `dial` | 2 dials, 2 hosts, 11 requests for one and a TOFU dial through a bastion for the other, 4 `known_hosts` files or none, 3 host keys, 1 change | 1.0 million | nothing leaks; trust is kept; the right question; a direct dial decides |
| `dial_bastion` | 1 dial, the 11 requests | 23 thousand | **violation**: `EveryDialEnds` |

Some properties join what belongs to one question; each conjunct is a definition of
its own with its comment:

* `StoryIsTrue` = `ReasonBeforeVerdict` (the reason is recorded before "failed" is)
  and `StoryIsSettled` (at rest the handle agrees with its session).
* `NothingForgotten` = `RememberedSizeApplied` and `LogIsComplete`.
* `EndIsTold` = `StatusReported`, `UiAgrees` and `ReasonIsShown`.
* `FileFollows` = `FileNeverBehind`, `OpensAsTold` and `KeyringOpens`, while no file
  operation has failed.
* `TellsTheTruth` = `LabelHonest`, `DeadTabIsMarked`, `ReasonOnScreen` and
  `NeedsInputHonest`.
* `DataIntact` = `ReadsIntact` (what the terminal got is what RFC 854 reads in the
  whole stream) and `WritesIntact`.
* `PacingIsInvisible` = `ChunksMakeTheText`, `PacedUndisturbed` and `BracketsPair`.
* `WindowIsHonest` = `RowIsLiveliest` and `PillNeverBoasts`.
* `TrustIsKept` = `PinsHold`, `PinsPersist` and `MismatchMeansChange`.

Why the bounds are enough. The hazards of the handle need one event too many, one
chunk in flight, one write or resize at the wrong moment: a queue of 2 overflows
with 4 to 5 events, and with the queue of 4 of `qt_safety` both the overflow and
the normal case happen. Two chunks are needed to see order, and `qt_promise` has
them. The runs of the widget have an SSH session; what telnet and serial do
differently, the bridge and the end of the stream, is checked at the handle. Two
records are needed for unique names and one default, two masters to tell a key from
the one before, one failure and one crash to separate memory from disk; the dial is
the second writer. The vault passes ids that exist only, and never reaches the
state of section 6 in which `SetDefault` clears defaults; `MaxStamps` is 0, so a dial
that stamps is free to do so at any time but the stamp is not told apart. The vault
run is symmetric in ids, names, masters and secrets, and checks no liveness. Limits
of two prompts let a counter be below, at and past its limit, and one question is
enough, because what is told apart is "answered" and "not". In `telnet` a size of 255
columns needs the doubled byte; two moves make a change and a repetition, a retraction
and a second offer, or a write and a resize, meet; and of the options the far end speaks
of, one each way is taken and one refused. In `dial` two dials share what can be shared, a new
`known_hosts` and a vault; the second is the one that accepts keys on first use, on
both hops, and the first may be anything: a bastion it can pass only once the other has
pinned it, or either host reached directly. The file there may be is empty, ends in
its newline or does not, with or without a comment in its last line, readable or not.
One change of the far end is a re-keyed host. In
`session_tree` and `desk` the second actor writes between two steps of the first,
and two moves (four in `desk`, where a dialog takes two or three) bring a stale
copy, an old file or a missing theme together with a write. An operation of
`session_tree` is one move however many rows it writes, so two drags, a drag and an
import, or an import and an edit, interleave statement by statement; the two windows
are symmetric. `desk` has no mode "agent",
which dials without a prompt as a named credential does. Every property has a mutant
of the code in `PROJECT.json` that breaks it under the same bounds.

`CHECK_DEADLOCK FALSE` is set where the system may stop: a session or a dial ends,
and the moves of `telnet`, `tab_io`, `session_tree` and `desk` run out. A vault and a
tab can always take another call, and deadlock is checked there.

The disagreement with a run. `capi/dial.go:32-37` says a closed handle's dial leaves
a socket and a log file behind for at most `timeout_seconds`. `dial_bastion` shows a
dial that never ends: `sshcore/dial.go:166` clears the deadline after the
handshake, so a far end that says nothing when the shell is asked for holds the
goroutine, and behind a bastion no deadline binds at all, since a tunnelled channel
has none. `DirectDialDecides` is what does hold.

## 4. Fairness

`SessionHandle!Fairness` is weak fairness of every library goroutine (the Go
scheduler runs them; the locks they wait for are held for a few statements), of the
dial except where it waits for a far end, of the end of a C call that has begun, and of
`FarExits`: an SSH server that has ended the stream sends the
exit status or closes the channel, and a dead connection closes it by itself.
`QtFairSpec` adds that the GUI thread returns to its event loop. Nothing makes the
far end speak or hang up, or an application call anything. While an SSH dial connects
or logs in, which takes in the bastion's handshake and the request for the shell, it has
no fairness (`DialWaits`): some of those waits have no deadline, as `EveryDialEnds` shows.
A telnet or serial dial has none of them. So `CloseReleases` says of a closed handle that
everything ends but a dial that waits, and a dial that waits no longer.

`Dial!Fairness` is weak fairness of the local steps of the goroutine, of a connect
(which its timeout ends) and of the deadline timer. Nothing is assumed of a host-key
exchange, a login, a tunnel or a shell request: a far end owes no answer.

`Telnet`, `Vault`, `TerminalTab`, `TabIo`, `Desk` and `SessionTree` have no fairness:
a person may do nothing, or reconnect for ever, and their properties need none.

## 5. Proofs

Eight modules hold 42 theorems, for every value of the constants. They rest on the
named assumptions of the model's module (`HandleAssumption`, `VaultAssumption`,
`DialAssumption`, `TabAssumption`, `DeskAssumption`, `TabIoAssumption`,
`TelnetAssumption`, `TreeAssumption`, `FilesAreTrees`), which bound nothing: a queue
has room for an event, limits are numbers, names that must differ do, an installed
theme is a theme, a control sequence has the form `TabIo` says, a file's rows have the
columns of some version, ids it has used and folders none of which is above itself.
Where a theorem needs more, its `ASSUME` says so, and so does this section. Every
strengthening that TLC can evaluate was an invariant of a run before it was proved. Few of the
properties are inductive alone; what follows says what had to be added and why.

**SessionHandle.** `HandleInv` has four conjuncts, over how far close has come
(`CloseInv`), what the two wake locks exclude (`WakeInv`), what the dial has built
(`DialInv`) and who has settled the end (`FinishInv`). `NoStrayWake`, for instance,
needs to know that close passes through the buffer's lock before it takes the
notifier's, and `VerdictIsFinal` that a late `publish` finds `ended` set, which needs
the order of `finish` and of the dial. `StoryInv` adds the story of the end: nothing
ends before the session is filed (`FiledInv`); a serial line under an open handle ends
only in failure, so that the "disconnected" its handle starts in is never taken for an
end (`EndInv`); the session's verdict is settled once (`VerdictInv`), after its reason
(`ReasonInv`); what `adopt` is about to publish is overtaken by the end or is the end
(`ToldInv`). `StoryHolds` follows. `ForgetInv` (the log is open while the read loop may
feed it, an early size is not replaced by an older one) gives `NothingIsForgotten`,
which speaks of behaviours with no failed write, as its property does.

**QtSession** (same module). `QtInv` joins all of the above with where the GUI thread
is (`PlaceInv`), which work in the library has a wake on its way (`AwakeInv`), what the
queue still holds of the newest state (`QueueInv`) and what has been shown
(`ShownInv`, `ExitTold`, `DeliverInv`). `NoWakeIsLost` is its `AwakeInv` at rest.
`TheEndIsTold` assumes `MaxWriteFailures + 1 < MaxQueuedEvents`: each refused write
queues an event, and a full queue drops its oldest, so enough of them push the last
state out. The library's queue has 64 places; nothing but a person's typing bounds the
failed writes, so the hypothesis is what practice meets and not what the code enforces.
`SafetyIsKept` is the refinement without its liveness: `QtSpec` implies
`SessionPromise`'s `Safety` under the mapping at the end of `QtSession`, and
`PromiseStep` takes every step of object and library to one of the promise or to a
stutter.

**Vault.** `VaultTypes` (with: `v.mu` is held exactly by the saving thread);
`FileStaysWhole`, from an invariant that says in which stage the holder of the lock has
brought `path.tmp`; `ListsStaySound`, from soundness of the two lists, of the temporary
file and of every copy a thread has read. These hold for any number of callers and
dials. `StoredStay`, `FileAlwaysFollows` and `SecretsAreKept` assume one calling thread
(`Single`), as in the application, and any number of dials. The assumption is needed:
with two calling threads `ChangeMasterPassword` loses a credential added between its
read and its lock (section 6), and a rename puts back the secret it has read. `StoredStay` rests
on `Kept`: what is stored is in the file, in unlocked memory, in the temporary file on
its way and in the copy any thread is about to install. `FileAlwaysFollows` rests on
`FollowInv`, while no file operation has failed: a vault at rest is what its file holds
(`AtRest`), and what a thread inside a call or a save may count on (`CallPlace`,
`SavePlace`), such as that a dial's save finds the master that was told.
`SecretsAreKept` rests on `IssuedInv` (an addition never takes the place of a record)
and `SecretInv` (what a rename has read still has the list's secret, because dials only
stamp).

**Dial.** What a dial has open is told by its stage and plan (`Accounted`): the log, the
bastion from its connect on, the target behind it, the shell's channel. `LeaksNothing`
follows because on every path what the code closes is what is then open, which the proof
goes through stage by stage. `Right` says which markers each reason writes, hence
`AsksTheRightQuestion`. `TrustInv` adds to `TrustIsKept` that a dial reads its pins
before it passes a key (`PinsFirst`), that a file that existed is never emptied
(`NotEmptied`), that in a file these dials made every line parses and is of a key its
host presented (`OnlyGenuine`), and that while the file is not ended its last line is the
one entry exposed, and that never more than two are (`Exposure`); it holds for any
number of dials that append at once.

**TerminalTab.** The slots nest, so a lemma per operator says what it makes of a tab
(`CameUpFacts`, `DownFacts`, `Drained`, `Begun`) and the invariant is proved over
whole deliveries. `TabInv` says that what the library has queued is the story of one
dial (`Channel`), that counters bound what was asked (`Counted`), that one question is
under way and the dial that raised it is over unless Reconnect crossed it (`Alone`), and
that the end is on screen where it should be (`Marked`). The four properties follow.

**Desk.** `DeskInv`: entries of the registry are exactly the links of the tabs alive,
closed ones included, with the row resolved from them (`Registered`), pins are painted,
an open dialog has moved nothing but the theme (`Asked`), and what it found painted is
what its theme paints (`FoundPainted`). `closeTab` says the end of the session before the
tab goes, so `Registered` is carried through `Ends` first. The two action properties follow
from it step by step.

**TabIo.** `TabIoInv`: the wire's pastes are in order and undisturbed and a hanging
bracket is the current paste's (`Wired`), what went out at once stands outside every
paced paste but the hurried ones (`Unhurried`), the queue still sends the rest of the
converted text, the clock runs, and the stripper is where the control sequence under way
has brought it (`InStepNow`), which needs a run of its states to exist (`Run`), of any
length. `PastesArePaced` needs that the pieces make the text, for every cut
`PasteQueue::load` can make.

**Telnet.** `Sound`: what was read is whole items and the beginning of one
(`ReadSound`), the wire carries what was written and sizes that were set
(`WireSound`), what was last said of an option is what is declared (`OptSound`), and
what is on its way is news (`CallSound`). `BytesIntact` compares the byte-at-a-time
filter with `DataOf`, which reads the whole stream, for every stream.
`BothEndsAgree` needs a second invariant, `DealSound`, because agreement when all is
quiet says nothing of the steps before. `Coming` runs the filter over the bytes that are
on their way and gives the commands it will meet there; `Fits` then relates, for each
option and side, what the program declared, what the far end did, what is still to be
heard and what is still to be read: at most one frame of ours is unread, whatever the far
end heard last is what we declared, and a difference is always news on its way. The
far end may speak of any option. For one the program takes, a difference is always news
on its way (`Taking`). For one it refuses, either nothing is open or the far end has
taken it up once more after taking it back, which is never answered (`Refusing`, section
6). The theorem has one hypothesis on the far end, `StreamsSayNothing`: the bytes it sends
between commands hold no commands and end in no half of one, since a command in them would
be one more offer that the far end's own record does not know of. The constants of the
`telnet` run meet it.

**SessionTree.** `TreeInv`: a row has all its columns and an id that was used, counts are
those of the history and so are overrides unless their save raced (`Tally`), the open
folders likewise (`Opened`), an editor's copy is whole (`Copies`), and a row that any
window has in hand, to rewrite it or to merge into it, is whole and, unless something was
saved in it behind that window's back, says what was saved (`Hand`, `Fits`). That a
window's hand is right after the steps of all the others is the heart of it: `Raced` puts
an id among the raced ones exactly when another window holds it, and a row that is deleted
never comes back under its id. The invariant holds for any number of windows, each at any
statement of a drag, a rename, an expansion or an import. `Listed` and `Kept` in the model
stand where the library's `SetToSortSeq` and `SelectSeq` could: those cannot be expanded
by the provers.

`FoldersStayReachable` needs a second invariant, `ReachInv`, which holds until `crossed`:
the rows have positions and names, and no folder is above itself (`Forest`, by a depth that
falls on the way up); each window shows a store that was such a forest once (`Looks`), with
no folder whose id was not handed out yet; and what a window at work has still to write
puts a folder only where its own tree does not show it below the folder itself (`Places`).
A write that crosses nobody's move then keeps the forest: the folders above the target in
the store are among those the window shows above it. That a forest is shown whole is a
fact of `reload` (`ReloadShows`, `AllInTree`): the home of each folder, read in whatever
order positions give, is in the end its parent. The theorem has one hypothesis,
`JoinedNumbers`, that the name `Joined` makes of two names is a name; the constants of the
`session_tree` run meet it. TLC cannot evaluate `ReachInv`, which speaks of every store a
window may have read; it checks `NothingUnreachable`.

Induction over data. The library's induction theorems take an operator as a parameter,
which the installed provers cannot instantiate. Where a definition is a recursive
function of a number or of a stream (`DataOf`, `AfterSubneg`, `Pieces`, `FlattenSeq`,
`FolderHomes`, `Chain`, `pathOf`), the proofs go from the least counterexample instead: the order of the naturals is well-founded, hence a set of
naturals has a least element (`LeastOf`) and one with 0 that is closed under successor
has all of them (`AllOfNat`). From these follow that the function exists and what it
returns. The modules that need these lemmas prove them, so that each stands
alone; `TabIo_proofs` and `Telnet_proofs` also prove of `FlattenSeq` that it strings
pieces together, and `Telnet_proofs` that the readers of a stream, whose argument gets
shorter (`Shrinks`, `Descends`), read it item by item.

All the other invariants and action properties the runs check are theorems. Only
model-checked:

* `DropLands`, the place of a drop that nobody wrote into.
* `CloseReleases`, `EndIsNoticed`, `DirectDialDecides` and the liveness in
  `KeepsPromise`: liveness under fairness is out of the prover's reach. `EveryDialEnds`
  is false (section 3).

## 6. Known behaviours with no run of their own

Places where the code does not do what it, or a comment, says, or does what a reader
may not expect. Each is what the source does; the models have the behaviour unless it
says otherwise, and the properties are stated so that they hold beside it.

The library:

* `capi/capi.go:384` promises that a resize during the connect is applied. `adopt`
  applies the remembered size after unlocking (`capi/dial.go:171`) and can undo a
  newer one. `RememberedSizeApplied` states what holds.
* `StoryIsSettled` rests on a serial port never ending with `io.EOF`:
  `onEvent` returns early when the state is the same and would skip `ended`. The
  port library in use always reports an error.
* After a failed telnet or serial write the bridge goroutine closes the log while
  the pump still delivers what it had read (`transport/session.go:334`), against
  `session.go:43`. `NothingForgotten` is therefore checked without failed writes.
* The comments at `capi/dial.go:174` and `events.go:65` say the dial never publishes
  a terminal state; `adopt` publishes the session's state, which may be one. It is
  harmless (`VerdictIsFinal`).
* `capi/dial.go:115-118` says NAWS is sent only once the peer has agreed. `Connect`
  offers NAWS itself and records it as declared, so the `Resize` that follows sends
  the size before any answer.
* `capi/open.go:255` says the log is closed again if the dial fails, so that no empty
  file stays behind: it is closed, and stays; a fixed `log_path` has lost its previous
  transcript to the truncation.
* `Connect` of telnet and serial looks at `shut` only before it opens, so a `Close`
  during it leaves a socket or port. The C surface never closes a backend that it
  has not been given.
* `sshcore/hostkey.go:64` creates `known_hosts` with a write that truncates. Two first
  dials may both find no file, and the second empties what the first has accepted,
  although "accepted keys persist" (line 9). Hence `PinsPersist` speaks of a file that
  existed. And a line is appended behind whatever the file ends in (`hostkey.go:162`):
  a last line without its newline takes the new one into its comment, so that the key
  just accepted does not persist, or becomes a key that no longer parses, so that neither
  does the old one. Hence the `exposed` in `PinsPersist`.
* `hostKeyAlgos` does not look at `known_hosts`. A file written by another program
  that pins only a key of a less preferred kind makes an unchanged host a mismatch,
  the very case `algorithms.go:4-9` sets out to avoid. Hence the `~hadFile` in
  `MismatchMeansChange`.
* `CheckCredentials` resolves into a copy of the configuration whose jump host is a
  shared pointer, and what was resolved for the bastion stays, although "nothing
  survives the return" (`sshcore/secrets.go:57`). The dial resolves again.

* An option the program refused, which the far end takes back and offers again, is not
  answered a second time (`telnet.go:359-361`, `382-384`: the answer is already
  declared), and the far end counts it as on. Hence the `again` in `Agreement`.

The vault:

* `vault.go:437` says the file is never behind memory. An edit whose save failed stays
  in memory, and the next save of anything commits it.
* `SetDefault` with an unknown id clears every default in memory and saves nothing
  (`vault.go:639`).
* `omegassh_vault_rename` and `_store` may undo the `LastUsed` a dial stamped
  between their read and their write (`capi/vault.go:568`, `:627`).
* `ChangeMasterPassword` reads the file before it takes the lock (`vault.go:410`),
  although `vault.h:26-30` invites calling it from a worker. The application calls
  everything on the GUI thread.
* `qt/omegasshvault.cpp:69` labels an agent credential "SSH Agent" where Go says
  "Agent" (`vault.go:96`), against its own comment. The dialog looks the method up by
  its value and is not misled.

The tab:

* `omegasshsession.h:207` promises the reason of a failure. A key pressed during the
  connect leaves the message of a refused write, which hides the reason when the dial
  fails between `drainEvents` and the check of `alive` (`omegasshsession.cpp:407`).
  `ReasonIsShown` states what holds.
* `start()` of the wrapper reads the newest state and then replays older queued
  events (`omegasshsession.cpp:291`), so a fast dial may show connected,
  authenticating, connected.
* `omegasshsession.cpp:293` says a dial that finished inside `start()` is harmless. When
  the wrapper had already failed nothing is emitted and the overlay keeps spinning
  over no dial; a retry that `start()` refuses leaves the tab's text unmarked too.
* `terminaltab.h:464-466` says Reconnect resets the count of questions; it does not
  (`terminaltab.cpp:408`), and after five refused answers the tab never asks again.
* A Reconnect in the gap between a failure and its prompt starts a dial that the
  prompt then ends, and can leave a live session under "(closed)".
* `linkstate.h` counts a host-key prompt as "needs input"; `finishHostKeyPrompt` never
  sets it.
* A paste that goes out at once, because the rate was set to unlimited while a paced one
  is under way, lands in the middle of that one, although `terminaltab.cpp:596-597` says
  that a second paste replaces the first and does not interleave with it. If the far end
  asked for brackets, the end of the second's bracket ends the first's. Hence `hurried` in
  `PacedUndisturbed` and `BracketsPair`. And a paced paste goes on into the session a Reconnect brought up.
* A capture is closed by `terminate` so that no file is held open after a session
  ends; a session the far end ends keeps it. The stripper may be left inside a control
  sequence and then swallows the beginning of the next session's output. Hence
  `aligned` in `CaptureIsTheText`.

The window, its settings and the store:

* `openSettings` says that applying settings before the theme keeps pins painted.
  With a theme that is not installed there is no walk, and a pin that changed stays
  unpainted. A preview and a Cancel rewrite the stored name of such a theme.
* `--theme` opens a theme "without recording it" (`main.cpp:143`). A settings dialog
  that is cancelled afterwards records it (`mainwindow.cpp:928`), and closing the
  window writes it.
* Every transition of the vault "has to reach" its pill (`mainwindow.cpp:1456`). The
  unlock that a session asks for when it is opened does not, and the pill goes on
  showing a locked vault. `PillNeverBoasts` is the other direction.
* A `config.json` that cannot be read, or does not parse, leaves the defaults, and
  closing the window writes them over it. `load` returns true for one that does not
  parse.
* The editor turns port 23 of an SSH session into 22 when it opens it
  (`sessioneditordialog.cpp:785`), although "somebody who typed" a port "meant it".
* Merging says that the folder of an existing session is kept
  (`sessiontransfer.cpp:52-54`); `sessionio.cpp` moves it to the file's. The comment
  above the merge names six fields; the code replaces seven, and `credential_name`
  (`sessionio.cpp:223`) is lost. A device that
  stands twice in one file gives its session position 0 again, from a copy.
* Drags write with `updateFolder`, which lacks the check of `moveFolder`
  (`store.cpp:541-544`, not called by the application). One window cannot build a
  cycle, since its tree refuses the drop. Two can, when each puts a folder below one the
  other has moved since, or when one writes back a folder's row that it read before the
  other moved it, and the subtree is then unreachable. Hence `crossed` in
  `NothingUnreachable`.
* A drag and a merging import read a row, and write the whole of it back in a later
  statement (`sessiontreemodel.cpp:605-614`, `sessionio.cpp:149-228`). Overrides or an
  expansion that another window saves in between are overwritten. Hence `raced` in
  `OthersFieldsKept` and `ExpansionIsTheUsers`.
* `migrate` reads the columns before it begins its transaction, so that of two windows
  that open an old file at once, one may fail.

## 7. Not modelled

In the library: the registry of handles and `lasterror.go` (handles share no state);
the spelling of requests, and fields a plan only copies; key exchange, ciphers, SSH
agent authentication, the parsing of a `known_hosts` line; cryptography, key
derivation and the parsing of a corrupt vault; two processes on one vault file; the
framing of lines and times in a log; parameters of a serial port.

In the application: the synchronisation of size and zoom, the geometry and resizing of
the frameless window, docks and the ribbon's fields; the YAML reader; read-only
stores; `searchSessions` and `moveFolder`, which the application does not call; recent
profiles; how long a delay is. What remains of the dialogs and themes is layout: no
behaviour over time that a property could be about. The vendored SQLite, the examples,
packaging and the probes are not the program's own logic.

## 8. Plan

Done: the modules of section 2, in this order: `SessionHandle`, `SessionPromise` and
`QtSession` (the most important behaviour: a session and its end), `Vault`,
`TerminalTab`, then `Telnet`, `SessionTree`, `Desk`, `TabIo` and `Dial`, and the proofs
of section 5. No module declares a `RECURSIVE` operator.

What would come next: the fields of the dialogs, which bind settings and records to
widgets, and a second process on one vault file.
