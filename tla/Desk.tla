---------------------------------- MODULE Desk ----------------------------------
(***************************************************************************)
(* The window (app/mainwindow.cpp) and what it shares between its tabs: the *)
(* settings and the themes, the pill that shows the vault, the strip of     *)
(* tabs, and the registry of links that the tree shows beside saved         *)
(* sessions (app/livesessions.cpp).                                         *)
(*                                                                         *)
(* The GUI thread runs everything: an action is one delivery by the event   *)
(* loop. A dialog runs its own loop, in which links still move and another  *)
(* window may write the store; the person can only answer it. A row holds   *)
(* what a session says and what it leaves to the settings (Absent).         *)
(***************************************************************************)
EXTENDS Naturals

CONSTANTS
  Sessions,     (* saved sessions                                           *)
  Rows,         (* what a row of the store may say                          *)
  Installed,    (* themes of this installation                              *)
  ThemeNames,   (* names a file may hold                                    *)
  Fallback,     (* the theme the engine falls back to                       *)
  Sizes,        (* font sizes                                               *)
  Modes,        (* ssh_default_auth: of "agent", "vaultDefault", "ask"      *)
  Configs,      (* what config.json holds before the first start            *)
  OmegaConfigs, (* and omega.json: <<>> for no file, or none that parses    *)
  Flags,        (* themes a start may be given on the command line          *)
  MaxTabs,      (* bound: tabs alive                                        *)
  MaxMoves      (* bound: operations of the person                          *)

Absent == "absent"     \* a theme the row leaves to the settings
NoSize == 0            \* a size it leaves to them
Quick  == "quick"      \* the session id of a tab that has no saved session

ASSUME DeskAssumption ==
  /\ Fallback \in Installed /\ Installed \subseteq ThemeNames
  /\ Absent \notin ThemeNames /\ Quick \notin Sessions
  /\ Flags \subseteq Installed
  /\ Sizes \subseteq Nat \ {NoSize} /\ Sizes # {} /\ MaxTabs \in Nat \ {0} /\ MaxMoves \in Nat
  /\ Rows \subseteq [ssh : BOOLEAN, cred : BOOLEAN, theme : ThemeNames \cup {Absent},
                    font : Sizes \cup {NoSize}]
  /\ \A c \in Configs : /\ "theme" \in DOMAIN c => c.theme \in ThemeNames
                        /\ "font" \in DOMAIN c => c.font \in Sizes
  /\ Modes \subseteq {"agent", "vaultDefault", "ask"}

Tabs == 1 .. MaxTabs

VARIABLES
  rows,       (* the store: sessions not deleted -> row                     *)
  app,        (* settings_ in memory: theme, font                           *)
  disk, omegaDisk, (* the fields that config.json and omega.json hold       *)
  mode,       (* omegaSettings_: ssh_default_auth                           *)
  themeName,  (* the theme the window is painted in                         *)
  tab,        (* the tabs alive: of the strip, or waiting to be deleted     *)
  strip,      (* the tabs of the strip -> the tabs to the left of each      *)
  entries,    (* LiveSessionRegistry: session -> its tabs and the row's link *)
  vault,      (* the vault is open; the pill says so                        *)
  modal,      (* the dialog that is up                                      *)
  moves

files == <<disk, omegaDisk, mode>>
vars == <<rows, app, files, themeName, tab, strip, entries, vault, modal, moves>>
Without(f, x) == [y \in DOMAIN f \ {x} |-> f[y]]

------------------------------------------------------------------------------
(* The settings files. A field that is missing or of the wrong type has its *)
(* default; a file that is missing, cannot be read or does not parse gives  *)
(* the defaults throughout. A save writes every field, whole or not at all. *)

Defaults == [theme |-> Fallback, font |-> CHOOSE n \in Sizes : TRUE]
Field(o, key, fallback) == IF key \in DOMAIN o THEN o[key] ELSE fallback
fromJson(o) == [key \in DOMAIN Defaults |-> Field(o, key, Defaults[key])]
load(o) == {fromJson(o), Defaults}
toJson(a) == [key \in DOMAIN Defaults |-> a[key]]
save(o, a) == {o, toJson(a)}

sshDefaultAuthFromName(name) == IF name \in {"agent", "ask"} THEN name ELSE "vaultDefault"
omegaFromJson(o) == sshDefaultAuthFromName(Field(o, "mode", "vaultDefault"))
omegaLoad(o) == {omegaFromJson(o), omegaFromJson(<<>>)}
omegaSave(o, m) == {o, [mode |-> m]}

------------------------------------------------------------------------------
(* Links, and the registry.                                                 *)

Links == {"Connecting", "Authenticating", "Live", "NeedsInput", "Dead"}
rank(link) == CASE link = "Live"           -> 6 [] link = "NeedsInput" -> 5
                [] link = "Authenticating" -> 4 [] link = "Connecting" -> 3
                [] link = "Dead"           -> 1 [] OTHER -> 0
Running(t) == tab[t].link \in {"Connecting", "Authenticating", "Live"}

(* The row's answer, from however many tabs are open on it.                 *)
resolve(perTab) ==
  IF DOMAIN perTab = {} THEN "Idle"
  ELSE perTab[CHOOSE t \in DOMAIN perTab :
                \A u \in DOMAIN perTab : rank(perTab[t]) >= rank(perTab[u])]
Entry(perTab) == [perTab |-> perTab, link |-> resolve(perTab)]
NoEntry       == Entry(<<>>)

Put(f, t, v) == [u \in DOMAIN f \cup {t} |-> IF u = t THEN v ELSE f[u]]
setLink(e, s, t, link) ==
  IF s = Quick \/ e[s] = NoEntry THEN e
  ELSE [e EXCEPT ![s] = Entry(Put(@.perTab, t, link))]
(* One setLink for each of these tabs.                                      *)
setLinks(e, links) ==
  [s \in DOMAIN e |->
     LET mine == {t \in DOMAIN links : tab[t].session = s}
     IN  IF mine = {} \/ e[s] = NoEntry THEN e[s]
         ELSE Entry([t \in DOMAIN e[s].perTab \cup mine |->
                       IF t \in mine THEN links[t] ELSE e[s].perTab[t]])]
attach(e, s, t) ==
  IF s = Quick THEN e ELSE [e EXCEPT ![s] = Entry(Put(@.perTab, t, "Connecting"))]

detachWhole(e, s, t) == IF s = Quick THEN e ELSE [e EXCEPT ![s] = NoEntry]  \* fault
detach(e, s, t) ==
  IF s = Quick THEN e ELSE [e EXCEPT ![s] = Entry(Without(@.perTab, t))]

------------------------------------------------------------------------------
(* What a session gets: its own word, else the settings'.                   *)

resolveQuickConnect(a) == [font |-> a.font, pin |-> Absent]
resolveGlobals(row, a) == resolveQuickConnect(a)                        \* fault
resolveTabSettings(row, a) ==
  [font |-> IF row.font = NoSize THEN a.font ELSE row.font, pin |-> row.theme]

(* A pin of a theme not installed here is the window's.                     *)
themeForTab(pin, windowTheme) == IF pin \in Installed THEN pin ELSE windowTheme

(* The one walk that paints: every tab of the strip.                        *)
Painted(tabs, name) ==
  [t \in DOMAIN tabs |->
     IF t \in DOMAIN strip THEN [tabs[t] EXCEPT !.painted = themeForTab(tabs[t].pin, name)]
                           ELSE tabs[t]]
applySettingsToTabs(tabs, a) ==
  [t \in DOMAIN tabs |->
     IF t \notin DOMAIN strip THEN tabs[t]
     ELSE LET own == IF tabs[t].session \in DOMAIN rows
                     THEN resolveTabSettings(rows[tabs[t].session], a)
                     ELSE resolveQuickConnect(a)
          IN  [tabs[t] EXCEPT !.font = own.font, !.pin = own.pin]]

(* A name that resolves to nothing changes nothing, and paints nothing.     *)
applyThemeByName(tabs, a, name) ==
  IF name \in Installed
  THEN [tab |-> Painted(tabs, name), app |-> [a EXCEPT !.theme = name], name |-> name]
  ELSE [tab |-> tabs, app |-> a, name |-> themeName]
Shown(w) == tab' = w.tab /\ app' = w.app /\ themeName' = w.name

------------------------------------------------------------------------------
(* Tabs open.                                                               *)

Free == modal = [kind |-> "none"] /\ moves < MaxMoves
Move == moves' = moves + 1
Fresh == CHOOSE t \in Tabs : t \notin DOMAIN tab
HasRoom == Tabs \ DOMAIN tab # {}

(* Registered before it dials; the settings are the window's to give. What  *)
(* start() refuses is marked failed.                                        *)
openTab(s, own) ==
  \E link \in {"Connecting", "Dead"} :
    /\ tab' = Put(tab, Fresh, [session |-> s, link |-> link, font |-> own.font, pin |-> own.pin,
                               painted |-> themeForTab(own.pin, themeName)])
    /\ strip' = Put(strip, Fresh, DOMAIN strip)
    /\ entries' = setLink(attach(entries, s, Fresh), s, Fresh, link)

NoTab == UNCHANGED <<tab, strip, entries>>
Ask(s, row) == NoTab /\ modal' = [kind |-> "credential", session |-> s, row |-> row]
Dial(s, row) == openTab(s, resolveTabSettings(row, app)) /\ modal' = [kind |-> "none"]

(* The vault is open, or stayed shut: what the default names, else a prompt. *)
WithVault(s, row, open) ==
  IF open THEN \E named \in BOOLEAN : IF named THEN Dial(s, row) ELSE Ask(s, row)
          ELSE Ask(s, row)

needsDefault(row) == row.ssh /\ ~row.cred

(* ensureVaultUnlocked tries the keyring quietly before it asks.            *)
openSession(s) ==
  /\ Free /\ HasRoom /\ s \in DOMAIN rows /\ Move
  /\ LET row == rows[s]
     IN  \/ /\ ~needsDefault(row) \/ mode = "agent"
            /\ Dial(s, row) /\ UNCHANGED vault
         \/ needsDefault(row) /\ mode = "ask" /\ Ask(s, row) /\ UNCHANGED vault
         \/ /\ needsDefault(row) /\ mode = "vaultDefault"
            /\ \/ WithVault(s, row, TRUE) /\ vault' = [vault EXCEPT !.open = TRUE]
               \/ /\ ~vault.open /\ NoTab /\ UNCHANGED vault
                  /\ modal' = [kind |-> "unlock", session |-> s, row |-> row]
  /\ UNCHANGED <<rows, app, files, themeName>>

AnswerUnlock ==
  /\ modal.kind = "unlock" /\ HasRoom
  /\ \E unlocked \in BOOLEAN : /\ vault' = [vault EXCEPT !.open = unlocked]
                               /\ WithVault(modal.session, modal.row, unlocked)
  /\ UNCHANGED <<rows, app, files, themeName, moves>>

(* A cancelled prompt is a cancelled connect.                               *)
AnswerCredential ==
  /\ modal.kind = "credential" /\ HasRoom
  /\ \/ Dial(modal.session, modal.row)
     \/ NoTab /\ modal' = [kind |-> "none"]
  /\ UNCHANGED <<rows, app, files, themeName, vault, moves>>

quickConnect ==
  /\ Free /\ HasRoom /\ Move
  /\ openTab(Quick, resolveQuickConnect(app))
  /\ UNCHANGED <<rows, app, files, themeName, vault, modal>>

(* A tab publishes a link that is not the one it published last; a prompt   *)
(* that was deferred may dial again after the tab was closed.               *)
LinkChanged(t, link) ==
  /\ t \in DOMAIN tab /\ tab[t].link # link
  /\ tab' = [tab EXCEPT ![t].link = link]
  /\ entries' = setLink(entries, tab[t].session, t, link)
  /\ UNCHANGED <<rows, app, files, themeName, strip, vault, modal, moves>>

------------------------------------------------------------------------------
(* Tabs close: out of the strip and hung up at once, deleted by the loop    *)
(* later, and out of the registry when they are destroyed.                  *)

Closed(victims) == [t \in DOMAIN strip \ victims |-> strip[t] \ victims]

(* What a hung-up tab publishes: the end, unless it keeps a prompt up. A    *)
(* dial that had failed is drained first and may still raise one.           *)
Ends(link) == CASE link \in {"Dead", "NeedsInput"} -> {link}
                [] link = "Live" -> {"Dead"}
                [] OTHER -> {"Dead", "NeedsInput"}
terminate(victims) ==
  \E links \in [victims -> Links] :
    /\ \A t \in victims : links[t] \in Ends(tab[t].link)
    /\ tab' = [t \in DOMAIN tab |-> IF t \in victims THEN [tab[t] EXCEPT !.link = links[t]]
                                                     ELSE tab[t]]
    /\ entries' = setLinks(entries, links)
Close(victims) == strip' = Closed(victims) /\ terminate(victims \cap DOMAIN strip)

closeTab(t) ==
  /\ Free /\ Move /\ t \in DOMAIN strip
  /\ Close({t})
  /\ UNCHANGED <<rows, app, files, themeName, vault, modal>>

Destroyed(t) ==
  /\ modal = [kind |-> "none"] /\ t \in DOMAIN tab \ DOMAIN strip
  /\ tab' = Without(tab, t)
  /\ entries' = detach(entries, tab[t].session, t)
  /\ UNCHANGED <<rows, app, files, themeName, strip, vault, modal, moves>>

(* Several at once, by widget: an index taken before a removal means another *)
(* tab after it. Asks if one is connected.                                  *)
tabsExcept(t) == DOMAIN strip \ {t}
tabsAfter(t)  == {u \in DOMAIN strip : t \in strip[u]}
closeTabSet(victims) ==
  /\ Free /\ Move /\ victims # {}
  /\ IF \E t \in victims : Running(t)
     THEN modal' = [kind |-> "close", victims |-> victims] /\ NoTab
     ELSE Close(victims) /\ UNCHANGED modal
  /\ UNCHANGED <<rows, app, files, themeName, vault>>
TabMenu == \/ \E t \in DOMAIN strip : closeTab(t) \/ closeTabSet(tabsExcept(t)) \/ closeTabSet(tabsAfter(t))
           \/ closeTabSet(DOMAIN strip)
AnswerClose ==
  /\ modal.kind = "close" /\ modal' = [kind |-> "none"]
  /\ Close(modal.victims) \/ NoTab
  /\ UNCHANGED <<rows, app, files, themeName, vault, moves>>

------------------------------------------------------------------------------
(* The settings dialog previews on the real window, and the window puts the *)
(* theme back. What the tabs were painted in is kept for the properties.    *)

openSettings ==
  /\ Free /\ Move
  /\ modal' = [kind |-> "settings", before |-> themeName, held |-> app,
               painted |-> [t \in Tabs |-> IF t \in DOMAIN strip THEN tab[t].painted ELSE Fallback]]
  /\ UNCHANGED <<rows, app, files, themeName, tab, strip, entries, vault>>
Preview(name) ==
  /\ modal.kind = "settings" /\ name \in Installed \cup {modal.held.theme}
  /\ Shown(applyThemeByName(tab, app, name))
  /\ UNCHANGED <<rows, files, strip, entries, vault, modal, moves>>

CancelKeepingPreview ==                                                 \* fault
  /\ modal.kind = "settings" /\ modal' = [kind |-> "none"]
  /\ UNCHANGED <<rows, app, files, themeName, tab, strip, entries, vault, moves>>
CancelSettings ==
  /\ modal.kind = "settings" /\ modal' = [kind |-> "none"]
  /\ Shown(applyThemeByName(tab, app, modal.before))
  /\ UNCHANGED <<rows, files, strip, entries, vault, moves>>

(* What the form shows over what it was opened with; a theme it cannot      *)
(* paint is offered only if it was the one.                                *)
appSettings(held) == [theme : Installed \cup {held.theme}, font : Sizes]

SavesThemeFirst(a) ==                                                   \* fault
  LET w == applyThemeByName(tab, a, a.theme)
  IN  Shown([w EXCEPT !.tab = applySettingsToTabs(w.tab, a)])
(* Tabs first, then the theme, whose walk paints the new pins.              *)
Settled(a) == Shown(applyThemeByName(applySettingsToTabs(tab, a), a, a.theme))
SaveSettings(a, m) ==
  /\ modal.kind = "settings" /\ modal' = [kind |-> "none"]
  /\ a \in appSettings(modal.held)
  /\ disk' \in save(disk, a) /\ omegaDisk' \in omegaSave(omegaDisk, m)
  /\ Settled(a) /\ mode' = m
  /\ UNCHANGED <<rows, strip, entries, vault, moves>>

ThemeChosen(name) ==                                         \* View > Theme
  /\ Free /\ Move /\ Shown(applyThemeByName(tab, app, name))
  /\ UNCHANGED <<rows, files, strip, entries, vault, modal>>

(* The editor of this window or another writes a row, or the row goes.      *)
RowWritten(s, row) ==
  /\ moves < MaxMoves /\ Move /\ s \in DOMAIN rows
  /\ rows' = [rows EXCEPT ![s] = row] /\ rows' # rows
  /\ UNCHANGED <<app, files, themeName, tab, strip, entries, vault, modal>>
RowDeleted(s) ==
  /\ moves < MaxMoves /\ Move /\ s \in DOMAIN rows
  /\ rows' = Without(rows, s)
  /\ UNCHANGED <<app, files, themeName, tab, strip, entries, vault, modal>>

------------------------------------------------------------------------------
(* The vault and its pill.                                                  *)

refreshVaultPill(open) == vault' = [open |-> open, pill |-> open]

UnlockFromMenu ==
  /\ Free /\ Move
  /\ refreshVaultPill(TRUE) \/ (~vault.open /\ UNCHANGED vault)
  /\ UNCHANGED <<rows, app, files, themeName, tab, strip, entries, modal>>
openCredentialManager ==
  /\ Free /\ Move /\ vault' = [vault EXCEPT !.open = TRUE]
  /\ UNCHANGED <<rows, app, files, themeName, tab, strip, entries, modal>>
lockVault ==
  /\ Free /\ Move /\ refreshVaultPill(FALSE)
  /\ UNCHANGED <<rows, app, files, themeName, tab, strip, entries, modal>>
VaultMenuShown ==
  /\ modal = [kind |-> "none"] /\ refreshVaultPill(vault.open)
  /\ UNCHANGED <<rows, app, files, themeName, tab, strip, entries, modal, moves>>

------------------------------------------------------------------------------
(* A start reads both files, each on its own, and paints what config.json   *)
(* names or, when that is not installed, the fallback. A theme given on the *)
(* command line is painted over it and not put among the settings. The      *)
(* vault may open from the keyring.                                         *)

StartTheme(a) == IF a.theme \in Installed THEN a.theme ELSE Fallback
quietUnlock == \E opened \in BOOLEAN : vault' = [open |-> opened, pill |-> opened]
Launch ==
  /\ app' \in load(disk') /\ mode' \in omegaLoad(omegaDisk')
  /\ themeName' \in {StartTheme(app')} \cup Flags
  /\ tab' = <<>> /\ strip' = <<>> /\ entries' = [s \in Sessions |-> NoEntry]
  /\ quietUnlock

(* Closing the window writes config.json, and omega.json not.               *)
closeEvent == disk' \in save(disk, app) /\ UNCHANGED omegaDisk
Relaunch == /\ Free /\ Move /\ closeEvent /\ Launch /\ UNCHANGED <<rows, modal>>

Init ==
  /\ rows \in [Sessions -> Rows] /\ disk \in Configs /\ omegaDisk \in OmegaConfigs
  /\ app \in load(disk) /\ mode \in omegaLoad(omegaDisk)
  /\ themeName \in {StartTheme(app)} \cup Flags
  /\ tab = <<>> /\ strip = <<>> /\ entries = [s \in Sessions |-> NoEntry]
  /\ vault \in {[open |-> o, pill |-> o] : o \in BOOLEAN}
  /\ modal = [kind |-> "none"] /\ moves = 0

Next ==
  \/ \E s \in Sessions : openSession(s) \/ RowDeleted(s) \/ \E row \in Rows : RowWritten(s, row)
  \/ AnswerUnlock \/ AnswerCredential \/ quickConnect
  \/ \E t \in Tabs, link \in Links : LinkChanged(t, link)
  \/ TabMenu \/ AnswerClose \/ \E t \in Tabs : Destroyed(t)
  \/ openSettings \/ CancelSettings
  \/ \E name \in ThemeNames : Preview(name)
  \/ \E name \in Installed : ThemeChosen(name)
  \/ \E theme \in ThemeNames, font \in Sizes, m \in Modes :
       SaveSettings([theme |-> theme, font |-> font], m)
  \/ UnlockFromMenu \/ openCredentialManager \/ lockVault \/ VaultMenuShown
  \/ Relaunch

Spec == Init /\ [][Next]_vars

------------------------------------------------------------------------------
(* Properties.                                                              *)

(* The tree's row is the liveliest tab of its session, counting a tab that  *)
(* is closed until it is destroyed and one that is dialling before it says  *)
(* so, and a session without tabs has no entry.                             *)
(* livesessions.cpp: attach, setLink, detach; openTab and its connections.  *)
RowIsLiveliest ==
  \A s \in Sessions :
    LET mine == {t \in DOMAIN tab : tab[t].session = s}
    IN  /\ DOMAIN entries[s].perTab = mine
        /\ IF mine = {} THEN entries[s].link = "Idle"
           ELSE /\ \E t \in mine : entries[s].link = tab[t].link
                /\ \A t \in mine : rank(tab[t].link) <= rank(entries[s].link)

(* When the settings are saved, every tab of the strip lives by its row as  *)
(* the store has it, and by the new settings in what the row leaves open.   *)
(* mainwindow.cpp: openSettings, applySettingsToTabs.                       *)
SaveReachesTabs ==
  [][(modal.kind = "settings" /\ \E m \in Modes : SaveSettings(app', m)) =>
       \A t \in DOMAIN strip :
         LET stored == tab[t].session \in DOMAIN rows
             row    == rows[tab[t].session]
         IN  /\ tab'[t].pin = IF stored THEN row.theme ELSE Absent
             /\ IF stored /\ row.font # NoSize THEN tab'[t].font = row.font
                                               ELSE tab'[t].font = app'.font]_vars

(* Every tab is painted in its pin, or in the window's theme if it has none *)
(* or an unknown one.  It is the walk that paints, and with settings that   *)
(* name a theme that is not installed there is no walk.                     *)
PinsPainted ==
  app.theme \in Installed =>
    \A t \in DOMAIN strip : tab[t].painted = themeForTab(tab[t].pin, themeName)

(* A cancelled settings dialog puts back the window's theme and what every  *)
(* tab of the strip was painted in, whatever was looked at in it and        *)
(* whatever was written meanwhile, and leaves the settings as they were but *)
(* for the theme, which becomes the one on screen: after a start with       *)
(* --theme that is another one than they named.  With settings that name a  *)
(* theme that is not installed, a save may have left a pin unpainted, which *)
(* a look at the dialog then paints.  mainwindow.cpp: openSettings.         *)
CancelPutsBack ==
  [][CancelSettings =>
       /\ themeName' = modal.before
       /\ app' = [modal.held EXCEPT !.theme = modal.before]
       /\ modal.held.theme \in Installed =>
            \A t \in DOMAIN strip : tab'[t].painted = modal.painted[t]]_vars

(* The pill never says that a locked vault is open.                         *)
PillNeverBoasts == vault.pill => vault.open

(* What the window shows of the sessions and of the vault is so.            *)
WindowIsHonest == RowIsLiveliest /\ PillNeverBoasts

=================================================================================
