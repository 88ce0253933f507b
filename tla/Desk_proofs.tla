------------------------------ MODULE Desk_proofs -------------------------------
(***************************************************************************)
(* Proofs about the window and what its tabs share (Desk).                  *)
(***************************************************************************)
EXTENDS Desk, TLAPS

------------------------------------------------------------------------------
(* Types.                                                                   *)

Settings == [theme : ThemeNames, font : Sizes]
Pins     == ThemeNames \cup {Absent}
Owns     == [font : Sizes, pin : Pins]
TabTypes == [session : Sessions \cup {Quick}, link : Links, font : Sizes, pin : Pins,
             painted : ThemeNames]
Config(o) == /\ "theme" \in DOMAIN o => o["theme"] \in ThemeNames
             /\ "font" \in DOMAIN o => o["font"] \in Sizes

Dialogs ==
  [kind : {"none"}]
    \cup [kind : {"credential", "unlock"}, session : Sessions, row : Rows]
    \cup [kind : {"close"}, victims : SUBSET Tabs]
    \cup [kind : {"settings"}, before : Installed, held : Settings, painted : [Tabs -> ThemeNames]]

StoreOK == DOMAIN rows \subseteq Sessions /\ \A s \in DOMAIN rows : rows[s] \in Rows
LooksOK == app \in Settings /\ themeName \in Installed /\ Config(disk)
TabsOK  == /\ DOMAIN tab \subseteq Tabs /\ \A t \in DOMAIN tab : tab[t] \in TabTypes
           /\ DOMAIN strip \subseteq DOMAIN tab
OtherOK == vault \in [open : BOOLEAN, pill : BOOLEAN] /\ modal \in Dialogs
TypeOK  == StoreOK /\ LooksOK /\ TabsOK /\ OtherOK

------------------------------------------------------------------------------
(* The inductive invariant.                                                 *)

(* A session's entry is the links of its tabs, those that are closed and    *)
(* not yet destroyed among them, and the row is resolved from them.         *)
Mine(tabs, s) == {t \in DOMAIN tabs : tabs[t].session = s}
FiledAt(entry, tabs, s) ==
  /\ DOMAIN entry.perTab = Mine(tabs, s)
  /\ \A t \in Mine(tabs, s) : entry.perTab[t] = tabs[t].link
  /\ entry = Entry(entry.perTab)
Filed(e, tabs) == DOMAIN e = Sessions /\ \A s \in Sessions : FiledAt(e[s], tabs, s)
Registered == Filed(entries, tab)

(* While the settings are up only the theme moves, and the vault is asked   *)
(* for only when it is shut.                                                *)
Asked == /\ modal.kind = "settings" => app.font = modal.held.font
         /\ modal.kind = "unlock" => ~vault.open

(* What the dialog found the tabs painted in is what their pins and the     *)
(* theme it opened over make of them: no pin moves while it is up.          *)
FoundPainted ==
  modal.kind = "settings" /\ modal.held.theme \in Installed =>
    \A t \in DOMAIN strip : modal.painted[t] = themeForTab(tab[t].pin, modal.before)

DeskInv == TypeOK /\ Registered /\ PinsPainted /\ PillNeverBoasts /\ Asked /\ FoundPainted

------------------------------------------------------------------------------
(* Operators.                                                               *)

LEMMA PutFacts ==
  ASSUME NEW f, NEW t, NEW v
  PROVE  /\ DOMAIN Put(f, t, v) = DOMAIN f \cup {t}
         /\ Put(f, t, v)[t] = v
         /\ \A u \in DOMAIN f \ {t} : Put(f, t, v)[u] = f[u]
  BY DEF Put

LEMMA WithoutFacts ==
  ASSUME NEW f, NEW t
  PROVE  /\ DOMAIN Without(f, t) = DOMAIN f \ {t}
         /\ \A u \in DOMAIN f \ {t} : Without(f, t)[u] = f[u]
  BY DEF Without

(* The name a tab is painted in is always that of an installed theme.       *)
LEMMA PaintedInInstalled ==
  ASSUME NEW pin, NEW w \in Installed
  PROVE  themeForTab(pin, w) \in Installed /\ themeForTab(pin, w) \in ThemeNames
  BY DeskAssumption DEF themeForTab

(* What a row and the settings resolve to.                                  *)
LEMMA ResolvedOwn ==
  ASSUME NEW row \in Rows, NEW a \in Settings
  PROVE  resolveTabSettings(row, a) \in Owns /\ resolveQuickConnect(a) \in Owns
  <1>1. /\ row.theme \in ThemeNames \cup {Absent}
        /\ row.font \in Sizes \cup {NoSize}
    BY DeskAssumption
  <1>2. a.font \in Sizes
    BY DEF Settings
  <1> QED BY <1>1, <1>2 DEF resolveTabSettings, resolveQuickConnect, Owns, Pins

(* There is a liveliest link among those of a session with tabs, and the    *)
(* row resolves to it.                                                      *)
LEMMA ResolvesToLiveliest ==
  ASSUME NEW f, DOMAIN f # {}, \A t \in DOMAIN f : f[t] \in Links
  PROVE  /\ \E t \in DOMAIN f : resolve(f) = f[t]
         /\ \A t \in DOMAIN f : rank(f[t]) <= rank(resolve(f))
  <1> DEFINE Best(t) == \A u \in DOMAIN f : rank(f[t]) >= rank(f[u])
  <1>1. \A x \in Links : rank(x) \in {1, 3, 4, 5, 6}
    BY DEF Links, rank
  <1>2. \E t \in DOMAIN f : Best(t)
    <2>1. \A t \in DOMAIN f : rank(f[t]) \in {1, 3, 4, 5, 6}
      BY <1>1
    <2>2. CASE \E t \in DOMAIN f : rank(f[t]) = 6
      BY <2>1, <2>2
    <2>3. CASE /\ ~\E t \in DOMAIN f : rank(f[t]) = 6
               /\ \E t \in DOMAIN f : rank(f[t]) = 5
      BY <2>1, <2>3
    <2>4. CASE /\ ~\E t \in DOMAIN f : rank(f[t]) \in {5, 6}
               /\ \E t \in DOMAIN f : rank(f[t]) = 4
      BY <2>1, <2>4
    <2>5. CASE /\ ~\E t \in DOMAIN f : rank(f[t]) \in {4, 5, 6}
               /\ \E t \in DOMAIN f : rank(f[t]) = 3
      BY <2>1, <2>5
    <2>6. CASE ~\E t \in DOMAIN f : rank(f[t]) \in {3, 4, 5, 6}
      BY <2>1, <2>6
    <2> QED BY <2>2, <2>3, <2>4, <2>5, <2>6
  <1> DEFINE best == CHOOSE t \in DOMAIN f : Best(t)
  <1>3. best \in DOMAIN f /\ Best(best)
    BY <1>2
  <1>4. resolve(f) = f[best]
    BY DEF resolve
  <1>5. \A t \in DOMAIN f : rank(f[t]) \in Nat
    BY <1>1
  <1>6. \A t \in DOMAIN f : rank(f[best]) >= rank(f[t])
    BY <1>3
  <1> HIDE DEF best, Best
  <1>7. best \in DOMAIN f
    BY <1>3
  <1> QED BY <1>4, <1>5, <1>6, <1>7

------------------------------------------------------------------------------
(* What a step may do to the tabs and to what they are painted in.          *)

Still      == UNCHANGED <<tab, strip, entries, app, themeName>>
Opening    == /\ HasRoom /\ UNCHANGED <<app, themeName>>
              /\ \E s \in Sessions \cup {Quick}, own \in Owns : openTab(s, own)
Closing    == /\ \E victims : Close(victims)
              /\ UNCHANGED <<app, themeName>>
Repainting == /\ UNCHANGED <<strip, entries>>
              /\ \/ \E name : Shown(applyThemeByName(tab, app, name))
                 \/ \E a \in Settings : Settled(a)
Linking    == \E t \in Tabs, link \in Links : LinkChanged(t, link)
Destroying == \E t \in Tabs : Destroyed(t)

LEMMA ClosedShrinks ==
  ASSUME NEW victims
  PROVE  DOMAIN Closed(victims) = DOMAIN strip \ victims
  BY DEF Closed

(* A dialog's answer, or a first click, opens one tab or leaves them all.   *)
LEMMA DialOpens ==
  ASSUME DeskInv, HasRoom, NEW s \in Sessions, NEW row \in Rows, Dial(s, row),
         UNCHANGED <<app, themeName>>
  PROVE  Opening
  <1>1. app \in Settings
    BY DEF DeskInv, TypeOK, LooksOK
  <1>2. resolveTabSettings(row, app) \in Owns
    BY <1>1, ResolvedOwn
  <1>3. openTab(s, resolveTabSettings(row, app))
    BY DEF Dial
  <1> QED BY <1>2, <1>3 DEF Opening

LEMMA AskIsStill ==
  ASSUME NEW s, NEW row, Ask(s, row), UNCHANGED <<app, themeName>>
  PROVE  Still
  BY DEF Ask, NoTab, Still

LEMMA WithVaultShape ==
  ASSUME DeskInv, HasRoom, NEW s \in Sessions, NEW row \in Rows, NEW open \in BOOLEAN,
         WithVault(s, row, open), UNCHANGED <<app, themeName>>
  PROVE  Still \/ Opening
  <1>1. Dial(s, row) \/ Ask(s, row)
    BY DEF WithVault
  <1> QED BY <1>1, DialOpens, AskIsStill

LEMMA OpenSessionShape ==
  ASSUME DeskInv, NEW s \in Sessions, openSession(s)
  PROVE  Still \/ Opening
  <1>1. HasRoom /\ UNCHANGED <<app, themeName>> /\ s \in DOMAIN rows
    BY DEF openSession
  <1>2. rows[s] \in Rows
    BY <1>1 DEF DeskInv, TypeOK, StoreOK
  <1>3. \/ Dial(s, rows[s]) \/ Ask(s, rows[s])
        \/ WithVault(s, rows[s], TRUE) \/ NoTab
    BY DEF openSession
  <1>4. CASE WithVault(s, rows[s], TRUE)
    BY <1>1, <1>2, <1>4, WithVaultShape
  <1>5. CASE NoTab
    BY <1>1, <1>5 DEF NoTab, Still
  <1> QED BY <1>1, <1>2, <1>3, <1>4, <1>5, DialOpens, AskIsStill

(* Every action has one of the shapes.                                      *)
LEMMA Shapes ==
  ASSUME DeskInv, [Next]_vars
  PROVE  Still \/ Opening \/ Closing \/ Repainting \/ Linking \/ Destroying \/ Relaunch
  <1>1. CASE UNCHANGED vars
    BY <1>1 DEF vars, Still
  <1>2. ASSUME NEW s \in Sessions, openSession(s) PROVE Still \/ Opening
    BY <1>2, OpenSessionShape
  <1>3. ASSUME NEW s \in Sessions, RowDeleted(s) \/ \E row \in Rows : RowWritten(s, row)
        PROVE  Still
    BY <1>3 DEF RowDeleted, RowWritten, Still
  <1>4. ASSUME AnswerUnlock PROVE Still \/ Opening
    <2>1. modal.session \in Sessions /\ modal.row \in Rows
      BY <1>4 DEF AnswerUnlock, DeskInv, TypeOK, OtherOK, Dialogs
    <2>2. PICK unlocked \in BOOLEAN : WithVault(modal.session, modal.row, unlocked)
      BY <1>4 DEF AnswerUnlock
    <2>3. HasRoom /\ UNCHANGED <<app, themeName>>
      BY <1>4 DEF AnswerUnlock
    <2> QED BY <2>1, <2>2, <2>3, WithVaultShape
  <1>5. ASSUME AnswerCredential PROVE Still \/ Opening
    <2>1. modal.session \in Sessions /\ modal.row \in Rows
      BY <1>5 DEF AnswerCredential, DeskInv, TypeOK, OtherOK, Dialogs
    <2>2. HasRoom /\ UNCHANGED <<app, themeName>>
      BY <1>5 DEF AnswerCredential
    <2>3. Dial(modal.session, modal.row) \/ NoTab
      BY <1>5 DEF AnswerCredential
    <2>4. CASE NoTab
      BY <2>2, <2>4 DEF NoTab, Still
    <2> QED BY <2>1, <2>2, <2>3, <2>4, DialOpens
  <1>6. ASSUME quickConnect PROVE Opening
    <2>1. app \in Settings
      BY DEF DeskInv, TypeOK, LooksOK
    <2>2. resolveQuickConnect(app) \in Owns
      BY <2>1 DEF resolveQuickConnect, Owns, Pins, Settings
    <2>3. openTab(Quick, resolveQuickConnect(app)) /\ HasRoom /\ UNCHANGED <<app, themeName>>
      BY <1>6 DEF quickConnect
    <2> QED BY <2>2, <2>3 DEF Opening
  <1>7. ASSUME NEW victims, closeTabSet(victims) PROVE Closing \/ Still
    <2>1. UNCHANGED <<app, themeName>>
      BY <1>7 DEF closeTabSet
    <2>2. Close(victims) \/ NoTab
      BY <1>7 DEF closeTabSet
    <2> QED BY <2>1, <2>2 DEF Closing, Still, NoTab
  <1>8. ASSUME NEW t, closeTab(t) PROVE Closing
    BY <1>8 DEF closeTab, Closing
  <1>9. ASSUME TabMenu PROVE Closing \/ Still
    BY <1>7, <1>8, <1>9 DEF TabMenu
  <1>10. ASSUME AnswerClose PROVE Closing \/ Still
    BY <1>10 DEF AnswerClose, Closing, Still, NoTab
  <1>11. ASSUME openSettings \/ UnlockFromMenu \/ openCredentialManager \/ lockVault \/ VaultMenuShown
         PROVE  Still
    BY <1>11 DEF openSettings, UnlockFromMenu, openCredentialManager, lockVault, VaultMenuShown, Still
  <1>12. ASSUME CancelSettings PROVE Repainting
    BY <1>12 DEF CancelSettings, Repainting
  <1>13. ASSUME NEW name, Preview(name) \/ ThemeChosen(name) PROVE Repainting
    BY <1>13 DEF Preview, ThemeChosen, Repainting
  <1>14. ASSUME NEW theme \in ThemeNames, NEW font \in Sizes, NEW m \in Modes,
                SaveSettings([theme |-> theme, font |-> font], m)
         PROVE  Repainting
    <2> DEFINE a == [theme |-> theme, font |-> font]
    <2>1. a \in Settings
      BY DEF Settings
    <2>2. Settled(a) /\ UNCHANGED <<strip, entries>>
      BY <1>14 DEF SaveSettings
    <2> QED BY <2>1, <2>2 DEF Repainting
  <1>15. CASE Next
    BY <1>2, <1>3, <1>4, <1>5, <1>6, <1>9, <1>10, <1>11, <1>12, <1>13, <1>14, <1>15
       DEF Next, Linking, Destroying
  <1> QED BY <1>1, <1>15

------------------------------------------------------------------------------
(* The tabs.                                                                *)

LEMMA FreshIsFree ==
  ASSUME HasRoom
  PROVE  Fresh \in Tabs /\ Fresh \notin DOMAIN tab
  BY DEF HasRoom, Fresh

(* What openTab leaves: one tab more, of its session, at the right end.     *)
LEMMA Opened ==
  ASSUME DeskInv, HasRoom, NEW s \in Sessions \cup {Quick}, NEW own \in Owns, openTab(s, own)
  PROVE  \E t \in Tabs \ DOMAIN tab, link \in Links :
           /\ tab' = Put(tab, t, [session |-> s, link |-> link, font |-> own.font, pin |-> own.pin,
                                  painted |-> themeForTab(own.pin, themeName)])
           /\ strip' = Put(strip, t, DOMAIN strip)
           /\ entries' = setLink(attach(entries, s, t), s, t, link)
  <1>1. Fresh \in Tabs \ DOMAIN tab
    BY FreshIsFree
  <1>2. {"Connecting", "Dead"} \subseteq Links
    BY DEF Links
  <1> QED BY <1>1, <1>2 DEF openTab

LEMMA OpeningTabs ==
  ASSUME DeskInv, Opening
  PROVE  TabsOK' /\ PinsPainted'
  <1>1. PICK s \in Sessions \cup {Quick} : \E own \in Owns : openTab(s, own)
    BY DEF Opening
  <1>2. PICK own \in Owns : openTab(s, own)
    BY <1>1
  <1>3. PICK t \in Tabs \ DOMAIN tab : \E link \in Links :
           /\ tab' = Put(tab, t, [session |-> s, link |-> link, font |-> own.font, pin |-> own.pin,
                                  painted |-> themeForTab(own.pin, themeName)])
           /\ strip' = Put(strip, t, DOMAIN strip)
    BY <1>2, Opened DEF Opening
  <1>4. PICK link \in Links :
           /\ tab' = Put(tab, t, [session |-> s, link |-> link, font |-> own.font, pin |-> own.pin,
                                  painted |-> themeForTab(own.pin, themeName)])
           /\ strip' = Put(strip, t, DOMAIN strip)
    BY <1>3
  <1> DEFINE rec == [session |-> s, link |-> link, font |-> own.font, pin |-> own.pin,
                     painted |-> themeForTab(own.pin, themeName)]
  <1>5. rec \in TabTypes
    <2>1. themeName \in Installed
      BY DEF DeskInv, TypeOK, LooksOK
    <2>2. themeForTab(own.pin, themeName) \in ThemeNames
      BY <2>1, PaintedInInstalled
    <2> QED BY <2>2 DEF TabTypes, Owns
  <1>6. rec.painted = themeForTab(rec.pin, themeName)
    OBVIOUS
  <1> HIDE DEF rec
  <1>7. /\ DOMAIN tab' = DOMAIN tab \cup {t}
        /\ tab'[t] = rec
        /\ \A u \in DOMAIN tab : tab'[u] = tab[u]
    <2>1. tab' = Put(tab, t, rec)
      BY <1>4 DEF rec
    <2> QED BY <2>1 DEF Put
  <1>8. DOMAIN strip' = DOMAIN strip \cup {t}
    BY <1>4, PutFacts
  <1>9. TabsOK
    BY DEF DeskInv, TypeOK
  <1>10. TabsOK'
    BY <1>5, <1>7, <1>8, <1>9 DEF TabsOK
  <1>11. ASSUME app'.theme \in Installed, NEW u \in DOMAIN strip'
         PROVE  tab'[u].painted = themeForTab(tab'[u].pin, themeName')
    <2>1. app' = app /\ themeName' = themeName
      BY DEF Opening
    <2>2. PinsPainted
      BY DEF DeskInv
    <2>3. CASE u = t
      BY <2>1, <2>3, <1>6, <1>7
    <2>4. CASE u \in DOMAIN strip
      <3>1. tab'[u] = tab[u]
        BY <2>4, <1>7, <1>9 DEF TabsOK
      <3> QED BY <2>1, <2>2, <2>4, <3>1, <1>11 DEF PinsPainted
    <2> QED BY <2>3, <2>4, <1>8
  <1>12. PinsPainted'
    BY <1>11 DEF PinsPainted, themeForTab
  <1> QED BY <1>10, <1>12

(* Painting, resolving and previewing leave a tab its session and its link. *)
SameTabs(a, b) ==
  /\ DOMAIN a = DOMAIN b
  /\ \A t \in DOMAIN b : a[t].session = b[t].session /\ a[t].link = b[t].link

LEMMA PaintedFacts ==
  ASSUME NEW tabs, \A t \in DOMAIN tabs : tabs[t] \in TabTypes, NEW name \in Installed
  PROVE  /\ SameTabs(Painted(tabs, name), tabs)
         /\ \A t \in DOMAIN tabs : /\ Painted(tabs, name)[t] \in TabTypes
                                   /\ Painted(tabs, name)[t].pin = tabs[t].pin
                                   /\ Painted(tabs, name)[t].font = tabs[t].font
                                   /\ t \in DOMAIN strip =>
                                        Painted(tabs, name)[t].painted = themeForTab(tabs[t].pin, name)
  <1>1. DOMAIN Painted(tabs, name) = DOMAIN tabs
    BY DEF Painted
  <1>2. ASSUME NEW t \in DOMAIN tabs
        PROVE  /\ Painted(tabs, name)[t] \in TabTypes
               /\ Painted(tabs, name)[t].session = tabs[t].session
               /\ Painted(tabs, name)[t].link = tabs[t].link
               /\ Painted(tabs, name)[t].pin = tabs[t].pin
               /\ Painted(tabs, name)[t].font = tabs[t].font
               /\ t \in DOMAIN strip =>
                    Painted(tabs, name)[t].painted = themeForTab(tabs[t].pin, name)
    <2> DEFINE new == themeForTab(tabs[t].pin, name)
    <2>1. new \in ThemeNames
      BY PaintedInInstalled
    <2>2. tabs[t] \in TabTypes
      OBVIOUS
    <2>3. Painted(tabs, name)[t] = IF t \in DOMAIN strip THEN [tabs[t] EXCEPT !.painted = new] ELSE tabs[t]
      BY DEF Painted
    <2> HIDE DEF new
    <2>4. /\ [tabs[t] EXCEPT !.painted = new] \in TabTypes
          /\ [tabs[t] EXCEPT !.painted = new].painted = new
          /\ [tabs[t] EXCEPT !.painted = new].session = tabs[t].session
          /\ [tabs[t] EXCEPT !.painted = new].link = tabs[t].link
          /\ [tabs[t] EXCEPT !.painted = new].pin = tabs[t].pin
          /\ [tabs[t] EXCEPT !.painted = new].font = tabs[t].font
      BY <2>1, <2>2 DEF TabTypes
    <2>5. t \in DOMAIN strip => Painted(tabs, name)[t].painted = new
      BY <2>3, <2>4
    <2> QED BY <2>2, <2>3, <2>4, <2>5 DEF new
  <1> QED BY <1>1, <1>2 DEF SameTabs

LEMMA AppliedFacts ==
  ASSUME DeskInv, NEW a \in Settings
  PROVE  /\ SameTabs(applySettingsToTabs(tab, a), tab)
         /\ \A t \in DOMAIN tab : applySettingsToTabs(tab, a)[t] \in TabTypes
  <1>1. DOMAIN applySettingsToTabs(tab, a) = DOMAIN tab
    BY DEF applySettingsToTabs
  <1>2. ASSUME NEW t \in DOMAIN tab
        PROVE  /\ applySettingsToTabs(tab, a)[t] \in TabTypes
               /\ applySettingsToTabs(tab, a)[t].session = tab[t].session
               /\ applySettingsToTabs(tab, a)[t].link = tab[t].link
    <2> DEFINE own == IF tab[t].session \in DOMAIN rows
                      THEN resolveTabSettings(rows[tab[t].session], a)
                      ELSE resolveQuickConnect(a)
    <2>1. own \in Owns
      <3>1. CASE tab[t].session \in DOMAIN rows
        <4>1. rows[tab[t].session] \in Rows
          BY <3>1 DEF DeskInv, TypeOK, StoreOK
        <4> QED BY <3>1, <4>1, ResolvedOwn
      <3>2. CASE tab[t].session \notin DOMAIN rows
        BY <3>2 DEF resolveQuickConnect, Owns, Pins, Settings
      <3> QED BY <3>1, <3>2
    <2>2. tab[t] \in TabTypes
      BY DEF DeskInv, TypeOK, TabsOK
    <2>3. applySettingsToTabs(tab, a)[t] =
            IF t \notin DOMAIN strip THEN tab[t]
            ELSE [tab[t] EXCEPT !.font = own.font, !.pin = own.pin]
      BY DEF applySettingsToTabs
    <2> HIDE DEF own
    <2>4. own.font \in Sizes /\ own.pin \in Pins
      BY <2>1 DEF Owns
    <2>5. ASSUME NEW x \in Sizes, NEW y \in Pins
          PROVE  /\ [tab[t] EXCEPT !.font = x, !.pin = y] \in TabTypes
                 /\ [tab[t] EXCEPT !.font = x, !.pin = y].session = tab[t].session
                 /\ [tab[t] EXCEPT !.font = x, !.pin = y].link = tab[t].link
      BY <2>2 DEF TabTypes
    <2> QED BY <2>2, <2>3, <2>4, <2>5
  <1> QED BY <1>1, <1>2 DEF SameTabs

(* The walk that paints, or none for a name that resolves to nothing: in    *)
(* both cases the settings hold an installed theme only if every tab of the *)
(* strip is painted for it.                                                 *)
LEMMA ApplyTheme ==
  ASSUME DeskInv, NEW tabs, \A t \in DOMAIN tabs : tabs[t] \in TabTypes,
         NEW a \in Settings, NEW name, Shown(applyThemeByName(tabs, a, name))
  PROVE  /\ SameTabs(tab', tabs)
         /\ \A t \in DOMAIN tabs : tab'[t] \in TabTypes
         /\ app' \in Settings /\ themeName' \in Installed
         /\ app'.font = a.font
         /\ name \in Installed => /\ app'.theme = name /\ themeName' = name
                                  /\ \A t \in DOMAIN tabs \cap DOMAIN strip :
                                       tab'[t].painted = themeForTab(tab'[t].pin, name)
         /\ name \notin Installed => tab' = tabs /\ app' = a /\ themeName' = themeName
         /\ \A t \in DOMAIN tabs : tab'[t].pin = tabs[t].pin /\ tab'[t].font = tabs[t].font
  <1>1. CASE name \in Installed
    <2>1. tab' = Painted(tabs, name) /\ app' = [a EXCEPT !.theme = name] /\ themeName' = name
      BY <1>1 DEF Shown, applyThemeByName
    <2>2. name \in ThemeNames
      BY <1>1, DeskAssumption
    <2>3. app' \in Settings /\ app'.theme = name /\ app'.font = a.font
      BY <2>1, <2>2 DEF Settings
    <2>4. \A t \in DOMAIN tabs : /\ tab'[t] \in TabTypes
                                 /\ tab'[t].pin = tabs[t].pin
                                 /\ tab'[t].font = tabs[t].font
                                 /\ t \in DOMAIN strip =>
                                      tab'[t].painted = themeForTab(tabs[t].pin, name)
      BY <1>1, <2>1, PaintedFacts
    <2>5. SameTabs(tab', tabs)
      BY <1>1, <2>1, PaintedFacts
    <2>6. \A t \in DOMAIN tabs \cap DOMAIN strip :
            tab'[t].painted = themeForTab(tab'[t].pin, name)
      BY <2>4
    <2> QED BY <1>1, <2>1, <2>3, <2>4, <2>5, <2>6
  <1>2. CASE name \notin Installed
    <2>1. tab' = tabs /\ app' = a /\ themeName' = themeName
      BY <1>2 DEF Shown, applyThemeByName
    <2>2. themeName \in Installed
      BY DEF DeskInv, TypeOK, LooksOK
    <2>3. SameTabs(tab', tabs)
      BY <2>1 DEF SameTabs
    <2> QED BY <1>2, <2>1, <2>2, <2>3
  <1> QED BY <1>1, <1>2

LEMMA RepaintingTabs ==
  ASSUME DeskInv, Repainting
  PROVE  /\ TabsOK' /\ PinsPainted' /\ SameTabs(tab', tab)
         /\ app' \in Settings /\ themeName' \in Installed
  <1>1. TabsOK /\ app \in Settings /\ PinsPainted
    BY DEF DeskInv, TypeOK, LooksOK
  <1>2. \A t \in DOMAIN tab : tab[t] \in TabTypes
    BY <1>1 DEF TabsOK
  <1>3. strip' = strip
    BY DEF Repainting
  <1>4. ASSUME NEW name, Shown(applyThemeByName(tab, app, name))
        PROVE  /\ TabsOK' /\ PinsPainted' /\ SameTabs(tab', tab)
               /\ app' \in Settings /\ themeName' \in Installed
    <2>1. /\ SameTabs(tab', tab)
          /\ \A t \in DOMAIN tab : tab'[t] \in TabTypes
          /\ app' \in Settings /\ themeName' \in Installed
      BY <1>1, <1>2, <1>4, ApplyTheme
    <2>2. TabsOK'
      BY <1>1, <1>3, <2>1 DEF TabsOK, SameTabs
    <2>3. CASE name \in Installed
      <3>1. themeName' = name
        BY <1>1, <1>2, <1>4, <2>3, ApplyTheme
      <3>2. \A t \in DOMAIN tab \cap DOMAIN strip :
              tab'[t].painted = themeForTab(tab'[t].pin, name)
        BY <1>1, <1>2, <1>4, <2>3, ApplyTheme
      <3>3. PinsPainted'
        BY <1>1, <1>3, <3>1, <3>2 DEF PinsPainted, TabsOK, themeForTab
      <3> QED BY <2>1, <2>2, <3>3
    <2>4. CASE name \notin Installed
      <3>1. tab' = tab /\ app' = app /\ themeName' = themeName
        BY <1>1, <1>2, <1>4, <2>4, ApplyTheme
      <3>2. PinsPainted'
        BY <1>1, <1>3, <3>1 DEF PinsPainted, themeForTab
      <3> QED BY <2>1, <2>2, <3>2
    <2> QED BY <2>3, <2>4
  <1>5. ASSUME NEW a \in Settings, Settled(a)
        PROVE  /\ TabsOK' /\ PinsPainted' /\ SameTabs(tab', tab)
               /\ app' \in Settings /\ themeName' \in Installed
    <2> DEFINE tabs == applySettingsToTabs(tab, a)
               name == a.theme
    <2>1. SameTabs(tabs, tab) /\ \A t \in DOMAIN tab : tabs[t] \in TabTypes
      BY AppliedFacts
    <2>2. Shown(applyThemeByName(tabs, a, name))
      BY <1>5 DEF Settled
    <2>3. name \notin Installed => ~(a.theme \in Installed)
      OBVIOUS
    <2> HIDE DEF tabs, name
    <2>4. DOMAIN tabs = DOMAIN tab
      BY <2>1 DEF SameTabs
    <2>5. \A t \in DOMAIN tabs : tabs[t] \in TabTypes
      BY <2>1, <2>4
    <2>6. /\ SameTabs(tab', tabs)
          /\ \A t \in DOMAIN tabs : tab'[t] \in TabTypes
          /\ app' \in Settings /\ themeName' \in Installed
      BY <2>2, <2>5, ApplyTheme
    <2>7. SameTabs(tab', tab)
      BY <2>1, <2>6 DEF SameTabs
    <2>8. TabsOK'
      BY <1>1, <1>3, <2>4, <2>6 DEF TabsOK, SameTabs
    <2>9. CASE name \in Installed
      <3>1. themeName' = name
        BY <2>2, <2>5, <2>9, ApplyTheme
      <3>2. \A t \in DOMAIN tabs \cap DOMAIN strip :
              tab'[t].painted = themeForTab(tab'[t].pin, name)
        BY <2>2, <2>5, <2>9, ApplyTheme
      <3>3. PinsPainted'
        BY <1>1, <1>3, <2>4, <3>1, <3>2 DEF PinsPainted, TabsOK, themeForTab
      <3> QED BY <2>6, <2>7, <2>8, <3>3
    <2>10. CASE name \notin Installed
      <3>1. app' = a
        BY <2>2, <2>5, <2>10, ApplyTheme
      <3>2. PinsPainted'
        BY <2>3, <2>10, <3>1 DEF PinsPainted
      <3> QED BY <2>6, <2>7, <2>8, <3>2
    <2> QED BY <2>9, <2>10
  <1> QED BY <1>4, <1>5 DEF Repainting

LEMMA LinkingTabs ==
  ASSUME DeskInv, Linking
  PROVE  TabsOK' /\ PinsPainted'
  <1>1. PICK t \in Tabs, link \in Links : LinkChanged(t, link)
    BY DEF Linking
  <1>2. TabsOK /\ PinsPainted
    BY DEF DeskInv, TypeOK
  <1>3. /\ t \in DOMAIN tab /\ tab' = [tab EXCEPT ![t].link = link]
        /\ strip' = strip /\ app' = app /\ themeName' = themeName
    BY <1>1 DEF LinkChanged
  <1>4. t \in DOMAIN tab
    BY <1>3
  <1>5. /\ DOMAIN tab' = DOMAIN tab
        /\ \A u \in DOMAIN tab : tab'[u] = IF u = t THEN [tab[t] EXCEPT !.link = link] ELSE tab[u]
    BY <1>3, <1>4
  <1>6. ASSUME NEW u \in DOMAIN tab
        PROVE  /\ tab'[u] \in TabTypes
               /\ tab'[u].painted = tab[u].painted /\ tab'[u].pin = tab[u].pin
    <2>1. tab[u] \in TabTypes
      BY <1>2 DEF TabsOK
    <2>2. ASSUME NEW r \in TabTypes
          PROVE  /\ [r EXCEPT !.link = link] \in TabTypes
                 /\ [r EXCEPT !.link = link].painted = r.painted
                 /\ [r EXCEPT !.link = link].pin = r.pin
      BY DEF TabTypes
    <2> QED BY <1>5, <2>1, <2>2, ZenonT(30)
  <1>7. TabsOK'
    BY <1>2, <1>3, <1>5, <1>6 DEF TabsOK
  <1>8. PinsPainted'
    BY <1>2, <1>3, <1>6 DEF PinsPainted, themeForTab, TabsOK
  <1> QED BY <1>7, <1>8

(* What a close leaves: the same tabs, those it hung up with other links.   *)
LinkedTo(a, b, links) ==
  /\ DOMAIN a = DOMAIN b
  /\ \A t \in DOMAIN b :
       /\ a[t] \in TabTypes
       /\ a[t].session = b[t].session /\ a[t].pin = b[t].pin /\ a[t].painted = b[t].painted
       /\ a[t].link = IF t \in DOMAIN links THEN links[t] ELSE b[t].link

LEMMA Terminated ==
  ASSUME DeskInv, NEW victims \in SUBSET DOMAIN strip, terminate(victims)
  PROVE  \E links \in [victims -> Links] : LinkedTo(tab', tab, links) /\ entries' = setLinks(entries, links)
  <1>1. PICK links \in [victims -> Links] :
          /\ tab' = [t \in DOMAIN tab |-> IF t \in victims THEN [tab[t] EXCEPT !.link = links[t]]
                                                           ELSE tab[t]]
          /\ entries' = setLinks(entries, links)
    BY DEF terminate
  <1>2. ASSUME NEW r \in TabTypes, NEW x \in Links
        PROVE  /\ [r EXCEPT !.link = x] \in TabTypes
               /\ [r EXCEPT !.link = x].session = r.session
               /\ [r EXCEPT !.link = x].pin = r.pin
               /\ [r EXCEPT !.link = x].painted = r.painted
               /\ [r EXCEPT !.link = x].link = x
    BY DEF TabTypes
  <1>3. DOMAIN links = victims /\ \A t \in victims : links[t] \in Links
    OBVIOUS
  <1>4. ASSUME NEW t \in DOMAIN tab
        PROVE  /\ tab'[t] \in TabTypes
               /\ tab'[t].session = tab[t].session /\ tab'[t].pin = tab[t].pin
               /\ tab'[t].painted = tab[t].painted
               /\ tab'[t].link = IF t \in DOMAIN links THEN links[t] ELSE tab[t].link
    <2>1. tab[t] \in TabTypes
      BY DEF DeskInv, TypeOK, TabsOK
    <2>2. tab'[t] = IF t \in victims THEN [tab[t] EXCEPT !.link = links[t]] ELSE tab[t]
      BY <1>1
    <2>3. CASE t \in victims
      <3>1. tab'[t] = [tab[t] EXCEPT !.link = links[t]]
        BY <2>2, <2>3
      <3>2. links[t] \in Links
        BY <1>3, <2>3
      <3> QED BY <1>2, <1>3, <2>1, <2>3, <3>1, <3>2
    <2>4. CASE t \notin victims
      BY <1>3, <2>1, <2>2, <2>4
    <2> QED BY <2>3, <2>4
  <1>5. DOMAIN tab' = DOMAIN tab
    BY <1>1
  <1> QED BY <1>1, <1>4, <1>5 DEF LinkedTo

LEMMA ClosingTabs ==
  ASSUME DeskInv, Closing
  PROVE  /\ TabsOK' /\ PinsPainted'
         /\ DOMAIN strip' \subseteq DOMAIN strip
         /\ \E links \in UNION {[v -> Links] : v \in SUBSET DOMAIN tab} :
              LinkedTo(tab', tab, links) /\ entries' = setLinks(entries, links)
  <1>1. PICK victims : Close(victims)
    BY DEF Closing
  <1>2. TabsOK /\ PinsPainted
    BY DEF DeskInv, TypeOK
  <1>3. DOMAIN strip' \subseteq DOMAIN strip
    BY <1>1, ClosedShrinks DEF Close
  <1>4. PICK links \in [victims \cap DOMAIN strip -> Links] :
          LinkedTo(tab', tab, links) /\ entries' = setLinks(entries, links)
    BY <1>1, Terminated DEF Close
  <1>5. links \in UNION {[v -> Links] : v \in SUBSET DOMAIN tab}
    <2>1. victims \cap DOMAIN strip \in SUBSET DOMAIN tab
      BY <1>2 DEF TabsOK
    <2> QED BY <2>1
  <1>6. TabsOK'
    BY <1>2, <1>3, <1>4 DEF TabsOK, LinkedTo
  <1>7. PinsPainted'
    <2>1. app' = app /\ themeName' = themeName
      BY DEF Closing
    <2> QED BY <1>2, <1>3, <1>4, <2>1 DEF PinsPainted, themeForTab, TabsOK, LinkedTo
  <1> QED BY <1>3, <1>4, <1>5, <1>6, <1>7

LEMMA DestroyingTabs ==
  ASSUME DeskInv, Destroying
  PROVE  TabsOK' /\ PinsPainted'
  <1>1. PICK t \in Tabs : Destroyed(t)
    BY DEF Destroying
  <1>2. TabsOK /\ PinsPainted
    BY DEF DeskInv, TypeOK
  <1>3. /\ t \notin DOMAIN strip /\ tab' = Without(tab, t)
        /\ strip' = strip /\ app' = app /\ themeName' = themeName
    BY <1>1 DEF Destroyed
  <1>4. DOMAIN tab' = DOMAIN tab \ {t} /\ \A u \in DOMAIN tab' : tab'[u] = tab[u]
    BY <1>3 DEF Without
  <1>5. TabsOK'
    BY <1>2, <1>3, <1>4 DEF TabsOK
  <1>6. \A u \in DOMAIN strip : tab'[u] = tab[u]
    BY <1>2, <1>3, <1>4 DEF TabsOK
  <1>7. PinsPainted'
    BY <1>2, <1>3, <1>6 DEF PinsPainted, themeForTab
  <1> QED BY <1>5, <1>7

LEMMA NoTabsYet ==
  ASSUME tab' = <<>>, strip' = <<>>
  PROVE  TabsOK' /\ PinsPainted'
  <1>1. DOMAIN tab' = {} /\ DOMAIN strip' = {}
    OBVIOUS
  <1> QED BY <1>1 DEF TabsOK, PinsPainted

(* The tabs and what they are painted in, over every step.                  *)
LEMMA TabsStep ==
  ASSUME DeskInv, [Next]_vars
  PROVE  TabsOK' /\ PinsPainted'
  <1>1. TabsOK /\ PinsPainted
    BY DEF DeskInv, TypeOK
  <1>2. CASE Still
    BY <1>1, <1>2 DEF Still, TabsOK, PinsPainted, themeForTab
  <1>3. CASE Closing
    BY <1>3, ClosingTabs
  <1>4. CASE Relaunch
    BY <1>4, NoTabsYet DEF Relaunch, Launch
  <1> QED BY <1>2, <1>3, <1>4, Shapes, OpeningTabs, RepaintingTabs, LinkingTabs, DestroyingTabs

------------------------------------------------------------------------------
(* The registry.                                                            *)

LEMMA EntryFacts ==
  ASSUME NEW f
  PROVE  Entry(f).perTab = f /\ Entry(f).link = resolve(f) /\ Entry(f) = Entry(Entry(f).perTab)
  BY DEF Entry

(* A session that nothing happened to keeps its entry.                      *)
LEMMA FiledOther ==
  ASSUME NEW entry, NEW a, NEW b, NEW s, FiledAt(entry, a, s),
         Mine(b, s) = Mine(a, s), \A t \in Mine(a, s) : b[t].link = a[t].link
  PROVE  FiledAt(entry, b, s)
  BY DEF FiledAt

LEMMA FiledSame ==
  ASSUME NEW e, NEW a, NEW b, Filed(e, a), SameTabs(b, a)
  PROVE  Filed(e, b)
  <1>1. ASSUME NEW s \in Sessions PROVE FiledAt(e[s], b, s)
    <2>1. FiledAt(e[s], a, s)
      BY DEF Filed
    <2>2. Mine(b, s) = Mine(a, s)
      BY DEF Mine, SameTabs
    <2>3. \A t \in Mine(a, s) : b[t].link = a[t].link
      BY DEF Mine, SameTabs
    <2> QED BY <2>1, <2>2, <2>3, FiledOther
  <1> QED BY <1>1 DEF Filed

(* A session that has a tab has an entry.                                   *)
LEMMA HasEntry ==
  ASSUME NEW entry, NEW t \in DOMAIN entry.perTab
  PROVE  entry # NoEntry
  <1>1. NoEntry.perTab = <<>>
    BY EntryFacts DEF NoEntry
  <1>2. DOMAIN NoEntry.perTab = {}
    BY <1>1
  <1> QED BY <1>2

LEMMA SetLinkFacts ==
  ASSUME NEW e, NEW s \in DOMAIN e, s # Quick, NEW t, e[s] # NoEntry, NEW link
  PROVE  /\ DOMAIN setLink(e, s, t, link) = DOMAIN e
         /\ setLink(e, s, t, link)[s] = Entry(Put(e[s].perTab, t, link))
         /\ \A r \in DOMAIN e \ {s} : setLink(e, s, t, link)[r] = e[r]
  BY DEF setLink

(* openTab: registered first, then linked.                                  *)
LEMMA FiledPut ==
  ASSUME NEW e, NEW a, Filed(e, a), NEW t, t \notin DOMAIN a, NEW s \in Sessions \cup {Quick},
         NEW link, NEW r, r.session = s, r.link = link
  PROVE  Filed(setLink(attach(e, s, t), s, t, link), Put(a, t, r))
  <1> DEFINE b == Put(a, t, r)
  <1>1. /\ DOMAIN b = DOMAIN a \cup {t} /\ b[t] = r
        /\ \A u \in DOMAIN a : b[u] = a[u]
    BY DEF Put
  <1> HIDE DEF b
  <1>2. DOMAIN e = Sessions /\ \A x \in Sessions : FiledAt(e[x], a, x)
    BY DEF Filed
  <1>3. ASSUME NEW x \in Sessions, x # s PROVE FiledAt(e[x], b, x)
    <2>1. Mine(b, x) = Mine(a, x)
      BY <1>1, <1>3 DEF Mine
    <2>2. \A u \in Mine(a, x) : b[u].link = a[u].link
      BY <1>1 DEF Mine
    <2> QED BY <1>2, <2>1, <2>2, FiledOther
  <1>4. CASE s = Quick
    <2>1. setLink(attach(e, s, t), s, t, link) = e
      BY <1>4 DEF setLink, attach
    <2>2. \A x \in Sessions : x # s
      BY <1>4, DeskAssumption
    <2>3. Filed(e, b)
      BY <1>2, <1>3, <2>2 DEF Filed
    <2> QED BY <2>1, <2>3 DEF b
  <1>5. CASE s # Quick
    <2> DEFINE e1 == attach(e, s, t)
               f1 == Put(e[s].perTab, t, "Connecting")
               e2 == setLink(e1, s, t, link)
               f2 == Put(f1, t, link)
    <2>1. s \in Sessions
      BY <1>5
    <2>2. /\ DOMAIN e1 = Sessions /\ e1[s] = Entry(f1)
          /\ \A x \in Sessions \ {s} : e1[x] = e[x]
      BY <1>2, <1>5, <2>1 DEF attach
    <2>3. t \in DOMAIN f1
      BY DEF Put
    <2>4. e1[s].perTab = f1
      BY <2>2, EntryFacts
    <2> HIDE DEF e1
    <2>5. e1[s] # NoEntry
      BY <2>3, <2>4, HasEntry
    <2>6. /\ DOMAIN e2 = Sessions /\ e2[s] = Entry(f2)
          /\ \A x \in Sessions \ {s} : e2[x] = e1[x]
      BY <1>5, <2>1, <2>2, <2>4, <2>5, SetLinkFacts
    <2>7. FiledAt(e2[s], b, s)
      <3>1. DOMAIN e[s].perTab = Mine(a, s) /\ \A u \in Mine(a, s) : e[s].perTab[u] = a[u].link
        BY <1>2, <2>1 DEF FiledAt
      <3>2. Mine(b, s) = Mine(a, s) \cup {t}
        BY <1>1 DEF Mine
      <3>3. DOMAIN f2 = Mine(b, s)
        BY <3>1, <3>2 DEF Put
      <3>4. f2[t] = link /\ \A u \in Mine(a, s) : u # t => f2[u] = e[s].perTab[u]
        BY <3>1 DEF Put
      <3> HIDE DEF f2
      <3>5. t \notin Mine(a, s) /\ Mine(a, s) \subseteq DOMAIN a
        BY DEF Mine
      <3>6. \A u \in Mine(b, s) : f2[u] = b[u].link
        BY <1>1, <3>1, <3>2, <3>4, <3>5
      <3>7. e2[s].perTab = f2 /\ e2[s] = Entry(e2[s].perTab)
        BY <2>6, EntryFacts
      <3> QED BY <3>3, <3>6, <3>7 DEF FiledAt
    <2>8. \A x \in Sessions : FiledAt(e2[x], b, x)
      BY <1>3, <2>2, <2>6, <2>7
    <2>9. Filed(e2, b)
      BY <2>6, <2>8 DEF Filed
    <2> QED BY <2>9 DEF e2, e1, b
  <1> QED BY <1>4, <1>5

LEMMA FiledLink ==
  ASSUME NEW e, NEW a, Filed(e, a), NEW t \in DOMAIN a, NEW link,
         a[t].session \in Sessions \cup {Quick}, \A u \in DOMAIN a : a[u] \in TabTypes
  PROVE  Filed(setLink(e, a[t].session, t, link), [a EXCEPT ![t].link = link])
  <1> DEFINE s == a[t].session
             b == [a EXCEPT ![t].link = link]
             e2 == setLink(e, s, t, link)
  <1>1. /\ DOMAIN b = DOMAIN a
        /\ \A u \in DOMAIN a : u # t => b[u] = a[u]
        /\ b[t] = [a[t] EXCEPT !.link = link]
    OBVIOUS
  <1>2. b[t].session = s /\ b[t].link = link
    <2>1. a[t] \in TabTypes
      OBVIOUS
    <2>2. ASSUME NEW r \in TabTypes
          PROVE  [r EXCEPT !.link = link].session = r.session /\ [r EXCEPT !.link = link].link = link
      BY DEF TabTypes
    <2> QED BY <1>1, <2>1, <2>2
  <1> HIDE DEF b
  <1>3. DOMAIN e = Sessions /\ \A x \in Sessions : FiledAt(e[x], a, x)
    BY DEF Filed
  <1>4. \A x \in Sessions : Mine(b, x) = Mine(a, x)
    BY <1>1, <1>2 DEF Mine
  <1>5. ASSUME NEW x \in Sessions, x # s PROVE FiledAt(e[x], b, x)
    <2>1. \A u \in Mine(a, x) : b[u].link = a[u].link
      BY <1>1, <1>5 DEF Mine
    <2> QED BY <1>3, <1>4, <2>1, FiledOther
  <1>6. CASE s = Quick
    <2>1. e2 = e
      BY <1>6 DEF setLink
    <2>2. \A x \in Sessions : x # s
      BY <1>6, DeskAssumption
    <2>3. Filed(e, b)
      BY <1>3, <1>5, <2>2 DEF Filed
    <2> QED BY <2>1, <2>3 DEF b, e2
  <1>7. CASE s # Quick
    <2> DEFINE f2 == Put(e[s].perTab, t, link)
    <2>1. s \in Sessions
      BY <1>7
    <2>2. DOMAIN e[s].perTab = Mine(a, s) /\ \A u \in Mine(a, s) : e[s].perTab[u] = a[u].link
      BY <1>3, <2>1 DEF FiledAt
    <2>3. t \in Mine(a, s)
      BY DEF Mine
    <2>4. e[s] # NoEntry
      BY <2>2, <2>3, HasEntry
    <2> HIDE DEF s
    <2>5. /\ DOMAIN e2 = Sessions /\ e2[s] = Entry(f2)
          /\ \A x \in Sessions \ {s} : e2[x] = e[x]
      BY <1>3, <1>7, <2>1, <2>4, SetLinkFacts
    <2>6. DOMAIN f2 = Mine(b, s)
      BY <1>4, <2>1, <2>2, <2>3 DEF Put
    <2>7. f2[t] = link /\ \A u \in Mine(a, s) : u # t => f2[u] = e[s].perTab[u]
      BY <2>2 DEF Put
    <2> HIDE DEF f2
    <2>8. Mine(a, s) \subseteq DOMAIN a
      BY DEF Mine
    <2>9. \A u \in Mine(b, s) : f2[u] = b[u].link
      BY <1>1, <1>2, <1>4, <2>1, <2>2, <2>7, <2>8
    <2>10. e2[s].perTab = f2 /\ e2[s] = Entry(e2[s].perTab)
      BY <2>5, EntryFacts
    <2>11. FiledAt(e2[s], b, s)
      BY <2>6, <2>9, <2>10 DEF FiledAt
    <2>12. \A x \in Sessions : FiledAt(e2[x], b, x)
      BY <1>5, <2>5, <2>11
    <2>13. Filed(e2, b)
      BY <2>5, <2>12 DEF Filed
    <2> QED BY <2>13 DEF e2, b, s
  <1> QED BY <1>6, <1>7

LEMMA FiledLinks ==
  ASSUME NEW e, NEW b, Filed(e, tab), NEW links,
         DOMAIN links \subseteq DOMAIN tab, LinkedTo(b, tab, links)
  PROVE  Filed(setLinks(e, links), b)
  <1> DEFINE e2 == setLinks(e, links)
  <1>1. DOMAIN e = Sessions /\ \A x \in Sessions : FiledAt(e[x], tab, x)
    BY DEF Filed
  <1>2. DOMAIN e2 = Sessions
    BY <1>1 DEF setLinks
  <1>3. \A x \in Sessions : Mine(b, x) = Mine(tab, x)
    BY DEF Mine, LinkedTo
  <1>4. ASSUME NEW x \in Sessions PROVE FiledAt(e2[x], b, x)
    <2> DEFINE mine == {t \in DOMAIN links : tab[t].session = x}
               f == e[x].perTab
               g == [t \in DOMAIN f \cup mine |-> IF t \in mine THEN links[t] ELSE f[t]]
    <2>1. DOMAIN f = Mine(tab, x) /\ \A t \in Mine(tab, x) : f[t] = tab[t].link
      BY <1>1 DEF FiledAt
    <2>2. e2[x] = IF mine = {} \/ e[x] = NoEntry THEN e[x] ELSE Entry(g)
      BY <1>1 DEF setLinks
    <2>3. mine \subseteq Mine(tab, x)
      BY DEF Mine
    <2>4. DOMAIN g = Mine(tab, x)
      BY <2>1, <2>3
    <2>5. \A t \in DOMAIN g : g[t] = IF t \in mine THEN links[t] ELSE f[t]
      OBVIOUS
    <2>6. \A t \in Mine(tab, x) : b[t].link = IF t \in mine THEN links[t] ELSE tab[t].link
      BY DEF Mine, LinkedTo
    <2>7. mine # {} => e[x] # NoEntry
      <3>1. mine \subseteq DOMAIN e[x].perTab
        BY <2>1, <2>3
      <3> HIDE DEF mine
      <3> QED BY <3>1, HasEntry
    <2> HIDE DEF mine, f, g
    <2>8. CASE mine = {}
      <3>1. e2[x] = e[x]
        BY <2>2, <2>8
      <3>2. \A t \in Mine(tab, x) : b[t].link = tab[t].link
        BY <2>6, <2>8
      <3>3. FiledAt(e[x], b, x)
        BY <1>1, <1>3, <3>2, FiledOther
      <3> QED BY <3>1, <3>3
    <2>9. CASE mine # {}
      <3>1. e2[x] = Entry(g)
        BY <2>2, <2>7, <2>9
      <3>2. e2[x].perTab = g /\ e2[x] = Entry(e2[x].perTab)
        BY <3>1, EntryFacts
      <3>3. DOMAIN g = Mine(b, x)
        BY <1>3, <2>4
      <3>4. \A t \in Mine(b, x) : g[t] = b[t].link
        BY <1>3, <2>1, <2>4, <2>5, <2>6
      <3> QED BY <3>2, <3>3, <3>4 DEF FiledAt
    <2> QED BY <2>8, <2>9
  <1> HIDE DEF e2
  <1>5. Filed(e2, b)
    BY <1>2, <1>4 DEF Filed
  <1> QED BY <1>5 DEF e2

LEMMA FiledWithout ==
  ASSUME NEW e, NEW a, Filed(e, a), NEW t \in DOMAIN a,
         a[t].session \in Sessions \cup {Quick}
  PROVE  Filed(detach(e, a[t].session, t), Without(a, t))
  <1> DEFINE s == a[t].session
             b == Without(a, t)
             e2 == detach(e, s, t)
  <1>1. DOMAIN b = DOMAIN a \ {t} /\ \A u \in DOMAIN b : b[u] = a[u]
    BY DEF Without
  <1> HIDE DEF b
  <1>2. DOMAIN e = Sessions /\ \A x \in Sessions : FiledAt(e[x], a, x)
    BY DEF Filed
  <1>3. ASSUME NEW x \in Sessions, x # s PROVE FiledAt(e[x], b, x)
    <2>1. Mine(b, x) = Mine(a, x)
      BY <1>1, <1>3 DEF Mine
    <2>2. \A u \in Mine(a, x) : b[u].link = a[u].link
      BY <1>1, <2>1 DEF Mine
    <2> QED BY <1>2, <2>1, <2>2, FiledOther
  <1>4. CASE s = Quick
    <2>1. e2 = e
      BY <1>4 DEF detach
    <2>2. \A x \in Sessions : x # s
      BY <1>4, DeskAssumption
    <2>3. Filed(e, b)
      BY <1>2, <1>3, <2>2 DEF Filed
    <2> QED BY <2>1, <2>3 DEF b, e2
  <1>5. CASE s # Quick
    <2> DEFINE f2 == Without(e[s].perTab, t)
    <2>1. s \in Sessions
      BY <1>5
    <2>2. DOMAIN e[s].perTab = Mine(a, s) /\ \A u \in Mine(a, s) : e[s].perTab[u] = a[u].link
      BY <1>2, <2>1 DEF FiledAt
    <2>3. Mine(b, s) = Mine(a, s) \ {t}
      BY <1>1 DEF Mine
    <2> HIDE DEF s
    <2>4. /\ DOMAIN e2 = Sessions /\ e2[s] = Entry(f2)
          /\ \A x \in Sessions \ {s} : e2[x] = e[x]
      BY <1>2, <1>5, <2>1 DEF detach
    <2>5. DOMAIN f2 = Mine(b, s) /\ \A u \in Mine(b, s) : f2[u] = e[s].perTab[u]
      BY <2>2, <2>3 DEF Without
    <2> HIDE DEF f2
    <2>6. Mine(b, s) \subseteq DOMAIN b
      BY DEF Mine
    <2>7. \A u \in Mine(b, s) : f2[u] = b[u].link
      BY <1>1, <2>2, <2>3, <2>5, <2>6
    <2>8. e2[s].perTab = f2 /\ e2[s] = Entry(e2[s].perTab)
      BY <2>4, EntryFacts
    <2>9. FiledAt(e2[s], b, s)
      BY <2>5, <2>7, <2>8 DEF FiledAt
    <2>10. \A x \in Sessions : FiledAt(e2[x], b, x)
      BY <1>3, <2>4, <2>9
    <2>11. Filed(e2, b)
      BY <2>4, <2>10 DEF Filed
    <2> QED BY <2>11 DEF e2, b, s
  <1> QED BY <1>4, <1>5

LEMMA FiledNone ==
  ASSUME NEW a, DOMAIN a = {}
  PROVE  Filed([s \in Sessions |-> NoEntry], a)
  <1>1. NoEntry.perTab = <<>> /\ NoEntry = Entry(NoEntry.perTab)
    BY EntryFacts DEF NoEntry
  <1>2. DOMAIN NoEntry.perTab = {}
    BY <1>1
  <1>3. \A s : Mine(a, s) = {}
    BY DEF Mine
  <1>4. \A s : FiledAt(NoEntry, a, s)
    BY <1>1, <1>2, <1>3 DEF FiledAt
  <1> QED BY <1>4 DEF Filed

(* The registry, over every step.                                           *)
LEMMA RegisteredStep ==
  ASSUME DeskInv, [Next]_vars
  PROVE  Registered'
  <1>1. Filed(entries, tab) /\ TabsOK
    BY DEF DeskInv, TypeOK, Registered
  <1>2. \A t \in DOMAIN tab : tab[t] \in TabTypes /\ tab[t].session \in Sessions \cup {Quick}
    BY <1>1 DEF TabsOK, TabTypes
  <1>3. SUFFICES Filed(entries', tab')
    BY DEF Registered, Filed, FiledAt, Mine, Entry, resolve, rank
  <1>4. CASE Still
    BY <1>1, <1>4 DEF Still
  <1>10. CASE Closing
    <2>1. PICK links \in UNION {[v -> Links] : v \in SUBSET DOMAIN tab} :
            LinkedTo(tab', tab, links) /\ entries' = setLinks(entries, links)
      BY <1>10, ClosingTabs
    <2>2. DOMAIN links \subseteq DOMAIN tab
      OBVIOUS
    <2> QED BY <1>1, <2>1, <2>2, FiledLinks
  <1>5. CASE Opening
    <2>1. PICK s \in Sessions \cup {Quick} : \E own \in Owns : openTab(s, own)
      BY <1>5 DEF Opening
    <2>2. PICK own \in Owns : openTab(s, own)
      BY <2>1
    <2>3. HasRoom
      BY <1>5 DEF Opening
    <2>4. PICK t \in Tabs \ DOMAIN tab : \E link \in Links :
             /\ tab' = Put(tab, t, [session |-> s, link |-> link, font |-> own.font, pin |-> own.pin,
                                    painted |-> themeForTab(own.pin, themeName)])
             /\ entries' = setLink(attach(entries, s, t), s, t, link)
      BY <2>2, <2>3, Opened
    <2>5. PICK link \in Links :
             /\ tab' = Put(tab, t, [session |-> s, link |-> link, font |-> own.font, pin |-> own.pin,
                                    painted |-> themeForTab(own.pin, themeName)])
             /\ entries' = setLink(attach(entries, s, t), s, t, link)
      BY <2>4
    <2> DEFINE r == [session |-> s, link |-> link, font |-> own.font, pin |-> own.pin,
                     painted |-> themeForTab(own.pin, themeName)]
    <2>6. r.session = s /\ r.link = link
      OBVIOUS
    <2>7. tab' = Put(tab, t, r)
      BY <2>5
    <2> HIDE DEF r
    <2>8. Filed(setLink(attach(entries, s, t), s, t, link), Put(tab, t, r))
      BY <1>1, <2>6, FiledPut
    <2> QED BY <2>5, <2>7, <2>8
  <1>6. CASE Repainting
    <2>1. SameTabs(tab', tab) /\ entries' = entries
      BY <1>6, RepaintingTabs DEF Repainting
    <2> QED BY <1>1, <2>1, FiledSame
  <1>7. CASE Linking
    <2>1. PICK t \in Tabs, link \in Links : LinkChanged(t, link)
      BY <1>7 DEF Linking
    <2>2. /\ t \in DOMAIN tab /\ tab' = [tab EXCEPT ![t].link = link]
          /\ entries' = setLink(entries, tab[t].session, t, link)
      BY <2>1 DEF LinkChanged
    <2>3. t \in DOMAIN tab
      BY <2>2
    <2>4. Filed(setLink(entries, tab[t].session, t, link), [tab EXCEPT ![t].link = link])
      BY <1>1, <1>2, <2>3, FiledLink
    <2> QED BY <2>2, <2>4
  <1>8. CASE Destroying
    <2>1. PICK t \in Tabs : Destroyed(t)
      BY <1>8 DEF Destroying
    <2>2. /\ t \in DOMAIN tab /\ tab' = Without(tab, t)
          /\ entries' = detach(entries, tab[t].session, t)
      BY <2>1 DEF Destroyed
    <2>3. Filed(detach(entries, tab[t].session, t), Without(tab, t))
      BY <1>1, <1>2, <2>2, FiledWithout
    <2> QED BY <2>2, <2>3
  <1>9. CASE Relaunch
    <2>1. tab' = <<>> /\ entries' = [s \in Sessions |-> NoEntry]
      BY <1>9 DEF Relaunch, Launch
    <2>2. DOMAIN tab' = {}
      BY <2>1
    <2> QED BY <2>1, <2>2, FiledNone
  <1> QED BY <1>4, <1>5, <1>6, <1>7, <1>8, <1>9, <1>10, Shapes

------------------------------------------------------------------------------
(* The store, the settings, the vault and the dialog.                       *)

LEMMA StoreStep ==
  ASSUME DeskInv, [Next]_vars
  PROVE  StoreOK'
  <1>1. StoreOK
    BY DEF DeskInv, TypeOK
  <1>2. ASSUME NEW s \in Sessions, NEW row \in Rows, RowWritten(s, row) PROVE StoreOK'
    BY <1>1, <1>2 DEF RowWritten, StoreOK
  <1>3. ASSUME NEW s \in Sessions, RowDeleted(s) PROVE StoreOK'
    BY <1>1, <1>3 DEF RowDeleted, StoreOK, Without
  <1>4. ASSUME UNCHANGED rows PROVE StoreOK'
    BY <1>1, <1>4 DEF StoreOK
  <1>5. ASSUME NEW victims, closeTabSet(victims) PROVE UNCHANGED rows
    BY <1>5 DEF closeTabSet
  <1>6. ASSUME TabMenu PROVE UNCHANGED rows
    BY <1>5, <1>6 DEF TabMenu, closeTab
  <1>7. CASE UNCHANGED vars
    BY <1>4, <1>7 DEF vars
  <1>8. ASSUME \/ \E s \in Sessions : openSession(s)
               \/ AnswerUnlock \/ AnswerCredential \/ quickConnect
               \/ \E t \in Tabs, link \in Links : LinkChanged(t, link)
               \/ AnswerClose \/ \E t \in Tabs : Destroyed(t)
        PROVE  UNCHANGED rows
    BY <1>8 DEF openSession, AnswerUnlock, AnswerCredential, quickConnect, LinkChanged, AnswerClose,
                Destroyed
  <1>9. ASSUME \/ openSettings \/ CancelSettings
               \/ \E name \in ThemeNames : Preview(name)
               \/ \E name \in Installed : ThemeChosen(name)
               \/ \E theme \in ThemeNames, font \in Sizes, m \in Modes :
                    SaveSettings([theme |-> theme, font |-> font], m)
               \/ UnlockFromMenu \/ openCredentialManager \/ lockVault \/ VaultMenuShown
               \/ Relaunch
        PROVE  UNCHANGED rows
    BY <1>9 DEF openSettings, CancelSettings, Preview, ThemeChosen, SaveSettings, UnlockFromMenu,
                openCredentialManager, lockVault, VaultMenuShown, Relaunch
  <1>10. CASE Next
    BY <1>2, <1>3, <1>4, <1>6, <1>8, <1>9, <1>10 DEF Next
  <1> QED BY <1>7, <1>10

(* What a start reads from a file is settings, whatever the file lacks.     *)
LEMMA LoadedSettings ==
  ASSUME NEW o, Config(o), NEW a \in load(o)
  PROVE  a \in Settings
  <1>1. Defaults.theme \in ThemeNames /\ Defaults.font \in Sizes
    BY DeskAssumption DEF Defaults
  <1>2. DOMAIN Defaults = {"theme", "font"}
    BY DEF Defaults
  <1>3. Defaults \in Settings
    BY <1>1 DEF Defaults, Settings
  <1>4. fromJson(o) \in Settings
    <2>1. Field(o, "theme", Defaults["theme"]) \in ThemeNames
      BY <1>1 DEF Config, Field
    <2>2. Field(o, "font", Defaults["font"]) \in Sizes
      BY <1>1 DEF Config, Field
    <2>3. fromJson(o) = [key \in {"theme", "font"} |-> Field(o, key, Defaults[key])]
      BY <1>2 DEF fromJson
    <2>4. fromJson(o) = [theme |-> Field(o, "theme", Defaults["theme"]),
                         font |-> Field(o, "font", Defaults["font"])]
      BY <2>3
    <2> QED BY <2>1, <2>2, <2>4 DEF Settings
  <1> QED BY <1>3, <1>4 DEF load

LEMMA SavedConfig ==
  ASSUME NEW o, Config(o), NEW a \in Settings, NEW p \in save(o, a)
  PROVE  Config(p)
  <1>1. DOMAIN Defaults = {"theme", "font"}
    BY DEF Defaults
  <1>2. toJson(a).theme = a.theme /\ toJson(a).font = a.font
    BY <1>1 DEF toJson
  <1>3. Config(toJson(a))
    BY <1>2 DEF Config, Settings
  <1> QED BY <1>3 DEF save

LEMMA StartThemeFacts ==
  ASSUME NEW a
  PROVE  StartTheme(a) \in Installed
  BY DeskAssumption DEF StartTheme

LEMMA LooksStep ==
  ASSUME DeskInv, [Next]_vars
  PROVE  LooksOK'
  <1>1. app \in Settings /\ themeName \in Installed /\ Config(disk)
    BY DEF DeskInv, TypeOK, LooksOK
  <1>2. CASE Relaunch
    <2>1. disk' \in save(disk, app) /\ app' \in load(disk')
          /\ themeName' \in {StartTheme(app')} \cup Flags
      BY <1>2 DEF Relaunch, closeEvent, Launch
    <2>2. Config(disk')
      BY <1>1, <2>1, SavedConfig
    <2>3. app' \in Settings
      BY <2>1, <2>2, LoadedSettings
    <2>4. themeName' \in Installed
      BY <2>1, StartThemeFacts, DeskAssumption
    <2> QED BY <2>2, <2>3, <2>4 DEF LooksOK, Config
  <1>3. CASE ~Relaunch
    <2>1. app' \in Settings /\ themeName' \in Installed
      <3>1. CASE Still \/ Opening \/ Closing \/ Linking \/ Destroying
        BY <1>1, <3>1 DEF Still, Opening, Closing, Linking, Destroying, LinkChanged, Destroyed
      <3>2. CASE Repainting
        BY <3>2, RepaintingTabs
      <3> QED BY <1>3, <3>1, <3>2, Shapes
    <2>2. Config(disk')
      <3>1. ASSUME NEW theme \in ThemeNames, NEW font \in Sizes, NEW m \in Modes,
                   SaveSettings([theme |-> theme, font |-> font], m)
            PROVE  Config(disk')
        <4>1. [theme |-> theme, font |-> font] \in Settings
          BY DEF Settings
        <4>2. disk' \in save(disk, [theme |-> theme, font |-> font])
          BY <3>1 DEF SaveSettings
        <4> QED BY <1>1, <4>1, <4>2, SavedConfig
      <3>2. ASSUME NEW victims, closeTabSet(victims) PROVE UNCHANGED disk
        BY <3>2 DEF closeTabSet, files
      <3>3. ASSUME TabMenu PROVE UNCHANGED disk
        BY <3>2, <3>3 DEF TabMenu, closeTab, files
      <3>4. ASSUME \/ \E s \in Sessions : openSession(s) \/ RowDeleted(s)
                                           \/ \E row \in Rows : RowWritten(s, row)
                   \/ AnswerUnlock \/ AnswerCredential \/ quickConnect
                   \/ \E t \in Tabs, link \in Links : LinkChanged(t, link)
                   \/ AnswerClose \/ \E t \in Tabs : Destroyed(t)
            PROVE  UNCHANGED disk
        BY <3>4 DEF openSession, RowDeleted, RowWritten, AnswerUnlock, AnswerCredential, quickConnect,
                    LinkChanged, AnswerClose, Destroyed, files
      <3>5. ASSUME \/ openSettings \/ CancelSettings
                   \/ \E name \in ThemeNames : Preview(name)
                   \/ \E name \in Installed : ThemeChosen(name)
                   \/ UnlockFromMenu \/ openCredentialManager \/ lockVault \/ VaultMenuShown
            PROVE  UNCHANGED disk
        BY <3>5 DEF openSettings, CancelSettings, Preview, ThemeChosen, UnlockFromMenu,
                    openCredentialManager, lockVault, VaultMenuShown, files
      <3>6. CASE UNCHANGED vars
        BY <1>1, <3>6 DEF vars, files
      <3>7. CASE Next
        BY <1>1, <1>3, <3>1, <3>3, <3>4, <3>5, <3>7 DEF Next
      <3> QED BY <3>6, <3>7
    <2> QED BY <2>1, <2>2 DEF LooksOK, Config
  <1> QED BY <1>2, <1>3

(* The dialog and the vault, of which the invariant says the same things.   *)
VaultSays == OtherOK /\ PillNeverBoasts /\ Asked

NoDialog == [kind |-> "none"]

LEMMA VaultStep ==
  ASSUME DeskInv, [Next]_vars
  PROVE  VaultSays'
  <1>1. /\ vault \in [open : BOOLEAN, pill : BOOLEAN] /\ modal \in Dialogs
        /\ vault.pill => vault.open
        /\ modal.kind = "settings" => app.font = modal.held.font
        /\ modal.kind = "unlock" => ~vault.open
        /\ app \in Settings /\ themeName \in Installed
    BY DEF DeskInv, TypeOK, OtherOK, LooksOK, PillNeverBoasts, Asked
  <1>2. NoDialog \in Dialogs /\ NoDialog.kind = "none"
    BY DEF NoDialog, Dialogs
  <1>3. ASSUME vault' = vault \/ vault' = [vault EXCEPT !.open = TRUE]
               \/ \E o \in BOOLEAN : vault' = [open |-> o, pill |-> o]
        PROVE  vault' \in [open : BOOLEAN, pill : BOOLEAN] /\ (vault'.pill => vault'.open)
    <2>1. CASE vault' = vault
      BY <1>1, <2>1
    <2>2. CASE vault' = [vault EXCEPT !.open = TRUE]
      BY <1>1, <2>2
    <2>3. CASE \E o \in BOOLEAN : vault' = [open |-> o, pill |-> o]
      BY <2>3
    <2> QED BY <1>3, <2>1, <2>2, <2>3
  (* No dialog, or one about neither the settings nor a shut vault.         *)
  <1>4. ASSUME vault' \in [open : BOOLEAN, pill : BOOLEAN], vault'.pill => vault'.open,
               modal' \in Dialogs, modal'.kind \notin {"settings", "unlock"}
        PROVE  VaultSays'
    BY <1>4 DEF VaultSays, OtherOK, PillNeverBoasts, Asked
  (* Nothing the dialog is about changes.                                   *)
  <1>5. ASSUME UNCHANGED <<modal, vault>>, app' = app \/ modal.kind # "settings"
        PROVE  VaultSays'
    BY <1>1, <1>5 DEF VaultSays, OtherOK, PillNeverBoasts, Asked
  <1>6. ASSUME NEW s \in Sessions, NEW row \in Rows, Ask(s, row)
        PROVE  modal' \in Dialogs /\ modal'.kind = "credential"
    BY <1>6 DEF Ask, Dialogs
  <1>7. ASSUME NEW s, NEW row, Dial(s, row)
        PROVE  modal' = NoDialog
    BY <1>7 DEF Dial, NoDialog
  <1>8. ASSUME NEW s \in Sessions, NEW row \in Rows, NEW open \in BOOLEAN, WithVault(s, row, open)
        PROVE  modal' \in Dialogs /\ modal'.kind \notin {"settings", "unlock"}
    <2>1. Ask(s, row) \/ Dial(s, row)
      BY <1>8 DEF WithVault
    <2> QED BY <2>1, <1>2, <1>6, <1>7
  <1>9. ASSUME NEW s \in Sessions, openSession(s) PROVE VaultSays'
    <2>1. rows[s] \in Rows
      BY <1>9 DEF openSession, DeskInv, TypeOK, StoreOK
    <2>2. \/ Dial(s, rows[s]) /\ UNCHANGED vault
          \/ Ask(s, rows[s]) /\ UNCHANGED vault
          \/ WithVault(s, rows[s], TRUE) /\ vault' = [vault EXCEPT !.open = TRUE]
          \/ /\ ~vault.open /\ UNCHANGED vault
             /\ modal' = [kind |-> "unlock", session |-> s, row |-> rows[s]]
      BY <1>9 DEF openSession
    <2>3. CASE Dial(s, rows[s]) /\ UNCHANGED vault
      BY <2>3, <1>2, <1>3, <1>4, <1>7
    <2>4. CASE Ask(s, rows[s]) /\ UNCHANGED vault
      BY <2>1, <2>4, <1>3, <1>4, <1>6
    <2>5. CASE WithVault(s, rows[s], TRUE) /\ vault' = [vault EXCEPT !.open = TRUE]
      BY <2>1, <2>5, <1>3, <1>4, <1>8
    <2>6. CASE /\ ~vault.open /\ UNCHANGED vault
               /\ modal' = [kind |-> "unlock", session |-> s, row |-> rows[s]]
      <3>1. modal' \in Dialogs /\ modal'.kind = "unlock"
        BY <2>1, <2>6 DEF Dialogs
      <3> QED BY <1>1, <2>6, <3>1 DEF VaultSays, OtherOK, PillNeverBoasts, Asked
    <2> QED BY <2>2, <2>3, <2>4, <2>5, <2>6
  <1>10. ASSUME AnswerUnlock PROVE VaultSays'
    <2>1. modal.session \in Sessions /\ modal.row \in Rows /\ ~vault.open
      BY <1>1, <1>10 DEF AnswerUnlock, Dialogs
    <2>2. PICK unlocked \in BOOLEAN : /\ vault' = [vault EXCEPT !.open = unlocked]
                                      /\ WithVault(modal.session, modal.row, unlocked)
      BY <1>10 DEF AnswerUnlock
    <2>3. vault' \in [open : BOOLEAN, pill : BOOLEAN] /\ (vault'.pill => vault'.open)
      BY <1>1, <2>1, <2>2
    <2> QED BY <2>1, <2>2, <2>3, <1>4, <1>8
  <1>11. ASSUME AnswerCredential PROVE VaultSays'
    <2>1. vault' = vault /\ modal' = NoDialog
      BY <1>11, <1>7 DEF AnswerCredential, NoDialog
    <2> QED BY <2>1, <1>2, <1>3, <1>4
  <1>12. ASSUME NEW victims \in SUBSET Tabs, closeTabSet(victims) PROVE VaultSays'
    <2>1. vault' = vault /\ app' = app
          /\ (modal' = modal \/ modal' = [kind |-> "close", victims |-> victims])
      BY <1>12 DEF closeTabSet
    <2>2. CASE modal' = modal
      BY <2>1, <2>2, <1>5
    <2>3. CASE modal' = [kind |-> "close", victims |-> victims]
      <3>1. modal' \in Dialogs /\ modal'.kind = "close"
        BY <2>3 DEF Dialogs
      <3> QED BY <2>1, <3>1, <1>3, <1>4
    <2> QED BY <2>1, <2>2, <2>3
  <1>13. ASSUME TabMenu PROVE VaultSays'
    <2>1. DOMAIN strip \subseteq Tabs
      BY DEF DeskInv, TypeOK, TabsOK
    <2>2. \A t : tabsExcept(t) \in SUBSET Tabs /\ tabsAfter(t) \in SUBSET Tabs
      BY <2>1 DEF tabsExcept, tabsAfter
    <2>3. ASSUME NEW t, closeTab(t) PROVE VaultSays'
      <3>1. UNCHANGED <<modal, vault, app>>
        BY <2>3 DEF closeTab
      <3> QED BY <3>1, <1>5
    <2> QED BY <1>12, <1>13, <2>1, <2>2, <2>3 DEF TabMenu
  <1>14. ASSUME AnswerClose PROVE VaultSays'
    <2>1. vault' = vault /\ modal' = NoDialog
      BY <1>14 DEF AnswerClose, NoDialog
    <2> QED BY <2>1, <1>2, <1>3, <1>4
  <1>15. ASSUME openSettings PROVE VaultSays'
    <2> DEFINE p == [t \in Tabs |-> IF t \in DOMAIN strip THEN tab[t].painted ELSE Fallback]
    <2>1. /\ modal' = [kind |-> "settings", before |-> themeName, held |-> app, painted |-> p]
          /\ UNCHANGED <<vault, app>>
      BY <1>15 DEF openSettings
    <2>4. p \in [Tabs -> ThemeNames]
      <3>1. \A t \in DOMAIN strip : tab[t].painted \in ThemeNames
        BY DEF DeskInv, TypeOK, TabsOK, TabTypes
      <3> QED BY <3>1, DeskAssumption
    <2> HIDE DEF p
    <2>2. modal' \in Dialogs
      BY <1>1, <2>1, <2>4 DEF Dialogs
    <2>3. modal'.kind = "settings" /\ modal'.held = app
      BY <2>1
    <2> QED BY <1>1, <2>1, <2>2, <2>3 DEF VaultSays, OtherOK, PillNeverBoasts, Asked
  <1>16. ASSUME CancelSettings \/ \E theme, font, m : SaveSettings([theme |-> theme, font |-> font], m)
         PROVE  VaultSays'
    <2>1. vault' = vault /\ modal' = NoDialog
      BY <1>16 DEF CancelSettings, SaveSettings, NoDialog
    <2> QED BY <2>1, <1>2, <1>3, <1>4
  <1>17. ASSUME NEW name, Preview(name) PROVE VaultSays'
    <2>1. Shown(applyThemeByName(tab, app, name)) /\ UNCHANGED <<vault, modal>>
      BY <1>17 DEF Preview
    <2>2. \A t \in DOMAIN tab : tab[t] \in TabTypes
      BY DEF DeskInv, TypeOK, TabsOK
    <2>3. app'.font = app.font
      BY <1>1, <2>1, <2>2, ApplyTheme
    <2> QED BY <1>1, <2>1, <2>3 DEF VaultSays, OtherOK, PillNeverBoasts, Asked
  <1>18. ASSUME NEW name, ThemeChosen(name) PROVE VaultSays'
    <2>1. modal = NoDialog /\ UNCHANGED <<vault, modal>>
      BY <1>18 DEF ThemeChosen, Free, NoDialog
    <2> QED BY <1>2, <2>1, <1>5
  <1>19. ASSUME UnlockFromMenu \/ openCredentialManager \/ lockVault \/ VaultMenuShown \/ Relaunch
         PROVE  VaultSays'
    <2>1. modal = NoDialog /\ modal' = modal
      BY <1>19 DEF UnlockFromMenu, openCredentialManager, lockVault, VaultMenuShown, Relaunch, Free,
                   NoDialog
    <2>2. vault.open \in BOOLEAN
      BY <1>1
    <2>3. \/ vault' = vault \/ vault' = [vault EXCEPT !.open = TRUE]
          \/ \E o \in BOOLEAN : vault' = [open |-> o, pill |-> o]
      BY <1>19, <2>2 DEF UnlockFromMenu, openCredentialManager, lockVault, VaultMenuShown, Relaunch,
                   Launch, quietUnlock, refreshVaultPill
    <2> QED BY <1>2, <2>1, <2>3, <1>3, <1>4
  <1>20. ASSUME \/ \E s \in Sessions : RowDeleted(s) \/ \E row \in Rows : RowWritten(s, row)
                \/ quickConnect
                \/ \E t \in Tabs, link \in Links : LinkChanged(t, link)
                \/ \E t \in Tabs : Destroyed(t)
         PROVE  VaultSays'
    <2>1. UNCHANGED <<modal, vault, app>>
      BY <1>20 DEF RowDeleted, RowWritten, quickConnect, LinkChanged, Destroyed
    <2> QED BY <2>1, <1>5
  <1>21. CASE UNCHANGED vars
    BY <1>21, <1>5 DEF vars
  <1>22. CASE Next
    BY <1>9, <1>10, <1>11, <1>13, <1>14, <1>15, <1>16, <1>17, <1>18, <1>19, <1>20, <1>22 DEF Next
  <1> QED BY <1>21, <1>22

(* What the settings dialog found: it begins with the tabs as they are, and *)
(* no step while it is up moves a pin or puts a tab into the strip.         *)
LEMMA FoundStays ==
  ASSUME FoundPainted, modal' = modal, DOMAIN strip' \subseteq DOMAIN strip,
         \A t \in DOMAIN strip : tab'[t].pin = tab[t].pin
  PROVE  FoundPainted'
  BY DEF FoundPainted, themeForTab

(* While it is up the links move, the store is written and it is looked at. *)
LEMMA DialogStays ==
  ASSUME DeskInv, [Next]_vars, modal'.kind = "settings", ~openSettings
  PROVE  /\ modal' = modal
         /\ UNCHANGED <<tab, strip>> \/ Linking \/ \E name : Preview(name)
  <1>1. ASSUME NEW s, NEW row, Ask(s, row) \/ Dial(s, row) PROVE FALSE
    BY <1>1 DEF Ask, Dial
  <1>2. ASSUME NEW s, NEW row, NEW open, WithVault(s, row, open) PROVE FALSE
    BY <1>1, <1>2 DEF WithVault
  <1>3. ASSUME NEW s, openSession(s) PROVE FALSE
    <2>1. \/ Dial(s, rows[s]) /\ UNCHANGED vault
          \/ Ask(s, rows[s]) /\ UNCHANGED vault
          \/ WithVault(s, rows[s], TRUE) /\ vault' = [vault EXCEPT !.open = TRUE]
          \/ /\ ~vault.open /\ UNCHANGED vault
             /\ modal' = [kind |-> "unlock", session |-> s, row |-> rows[s]]
      BY <1>3 DEF openSession
    <2>2. modal' # [kind |-> "unlock", session |-> s, row |-> rows[s]]
      OBVIOUS
    <2> QED BY <1>1, <1>2, <2>1, <2>2
  <1>4. ASSUME AnswerUnlock \/ AnswerCredential PROVE FALSE
    BY <1>1, <1>2, <1>4 DEF AnswerUnlock, AnswerCredential
  <1>5. ASSUME NEW victims, closeTabSet(victims) PROVE FALSE
    BY <1>5 DEF closeTabSet, Free
  <1>6. ASSUME TabMenu PROVE FALSE
    <2>1. ASSUME NEW t, closeTab(t) PROVE FALSE
      BY <2>1 DEF closeTab, Free
    <2> QED BY <1>5, <1>6, <2>1 DEF TabMenu
  <1>7. ASSUME \E s \in Sessions : RowDeleted(s) \/ \E row \in Rows : RowWritten(s, row)
        PROVE  UNCHANGED <<modal, tab, strip>>
    BY <1>7 DEF RowDeleted, RowWritten
  <1>8. ASSUME \/ AnswerClose \/ CancelSettings \/ quickConnect
               \/ \E t \in Tabs : Destroyed(t)
               \/ \E theme \in ThemeNames, font \in Sizes, m \in Modes :
                    SaveSettings([theme |-> theme, font |-> font], m)
               \/ \E name \in Installed : ThemeChosen(name)
               \/ UnlockFromMenu \/ openCredentialManager \/ lockVault \/ VaultMenuShown
               \/ Relaunch
        PROVE  FALSE
    <2>1. (modal' = modal /\ modal = [kind |-> "none"]) \/ modal' = [kind |-> "none"]
      BY <1>8 DEF AnswerClose, CancelSettings, SaveSettings, quickConnect, Destroyed, ThemeChosen,
                  UnlockFromMenu, openCredentialManager, lockVault, VaultMenuShown, Relaunch, Free
    <2> QED BY <2>1
  <1>9. ASSUME NEW t \in Tabs, NEW link \in Links, LinkChanged(t, link)
        PROVE  UNCHANGED modal /\ Linking
    BY <1>9 DEF LinkChanged, Linking
  <1>10. ASSUME NEW name, Preview(name)
         PROVE  UNCHANGED modal
    BY <1>10 DEF Preview
  <1>11. CASE Next
    BY <1>3, <1>4, <1>6, <1>7, <1>8, <1>9, <1>10, <1>11 DEF Next
  <1>12. CASE UNCHANGED vars
    BY <1>12 DEF vars
  <1> QED BY <1>11, <1>12

LEMMA FoundStep ==
  ASSUME DeskInv, [Next]_vars
  PROVE  FoundPainted'
  <1>1. CASE modal'.kind # "settings"
    BY <1>1 DEF FoundPainted
  <1>2. CASE openSettings
    <2> DEFINE p == [t \in Tabs |-> IF t \in DOMAIN strip THEN tab[t].painted ELSE Fallback]
    <2>1. /\ modal' = [kind |-> "settings", before |-> themeName, held |-> app, painted |-> p]
          /\ UNCHANGED <<tab, strip>>
      BY <1>2 DEF openSettings
    <2>2. \A t \in DOMAIN strip : p[t] = tab[t].painted
      BY DEF DeskInv, TypeOK, TabsOK
    <2> HIDE DEF p
    <2>3. modal'.before = themeName /\ modal'.held = app /\ modal'.painted = p
      BY <2>1
    <2>4. app.theme \in Installed => \A t \in DOMAIN strip : p[t] = themeForTab(tab[t].pin, themeName)
      BY <2>2 DEF DeskInv, PinsPainted
    <2> QED BY <2>1, <2>3, <2>4 DEF FoundPainted, themeForTab
  <1>3. CASE modal'.kind = "settings" /\ ~openSettings
    <2>1. modal' = modal /\ modal.kind = "settings"
      BY <1>3, DialogStays
    <2>2. FoundPainted /\ TabsOK
      BY DEF DeskInv, TypeOK
    <2>3. CASE UNCHANGED <<tab, strip>>
      BY <2>1, <2>2, <2>3, FoundStays
    <2>6. CASE Linking
      <3>1. PICK t \in Tabs, link \in Links : LinkChanged(t, link)
        BY <2>6 DEF Linking
      <3>2. strip' = strip /\ tab' = [tab EXCEPT ![t].link = link]
        BY <3>1 DEF LinkChanged
      <3>3. \A u \in DOMAIN tab : tab[u] \in TabTypes
        BY <2>2 DEF TabsOK
      <3>4. ASSUME NEW r \in TabTypes PROVE [r EXCEPT !.link = link].pin = r.pin
        BY DEF TabTypes
      <3>5. ASSUME NEW u \in DOMAIN tab PROVE tab'[u].pin = tab[u].pin
        <4>1. CASE u = t
          <5>1. tab'[u] = [tab[u] EXCEPT !.link = link]
            BY <3>2, <4>1
          <5> QED BY <3>3, <3>4, <5>1
        <4>2. CASE u # t
          BY <3>2, <4>2
        <4> QED BY <4>1, <4>2
      <3> QED BY <2>1, <2>2, <3>2, <3>5, FoundStays DEF TabsOK
    <2>9. CASE \E name : Preview(name)
      <4>1. PICK name : Preview(name)
        BY <2>9
      <4>2. \A t \in DOMAIN tab : tab[t] \in TabTypes
        BY <2>2 DEF TabsOK
      <4>3. app \in Settings
        BY DEF DeskInv, TypeOK, LooksOK
      <4>4. \A t \in DOMAIN tab : tab'[t].pin = tab[t].pin
        <5>1. Shown(applyThemeByName(tab, app, name))
          BY <4>1 DEF Preview
        <5> QED BY <5>1, <4>2, <4>3, ApplyTheme
      <4>5. strip' = strip
        BY <4>1 DEF Preview
      <4> QED BY <2>1, <2>2, <4>4, <4>5, FoundStays DEF TabsOK
    <2> QED BY <1>3, <2>3, <2>6, <2>9, DialogStays
  <1> QED BY <1>1, <1>2, <1>3

------------------------------------------------------------------------------
(* The theorems.                                                            *)

LEMMA DeskStarts == Init => DeskInv
  <1> SUFFICES ASSUME Init PROVE DeskInv
    OBVIOUS
  <1>1. StoreOK
    BY DEF Init, StoreOK
  <1>2. LooksOK
    <2>1. Config(disk)
      BY DeskAssumption DEF Init, Config
    <2>2. app \in Settings
      BY <2>1, LoadedSettings DEF Init
    <2>3. themeName \in Installed
      BY StartThemeFacts, DeskAssumption DEF Init
    <2> QED BY <2>1, <2>2, <2>3 DEF LooksOK
  <1>3. DOMAIN tab = {} /\ DOMAIN strip = {}
    BY DEF Init
  <1>4. TabsOK /\ PinsPainted
    BY <1>3 DEF TabsOK, PinsPainted
  <1>5. Registered
    BY <1>3, FiledNone DEF Init, Registered
  <1>6. modal \in Dialogs /\ modal.kind = "none"
    BY DEF Init, Dialogs
  <1>7. vault \in [open : BOOLEAN, pill : BOOLEAN] /\ (vault.pill => vault.open)
    BY DEF Init
  <1> QED BY <1>1, <1>2, <1>4, <1>5, <1>6, <1>7
          DEF DeskInv, TypeOK, OtherOK, PillNeverBoasts, Asked, FoundPainted

LEMMA DeskStep == DeskInv /\ [Next]_vars => DeskInv'
  <1> SUFFICES ASSUME DeskInv, [Next]_vars PROVE DeskInv'
    OBVIOUS
  <1>1. TypeOK'
    BY StoreStep, LooksStep, TabsStep, VaultStep DEF TypeOK, VaultSays
  <1>2. Registered' /\ PinsPainted'
    BY RegisteredStep, TabsStep
  <1>3. PillNeverBoasts' /\ Asked'
    BY VaultStep DEF VaultSays
  <1>4. FoundPainted'
    BY FoundStep
  <1> QED BY <1>1, <1>2, <1>3, <1>4 DEF DeskInv

LEMMA DeskHolds == Spec => []DeskInv
  <1>1. Init => DeskInv
    BY DeskStarts
  <1>2. DeskInv /\ [Next]_vars => DeskInv'
    BY DeskStep
  <1> QED BY <1>1, <1>2, PTL DEF Spec

(* Every variable keeps its type: the window is always painted in a theme   *)
(* that is installed, and every tab of the strip is alive.                  *)
THEOREM DeskTypes == Spec => []TypeOK
  <1>1. DeskInv => TypeOK
    BY DEF DeskInv
  <1> QED BY <1>1, DeskHolds, PTL

(* The tree's row of every session is its liveliest tab, closed ones        *)
(* counted until they are destroyed, and the pill never says that a locked  *)
(* vault is open (livesessions.cpp; openTab, refreshVaultPill).             *)
THEOREM WindowStaysHonest == Spec => []WindowIsHonest
  <1>1. ASSUME DeskInv PROVE RowIsLiveliest
    <2>1. Filed(entries, tab) /\ \A t \in DOMAIN tab : tab[t].link \in Links
      BY <1>1 DEF DeskInv, Registered, TypeOK, TabsOK, TabTypes
    <2>2. ASSUME NEW s \in Sessions
          PROVE  LET mine == {t \in DOMAIN tab : tab[t].session = s}
                 IN  /\ DOMAIN entries[s].perTab = mine
                     /\ IF mine = {} THEN entries[s].link = "Idle"
                        ELSE /\ \E t \in mine : entries[s].link = tab[t].link
                             /\ \A t \in mine : rank(tab[t].link) <= rank(entries[s].link)
      <3> DEFINE mine == {t \in DOMAIN tab : tab[t].session = s}
                 f == entries[s].perTab
      <3>1. /\ DOMAIN f = mine /\ \A t \in mine : f[t] = tab[t].link
            /\ entries[s] = Entry(f)
        BY <2>1 DEF Filed, FiledAt, Mine
      <3>2. entries[s].link = resolve(f)
        BY <3>1, EntryFacts
      <3>3. \A t \in mine : f[t] \in Links
        BY <2>1, <3>1
      <3> HIDE DEF mine, f
      <3>4. CASE mine = {}
        <4>1. entries[s].link = "Idle"
          BY <3>1, <3>2, <3>4 DEF resolve
        <4> QED BY <3>1, <3>4, <4>1 DEF mine, f
      <3>5. CASE mine # {}
        <4>1. /\ \E t \in mine : resolve(f) = f[t]
              /\ \A t \in mine : rank(f[t]) <= rank(resolve(f))
          BY <3>1, <3>3, <3>5, ResolvesToLiveliest
        <4>2. /\ \E t \in mine : entries[s].link = tab[t].link
              /\ \A t \in mine : rank(tab[t].link) <= rank(entries[s].link)
          BY <3>1, <3>2, <4>1
        <4> QED BY <3>1, <3>5, <4>2 DEF mine, f
      <3> QED BY <3>4, <3>5
    <2> QED BY <2>2 DEF RowIsLiveliest
  <1>2. DeskInv => WindowIsHonest
    BY <1>1 DEF DeskInv, WindowIsHonest
  <1> QED BY <1>2, DeskHolds, PTL

(* With settings that name an installed theme, every tab of the strip is    *)
(* painted in its pin or, without one, in the window's theme: opening,      *)
(* previewing, saving and cancelling keep it (applyThemeByName).            *)
THEOREM PinsStayPainted == Spec => []PinsPainted
  <1>1. DeskInv => PinsPainted
    BY DEF DeskInv
  <1> QED BY <1>1, DeskHolds, PTL

(* A cancelled settings dialog puts back the theme and what every tab was   *)
(* painted in, whatever was looked at in it and whatever moved meanwhile    *)
(* (openSettings).                                                          *)
THEOREM CancelsPutBack == Spec => CancelPutsBack
  <1>1. ASSUME DeskInv, CancelSettings
        PROVE  /\ themeName' = modal.before
               /\ app' = [modal.held EXCEPT !.theme = modal.before]
               /\ modal.held.theme \in Installed =>
                    \A t \in DOMAIN strip : tab'[t].painted = modal.painted[t]
    <2>1. /\ modal \in Dialogs /\ modal.kind = "settings" /\ app \in Settings
          /\ app.font = modal.held.font
          /\ \A t \in DOMAIN tab : tab[t] \in TabTypes
          /\ DOMAIN strip \subseteq DOMAIN tab
      BY <1>1 DEF CancelSettings, DeskInv, TypeOK, OtherOK, LooksOK, TabsOK, Asked
    <2>2. modal.before \in Installed /\ modal.held \in Settings
      BY <2>1 DEF Dialogs
    <2>3. Shown(applyThemeByName(tab, app, modal.before))
      BY <1>1 DEF CancelSettings
    <2>4. /\ themeName' = modal.before /\ app'.theme = modal.before
          /\ app' \in Settings /\ app'.font = app.font
      BY <1>1, <2>1, <2>2, <2>3, ApplyTheme
    <2>5. app' = [modal.held EXCEPT !.theme = modal.before]
      <3>1. modal.before \in ThemeNames
        BY <2>2, DeskAssumption
      <3>2. ASSUME NEW a \in Settings, NEW b \in Settings, a.font = b.font
            PROVE  a = [b EXCEPT !.theme = a.theme]
        BY <3>2 DEF Settings
      <3> QED BY <2>1, <2>2, <2>4, <3>1, <3>2
    <2>6. ASSUME modal.held.theme \in Installed, NEW t \in DOMAIN strip
          PROVE  tab'[t].painted = modal.painted[t]
      <3>1. modal.painted[t] = themeForTab(tab[t].pin, modal.before)
        BY <1>1, <2>1, <2>6 DEF DeskInv, FoundPainted
      <3>2. \A u \in DOMAIN tab \cap DOMAIN strip :
              tab'[u].painted = themeForTab(tab'[u].pin, modal.before)
        BY <1>1, <2>1, <2>2, <2>3, ApplyTheme
      <3>3. \A u \in DOMAIN tab : tab'[u].pin = tab[u].pin
        BY <1>1, <2>1, <2>2, <2>3, ApplyTheme
      <3> QED BY <2>1, <2>6, <3>1, <3>2, <3>3
    <2> QED BY <2>4, <2>5, <2>6
  <1> DEFINE Back == /\ themeName' = modal.before
                     /\ app' = [modal.held EXCEPT !.theme = modal.before]
                     /\ modal.held.theme \in Installed =>
                          \A t \in DOMAIN strip : tab'[t].painted = modal.painted[t]
  <1>2. DeskInv /\ [Next]_vars => [CancelSettings => Back]_vars
    BY <1>1
  <1> QED BY <1>2, DeskHolds, PTL DEF Spec, CancelPutsBack

(* Saved settings reach every tab of the strip: it lives by its row as the  *)
(* store has it now, and by the new settings in what the row leaves open    *)
(* (openSettings, applySettingsToTabs).                                     *)
THEOREM SavesReachTabs == Spec => SaveReachesTabs
  <1>1. ASSUME DeskInv, modal.kind = "settings", NEW m \in Modes, SaveSettings(app', m),
               NEW t \in DOMAIN strip
        PROVE  LET stored == tab[t].session \in DOMAIN rows
                   row    == rows[tab[t].session]
               IN  /\ tab'[t].pin = IF stored THEN row.theme ELSE Absent
                   /\ IF stored /\ row.font # NoSize THEN tab'[t].font = row.font
                                                     ELSE tab'[t].font = app'.font
    <2>1. modal \in Dialogs /\ DOMAIN strip \subseteq DOMAIN tab
      BY <1>1 DEF DeskInv, TypeOK, OtherOK, TabsOK
    <2>2. modal.held \in Settings
      BY <1>1, <2>1 DEF Dialogs
    <2>3. app' \in Settings
      <3>1. app' \in appSettings(modal.held)
        BY <1>1 DEF SaveSettings
      <3>2. modal.held.theme \in ThemeNames
        BY <2>2 DEF Settings
      <3> QED BY <3>1, <3>2, DeskAssumption DEF appSettings, Settings
    <2> DEFINE a == app'
               tabs == applySettingsToTabs(tab, a)
               own == IF tab[t].session \in DOMAIN rows
                      THEN resolveTabSettings(rows[tab[t].session], a)
                      ELSE resolveQuickConnect(a)
    <2>4. Shown(applyThemeByName(tabs, a, a.theme))
      BY <1>1 DEF SaveSettings, Settled
    <2>5. tabs[t] = [tab[t] EXCEPT !.font = own.font, !.pin = own.pin]
      BY <2>1 DEF applySettingsToTabs
    <2>6. tab[t] \in TabTypes
      BY <1>1, <2>1 DEF DeskInv, TypeOK, TabsOK
    <2>7. t \in DOMAIN tabs
      BY <2>1 DEF applySettingsToTabs
    <2>8. \A u \in DOMAIN tabs : tabs[u] \in TabTypes
      BY <1>1, <2>3, AppliedFacts DEF SameTabs
    <2>9. /\ own.pin = IF tab[t].session \in DOMAIN rows THEN rows[tab[t].session].theme ELSE Absent
          /\ own.font = IF tab[t].session \in DOMAIN rows /\ rows[tab[t].session].font # NoSize
                        THEN rows[tab[t].session].font ELSE a.font
      BY DEF resolveTabSettings, resolveQuickConnect
    <2> HIDE DEF own, tabs, a
    <2>10. ASSUME NEW r \in TabTypes, NEW x, NEW y
           PROVE  /\ [r EXCEPT !.font = x, !.pin = y].font = x
                  /\ [r EXCEPT !.font = x, !.pin = y].pin = y
      BY DEF TabTypes
    <2>11. tabs[t].font = own.font /\ tabs[t].pin = own.pin
      BY <2>5, <2>6, <2>10
    <2>12. a \in Settings
      BY <2>3 DEF a
    <2>13. tab'[t].pin = tabs[t].pin /\ tab'[t].font = tabs[t].font
      BY <1>1, <2>4, <2>7, <2>8, <2>12, ApplyTheme
    <2> QED BY <2>9, <2>11, <2>13 DEF a
  <1> DEFINE Reached ==
        \A t \in DOMAIN strip :
          LET stored == tab[t].session \in DOMAIN rows
              row    == rows[tab[t].session]
          IN  /\ tab'[t].pin = IF stored THEN row.theme ELSE Absent
              /\ IF stored /\ row.font # NoSize THEN tab'[t].font = row.font
                                                ELSE tab'[t].font = app'.font
  <1>2. ASSUME DeskInv, modal.kind = "settings", \E m \in Modes : SaveSettings(app', m)
        PROVE  Reached
    <2>1. PICK m \in Modes : SaveSettings(app', m)
      BY <1>2
    <2> QED BY <1>1, <1>2, <2>1
  <1>3. DeskInv /\ [Next]_vars =>
          [(modal.kind = "settings" /\ \E m \in Modes : SaveSettings(app', m)) => Reached]_vars
    BY <1>2
  <1> QED BY <1>3, DeskHolds, PTL DEF Spec, SaveReachesTabs
================================================================================
