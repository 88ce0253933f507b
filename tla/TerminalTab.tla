------------------------------ MODULE TerminalTab ------------------------------
(***************************************************************************)
(* One tab of the application (app/terminaltab.cpp): it dials a session,   *)
(* recognises three failures that are questions (an unknown host key,      *)
(* refused credentials, a keyboard-interactive question), lets the person  *)
(* answer each in a dialog and dials again, and it is marked in the window *)
(* (app/mainwindow.cpp).                                                   *)
(*                                                                         *)
(* Everything here runs on the GUI thread, so an action is one delivery by *)
(* the event loop with every slot it calls; calls nest, and operators on   *)
(* the tab's record stand for them.  The session is what the tab sees of   *)
(* OmegaSshSession: a handle, a state, and news the library has recorded   *)
(* and no drain has delivered yet.  Dialogs are modal: while one is open   *)
(* the person can only answer it, but events and timers keep coming.       *)
(***************************************************************************)
EXTENDS Naturals, Sequences, SequencesExt

CONSTANTS Questions,            (* what a far end may ask                  *)
          AuthPromptLimit, KeyboardPromptLimit,
          MaxWaiting  (* bound: deferred prompts a Reconnect may cross     *)

None == "none"

States   == {"disconnected", "connecting", "authenticating", "connected", "failed"}
(* What the overlay says besides the reason of a failure.                  *)
Notices  == {"hidden", "dialing", "asking", "cancelled", "ended"}

ASSUME TabAssumption ==
  /\ AuthPromptLimit \in Nat \ {0} /\ KeyboardPromptLimit \in Nat \ {0}
  /\ MaxWaiting \in Nat
  /\ Questions \cap ({"unknownKey", "rejected", "other", "running", None}
                       \cup States \cup Notices) = {}

Kinds    == {"hostkey", "keyboard", "credential"}
Limit    == [k \in Kinds |-> IF k = "hostkey" THEN 1 ELSE
                             IF k = "keyboard" THEN KeyboardPromptLimit ELSE AuthPromptLimit]
(* Why a dial fails; a question is the text of its own failure.            *)
Failures == {"unknownKey", "rejected", "other"} \cup Questions
VARIABLES
  tab,       (* the fields of TerminalTab: handle and state are those of   *)
             (* its session, answers is config_.keyboardAnswers, deferred  *)
             (* the zero timers armed, label its text in the window        *)
  lib,       (* the dial behind the handle                                 *)
  news,      (* recorded by the library, delivered by no drain yet         *)
  dialled,   (* the answers and the policy the running dial carries        *)
  prompts,   (* the dialogs open, the topmost last                         *)
  seen       (* observed, and read by no action: the questions asked since *)
             (* a person last dialled or got in; the answers used and not  *)
             (* given anew; why the last dial failed; whether a dial was   *)
             (* missed, having ended inside start() or been refused; and   *)
             (* whether Reconnect crossed a deferred prompt                *)

vars == <<tab, lib, news, dialled, prompts, seen>>

-----------------------------------------------------------------------------
(* The overlay and the three offers.                                       *)

Zero == [k \in Kinds |-> 0]

(* The overlay's message; that of a dial under way spins and offers Cancel,  *)
(* and each of the others says that nothing is being waited for.           *)
setOverlayMessage(t, message) == [t EXCEPT !.overlay = message]
Cancellable(t) == t.overlay = "dialing"
(* The mark of a tab that waits for a person.                              *)
setNeedsInput(t, needsInput) == [t EXCEPT !.needsInput = needsInput]

(* Faults a mutant run puts in the code stand before what they replace.    *)
OfferForgetting(t, kind, question) ==
  [t EXCEPT !.prompted[kind] = @ + 1, !.redialing = TRUE,
            !.needsInput = (kind # "hostkey") \/ @, !.overlay = "asking",
            !.deferred = Append(@, [kind |-> kind, question |-> question])]
Offer(t, kind, question) ==
  LET marked == setNeedsInput(setOverlayMessage(t, "asking"), kind # "hostkey" \/ t.needsInput)
  IN  [marked EXCEPT !.prompted[kind] = @ + 1, !.redialing = TRUE, !.kept[kind] = t.error,
                     !.deferred = Append(@, [kind |-> kind, question |-> question])]

OffersHostKey(t) == t.prompted["hostkey"] = 0 /\ t.error = "unknownKey"

(* A rejection after an answer is that answer's: its question is put again.*)
Repeats(t)        == t.lastQuestion # None /\ t.error = "rejected"
OffersKeyboard(t) == /\ t.prompted["keyboard"] < KeyboardPromptLimit
                     /\ t.error \in Questions \/ Repeats(t)
OfferKeyboard(t) ==
  LET q == IF Repeats(t) THEN t.lastQuestion ELSE t.error
  IN  Offer([t EXCEPT !.lastQuestion = q,
                      !.answers = IF Repeats(t) THEN @ \ {q} ELSE @], "keyboard", q)

OffersCredential(t) ==
  /\ t.lastQuestion = None
  /\ t.prompted["credential"] < AuthPromptLimit
  /\ t.error = "rejected"

Settle(t) ==
  setOverlayMessage(t, IF t.cancelled THEN "cancelled" ELSE
                       IF t.state = "failed" THEN t.error ELSE "ended")

OnFailed(t) ==
  IF ~t.cancelled /\ OffersHostKey(t) THEN Offer(t, "hostkey", None) ELSE
  IF ~t.cancelled /\ OffersKeyboard(t) THEN OfferKeyboard(t) ELSE
  IF ~t.cancelled /\ OffersCredential(t) THEN Offer(t, "credential", None) ELSE Settle(t)

CameUpKeeping(t) == [t EXCEPT !.prompted["credential"] = 0, !.prompted["keyboard"] = 0]
(* The answers got in and are spent.                                       *)
CameUp(t) ==
  [t EXCEPT !.prompted["credential"] = 0, !.prompted["keyboard"] = 0,
            !.kept["credential"] = None, !.kept["keyboard"] = None,
            !.lastQuestion = None, !.answers = {}]

OnStateChanged(t) ==
  LET u == IF t.state = "connected" THEN CameUp(t) ELSE t
  IN  IF u.redialing THEN u ELSE
      IF u.state = "connected"    THEN setOverlayMessage(u, "hidden") ELSE
      IF u.state = "failed"       THEN OnFailed(u) ELSE
      IF u.state = "disconnected" THEN Settle(u) ELSE setOverlayMessage(u, "dialing")

-----------------------------------------------------------------------------
(* The session, as the tab sees it.                                        *)

SetState(t, s) == IF t.state = s THEN t ELSE OnStateChanged([t EXCEPT !.state = s])
Finished(t)    == IF t.redialing THEN t ELSE [t EXCEPT !.label = "closed"]
(* The handle is released, in state s.                                     *)
Release(t, s)  == Finished(SetState([t EXCEPT !.handle = FALSE], s))

Deliver(t, item) ==
  IF item \in States THEN SetState(t, item)
                      ELSE SetState([t EXCEPT !.error = item], "failed")
(* A dial has three pieces of news at most: it authenticates, it is up, and *)
(* it is over.                                                             *)
DeliverNth(t, items, n) == IF n \in DOMAIN items THEN Deliver(t, items[n]) ELSE t
DrainEvents(t, items) ==
  DeliverNth(DeliverNth(DeliverNth(t, items, 1), items, 2), items, 3)

(* A drain, when the library still says the session is alive and when not. *)
Drain(t, items, alive) ==
  LET d == DrainEvents(t, items) IN IF alive THEN d ELSE Release(d, d.state)
(* What omegassh_alive may answer.                                         *)
Alive == IF lib = "over" THEN BOOLEAN ELSE {TRUE}

Terminate(t, items, alive) ==
  IF ~t.handle THEN t
  ELSE LET d == Drain(t, items, alive) IN IF alive THEN Release(d, "disconnected") ELSE d

(* start() with the library's dial opened: it reads the state, then drains *)
(* what the dial has done so far.                                          *)
Opened(t, read, early, alive) ==
  Drain(SetState([t EXCEPT !.handle = TRUE], read), early, alive)
(* start() refused: by a handle still open, or for its configuration.      *)
Refused(t) ==
  IF t.handle THEN setOverlayMessage([t EXCEPT !.error = "running"], "running")
  ELSE setOverlayMessage(SetState([t EXCEPT !.error = "other"], "failed"), "other")

-----------------------------------------------------------------------------
(* The library: a dial ends, one way or another, and a session may end.    *)

(* How a dial may fail that has reached the handshake.                     *)
Refusals(d) == {"rejected", "other"} \cup (Questions \ d.answers)
                 \cup (IF d.tofu THEN {} ELSE {"unknownKey"})

Authenticates ==
  /\ lib = "dialing"
  /\ lib' = "handshake" /\ news' = Append(news, "authenticating")
  /\ UNCHANGED <<tab, dialled, prompts, seen>>
ComesUp ==
  /\ lib = "handshake"
  /\ lib' = "up" /\ news' = Append(news, "connected")
  /\ UNCHANGED <<tab, dialled, prompts, seen>>
Fails ==
  /\ \E r \in IF lib = "handshake" THEN Refusals(dialled) ELSE {"other"} :
       news' = Append(news, r)
  /\ lib \in {"dialing", "handshake", "up"} /\ lib' = "over"
  /\ UNCHANGED <<tab, dialled, prompts, seen>>
HangsUp ==
  /\ lib = "up"
  /\ lib' = "over" /\ news' = Append(news, "disconnected")
  /\ UNCHANGED <<tab, dialled, prompts, seen>>

(* What a dial may have done before start() has drained it once, and the   *)
(* states start() may have read meanwhile.                                 *)
EarlyNews(d) == {<<>>, <<"other">>, <<"authenticating", "connected">>}
                  \cup {<<"authenticating", r>> : r \in Refusals(d)}
Readable(early) == {"connecting"} \cup
  {IF early[i] \in States THEN early[i] ELSE "failed" : i \in DOMAIN early}
LibAfter(early) == IF early = <<>> THEN "dialing" ELSE
                   IF Last(early) = "connected" THEN "up" ELSE "over"

-----------------------------------------------------------------------------
(* History h after a step from tab to t that drained items of the dial d.  *)

Raised(t, k) == Len(t.deferred) > Len(tab.deferred) /\ Last(t.deferred).kind = k
Observed(h, t, d, items) ==
  LET up == "connected" \in Range(items)
  IN  [h EXCEPT
        !.asked = [k \in Kinds |-> (IF up THEN 0 ELSE @[k]) +
                                     (IF Raised(t, k) THEN 1 ELSE 0)],
        !.used  = IF up THEN @ \cup d.answers ELSE @,
        !.why   = IF Range(items) \cap Failures # {} THEN Last(items) ELSE @]

MarkedOpen(t)   == [t EXCEPT !.label = "open"]
MarkedFailed(t) == [t EXCEPT !.label = "failed"]

(* start(config) for a tab made ready as t: it is refused, or it dials.    *)
(* retitled: the window then writes the text of the tab anew.              *)
StartsDial(t, tofu, h, retitled) ==
  LET d == [tofu |-> tofu, answers |-> t.answers]
  IN  /\ ~t.handle
      /\ dialled' = d
      /\ \E early \in EarlyNews(d) : \E read \in Readable(early) :
           \E alive \in IF LibAfter(early) = "over" THEN BOOLEAN ELSE {TRUE} :
             LET u == Opened(t, read, early, alive)
             IN  /\ tab' = IF retitled THEN MarkedOpen(u) ELSE u
                 /\ lib' = IF alive THEN LibAfter(early) ELSE "none"
                 /\ seen' = [Observed(h, u, d, early) EXCEPT
                                !.missed = Range(early) \cap Failures # {}]
      /\ news' = <<>>

StartRefused(t, h, retitled) ==
  /\ tab' = IF retitled THEN MarkedFailed(Refused(t)) ELSE Refused(t)
  /\ IF t.handle THEN seen' = h /\ UNCHANGED <<lib, news>>
                 ELSE seen' = [h EXCEPT !.missed = TRUE] /\ lib' = "none" /\ news' = <<>>
  /\ UNCHANGED dialled

-----------------------------------------------------------------------------
(* The event loop.                                                         *)

NotifierDrains ==
  /\ tab.handle
  /\ \E alive \in Alive :
       /\ news # <<>> \/ ~alive
       /\ tab' = Drain(tab, news, alive)
       /\ lib' = IF alive THEN lib ELSE "none"
  /\ news' = <<>>
  /\ seen' = Observed(seen, tab', dialled, news)
  /\ UNCHANGED <<dialled, prompts>>

(* The zero timer of an offer: the session is ended for good, and the      *)
(* question is put, by the tab or by the window.                           *)
DeferredPrompt ==
  /\ tab.deferred # <<>>
  /\ \E alive \in Alive :
       tab' = Terminate([tab EXCEPT !.deferred = Tail(@)], news, alive)
  /\ lib' = "none" /\ news' = <<>>
  /\ prompts' = Append(prompts, Head(tab.deferred))
  /\ seen' = Observed(seen, [tab' EXCEPT !.deferred = <<Head(tab.deferred)>> \o @], dialled, news)
  /\ UNCHANGED dialled

-----------------------------------------------------------------------------
(* The person, while no dialog is open.                                    *)

OpenTab ==
  /\ tab.label = "new"
  /\ LET t == setOverlayMessage(tab, "dialing")
     IN  StartsDial(t, FALSE, seen, TRUE) \/ StartRefused(t, seen, TRUE)
  /\ UNCHANGED prompts

CanReconnect == tab.label # "new" /\ (~tab.handle \/ lib = "over")

Cleared(t) ==
  [t EXCEPT !.error = None, !.cancelled = FALSE,
            !.prompted["hostkey"] = 0, !.prompted["credential"] = 0,
            !.kept["hostkey"] = None, !.kept["credential"] = None]

Reconnect ==
  /\ CanReconnect /\ prompts = <<>> /\ Len(tab.deferred) <= MaxWaiting
  /\ \E alive \in Alive :
       LET over == Terminate([Cleared(tab) EXCEPT !.redialing = TRUE], news, alive)
           t    == setOverlayMessage([over EXCEPT !.redialing = FALSE], "dialing")
           h    == [Observed(seen, over, dialled, news) EXCEPT
                      !.asked = Zero, !.crossed = tab.deferred # <<>>]
       IN  StartsDial(t, FALSE, h, TRUE) \/ StartRefused(t, h, FALSE)
  /\ UNCHANGED prompts

CancelConnect ==
  /\ prompts = <<>> /\ Cancellable(tab)
  /\ \E alive \in Alive :
       tab' = Terminate([tab EXCEPT !.cancelled = TRUE], news, alive)
  /\ lib' = "none" /\ news' = <<>>
  /\ seen' = Observed(seen, tab', dialled, news)
  /\ UNCHANGED <<dialled, prompts>>

-----------------------------------------------------------------------------
(* The person, answering the topmost dialog.                               *)

Asking(kind) == prompts # <<>> /\ Last(prompts).kind = kind
Question     == Last(prompts).question

(* The dial is taken up again.                                             *)
ResumedAfresh(t) == [t EXCEPT !.error = None, !.redialing = FALSE, !.needsInput = FALSE,
                              !.overlay = "dialing", !.prompted = Zero]
Resumed(t) ==
  setOverlayMessage(setNeedsInput([t EXCEPT !.error = None, !.redialing = FALSE], FALSE), "dialing")
Retries(t, tofu, h) ==
  /\ StartsDial(t, tofu, h, FALSE) \/ StartRefused(t, h, FALSE)
  /\ prompts' = Front(prompts)

(* It is given up: the failure that raised the question settles after all, *)
(* and finished is emitted.                                                *)
AbandonedHeld(t, kind) ==
  [t EXCEPT !.needsInput = IF kind = "hostkey" THEN @ ELSE FALSE,
            !.error = t.kept[kind], !.overlay = t.kept[kind], !.label = "closed"]
Abandoned(t, kind) ==
  LET told == setOverlayMessage([t EXCEPT !.error = t.kept[kind]], t.kept[kind])
  IN  [setNeedsInput(told, kind = "hostkey" /\ t.needsInput) EXCEPT !.redialing = FALSE, !.label = "closed"]
GivesUp(t) ==
  /\ tab' = t
  /\ prompts' = Front(prompts)
  /\ UNCHANGED <<lib, news, dialled, seen>>

AcceptHostKey  == /\ Asking("hostkey")
                  /\ Retries([Resumed(tab) EXCEPT !.needsInput = tab.needsInput], TRUE, seen)
RejectHostKey  == Asking("hostkey") /\ GivesUp(Abandoned(tab, "hostkey"))

RetryWithKeyboardAnswer ==
  /\ Asking("keyboard")
  /\ LET t == [Resumed(tab) EXCEPT !.answers = @ \cup {Question}]
     IN  Retries(t, FALSE, [seen EXCEPT !.used = @ \ {Question}])
AbandonKeyboardRetry ==
  /\ Asking("keyboard")
  /\ GivesUp([Abandoned(tab, "keyboard") EXCEPT !.answers = {}, !.lastQuestion = None])

RetryWithCredentials   == Asking("credential") /\ Retries(Resumed(tab), FALSE, seen)
AbandonCredentialRetry == Asking("credential") /\ GivesUp(Abandoned(tab, "credential"))

-----------------------------------------------------------------------------
Init ==
  /\ tab = [handle |-> FALSE, state |-> "disconnected", error |-> None,
            redialing |-> FALSE, cancelled |-> FALSE, needsInput |-> FALSE,
            prompted |-> Zero, kept |-> [k \in Kinds |-> None], lastQuestion |-> None,
            answers |-> {}, deferred |-> <<>>, overlay |-> "hidden", label |-> "new"]
  /\ lib = "none" /\ news = <<>> /\ prompts = <<>>
  /\ dialled = [tofu |-> FALSE, answers |-> {}]
  /\ seen = [asked |-> Zero, used |-> {}, why |-> None, missed |-> FALSE, crossed |-> FALSE]

DialEnds == Authenticates \/ ComesUp \/ Fails
Answers  == \/ AcceptHostKey \/ RejectHostKey
            \/ RetryWithKeyboardAnswer \/ AbandonKeyboardRetry
            \/ RetryWithCredentials \/ AbandonCredentialRetry
Next == \/ DialEnds \/ HangsUp \/ NotifierDrains \/ DeferredPrompt
        \/ OpenTab \/ Reconnect \/ CancelConnect \/ Answers

Spec == Init /\ [][Next]_vars

-----------------------------------------------------------------------------
(* Properties.                                                             *)

Idle == ~tab.handle /\ tab.deferred = <<>> /\ prompts = <<>>

(* A tab that suppresses its own end has a question under way: it cannot   *)
(* be left spinning on an overlay that never settles (terminaltab.h).      *)
NeverStranded == tab.redialing => tab.deferred # <<>> \/ prompts # <<>>

(* One attempt of a person leads to no more automatic questions of a kind  *)
(* than its limit: the caps bound the re-dialling loop.                    *)
PromptsBounded == \A k \in Kinds : seen.asked[k] <= Limit[k]

(* An answer that got in is spent: what a later dial would submit does not *)
(* hold it (onStateChanged).                                               *)
UsedAnswersForgotten == tab.answers \cap seen.used = {}

(* The tab's text never says "(closed)" over a session that is running,    *)
(* unless Reconnect crossed a deferred prompt (restarted, finished).       *)
LabelHonest == tab.label = "closed" /\ tab.handle => seen.crossed

(* A tab at rest with no session is marked so, and its overlay no longer   *)
(* waits, unless its dial ended before start() returned or was refused.    *)
DeadTabIsMarked ==
  Idle /\ tab.label # "new" =>
    \/ tab.label # "open" /\ tab.overlay \notin {"dialing", "asking"}
    \/ seen.missed

(* At rest after a failure nobody cancelled, the overlay says why: the     *)
(* reason of the dial that failed last, through every prompt and retry.    *)
ReasonOnScreen ==
  Idle /\ tab.state = "failed" /\ ~tab.cancelled =>
    tab.overlay = seen.why \/ seen.missed \/ seen.crossed

(* The tree says "needs input" only while a question is on its way to a    *)
(* person or before one (setNeedsInput).                                   *)
NeedsInputHonest ==
  tab.needsInput => \E a \in Range(tab.deferred) \cup Range(prompts) : a.kind # "hostkey"

(* What the person reads of a tab is true: its text in the window, its     *)
(* overlay and its mark in the tree.                                       *)
TellsTheTruth == LabelHonest /\ DeadTabIsMarked /\ ReasonOnScreen /\ NeedsInputHonest

=============================================================================
