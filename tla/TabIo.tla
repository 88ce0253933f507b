------------------------------- MODULE TabIo -------------------------------
(***************************************************************************)
(* What a terminal tab puts on the wire by itself and what it writes down: *)
(* the paced paste (app/pastequeue.cpp and the clipboard half of           *)
(* app/terminaltab.cpp), the anti-idle keystroke (app/antiidle.cpp) and    *)
(* the session capture (app/capturewriter.cpp), while the connection under *)
(* them comes, drops and is dialled again.  One action is one event of the *)
(* GUI thread; the paste confirmation is a nested event loop, so timers    *)
(* and the network run while it is up.                                     *)
(***************************************************************************)
EXTENDS Naturals, Sequences, SequencesExt

CONSTANTS
  Texts,        (* clipboard contents, as character codes                  *)
  MaxChunk,     (* PasteQueue::kMaxChunkChars                              *)
  Threshold,    (* pasteThreshold_: lines above which a paste is confirmed *)
  Tokens,       (* what the far end prints: [bytes, text]                  *)
  MaxMoves      (* bound: what the person, the window and the far end do   *)

CR == 13   LF == 10   ESC == 27   BEL == 7

Byte == 0 .. 255
Opener(c) == c \in {93, 80, 88, 94, 95}            (* ] P X ^ _            *)
Final(c)  == c \in 64 .. 126
(* A control sequence, whole (ECMA-48): CSI up to its final byte; a string *)
(* up to the BEL or the ESC \ that ends it; an escape with what comes      *)
(* between.                                                                *)
ControlSequence(b) ==
  LET n == Len(b)   before(m) == 3 .. m - 1
  IN  /\ n >= 2 /\ b[1] = ESC
      /\ \/ n > 2 /\ b[2] = 91 /\ Final(b[n]) /\ \A i \in before(n) : ~Final(b[i])
         \/ /\ n > 2 /\ Opener(b[2]) /\ \A i \in before(n) : b[i] # BEL
            /\ \A i \in before(n) : ~(b[i - 1] = ESC /\ b[i] = 92)
            /\ \/ b[n] = BEL /\ b[n - 1] # ESC
               \/ n > 3 /\ b[n] = 92 /\ b[n - 1] = ESC
         \/ /\ \A i \in 2 .. n - 1 : b[i] \in 32 .. 47
            /\ b[n] \in 48 .. 126 /\ b[n] # 91 /\ ~Opener(b[n])

ASSUME TabIoAssumption ==
  /\ Texts \subseteq Seq(Nat) \ {<<>>} /\ MaxChunk \in Nat \ {0, 1} /\ Threshold \in Nat
  /\ Tokens \subseteq [bytes : Seq(Byte), text : BOOLEAN] /\ MaxMoves \in Nat
  /\ \A token \in Tokens : IF token.text THEN \A i \in DOMAIN token.bytes : token.bytes[i] # ESC
                                          ELSE ControlSequence(token.bytes)

VARIABLES
  link,         (* the session's state; "closed" once the tab is           *)
  conns,        (* how many connections came up: numbers the current one   *)
  far,          (* modes the far end set: bracketed paste, full screen     *)
  got,          (* what the current connection was given, in order         *)
  paced,        (* pasteBaud_ > 0                                          *)
  hurried,      (* history: pastes under which the rate became unlimited   *)
  asking,       (* the text the confirmation is about, or <<>>             *)
  queue,        (* pasteQueue_: the chunks still to send                   *)
  bracketing,   (* pasteBracketed_                                         *)
  pasteTimer,   (* pasteTimer_ is running                                  *)
  pastes,       (* history: per paste, its text and the connection it met  *)
  idleOn,       (* anti-idle is enabled, with seconds and bytes            *)
  idleTimer,    (* antiIdleTimer_ is running                               *)
  capture,      (* file open, state of the stripper, what was written      *)
  coming,       (* bytes of the token being received                       *)
  expected,     (* history: text received since the capture started        *)
  aligned,      (* history: no sequence was cut by the capture or a drop   *)
  moves

rateVars    == <<paced, hurried>>
pasteVars   == <<asking, queue, bracketing, pasteTimer, pastes>>
captureVars == <<capture, coming, expected, aligned>>
idleVars    == <<idleOn, idleTimer>>
vars == <<link, conns, far, got, rateVars, pasteVars, idleVars, captureVars, moves>>

Move == moves < MaxMoves /\ moves' = moves + 1

------------------------------------------------------------------------------
(* PasteQueue::load: lines with their terminators, a long line in pieces.  *)

LineEnd(text, from) ==
  LET ends == {i \in from .. Len(text) : text[i] = LF}
  IN  IF ends = {} THEN Len(text) ELSE CHOOSE i \in ends : \A j \in ends : i <= j

CutAnywhere(text, from, to) == IF to - from + 1 > MaxChunk THEN from + MaxChunk - 1 ELSE to (* Fault *)
(* The end of the piece that begins at `from` of a line that ends at `to`: *)
(* never between a CR and its LF.                                          *)
PieceEnd(text, from, to) ==
  LET cut == from + MaxChunk - 1
  IN  IF to - from + 1 <= MaxChunk THEN to
      ELSE IF text[cut] = CR /\ text[cut + 1] = LF THEN cut - 1 ELSE cut

Pieces(text) ==
  LET from[i \in 1 .. Len(text) + 1] ==
        IF i > Len(text) THEN <<>>
        ELSE LET end == PieceEnd(text, i, LineEnd(text, i))
             IN  <<SubSeq(text, i, end)>> \o from[end + 1]
  IN  from[1]

Loaded(text) == Pieces(text)

(* The widget's newline conversion, in send() and in paste().              *)
Converted(s) ==
  FlattenSeq([i \in 1 .. Len(s) |->
    IF s[i] # LF THEN <<s[i]>> ELSE IF i > 1 /\ s[i - 1] = CR THEN <<>> ELSE <<CR>>])

------------------------------------------------------------------------------
(* What reaches the far end.  Everything the widget sends also restarts    *)
(* the idle clock (noteOutbound).                                          *)

Item(what, n, chars) == [what |-> what, paste |-> n, chars |-> chars]
Put(items) == got' = IF link = "connected" THEN got \o items ELSE got
RearmNever == UNCHANGED idleTimer                                         (* Fault *)
Rearm == idleTimer' = idleOn
Send(items) == Put(items) /\ Rearm

Pasting == queue # <<>>
Current == Len(pastes)
OnWire == UNCHANGED <<link, conns, far>>

(* endBracketedPaste.                                                      *)
Closing == IF bracketing THEN <<Item("close", Current, <<>>)>> ELSE <<>>
(* What cancelPaste puts on the wire.                                      *)
Cancelling == IF Pasting THEN Closing ELSE <<>>

(* beginThrottledPaste and the first sendNextPasteChunk.                   *)
beginThrottledPaste(text) ==
  LET n == Current + 1   chunks == Loaded(text)   last == Len(chunks) = 1
      mark(what) == IF far.bracketed THEN <<Item(what, n, <<>>)>> ELSE <<>>
  IN  /\ queue' = Tail(chunks) /\ pasteTimer' = ~last
      /\ bracketing' = (far.bracketed /\ ~last)
      /\ pastes' = Append(pastes, [text |-> text, conn |-> IF link = "connected" THEN conns ELSE 0])
      /\ Send(Cancelling \o mark("open") \o <<Item("chunk", n, Converted(chunks[1]))>>
              \o (IF last THEN mark("close") ELSE <<>>))

(* Unlimited: the widget's own paste, in one piece and, when the far end   *)
(* asked for it, within its own pair of markers.                           *)
pasteAtOnce(text) ==
  /\ Send(<<Item(IF far.bracketed THEN "bracketed" ELSE "whole", 0, Converted(text))>>)
  /\ UNCHANGED <<queue, bracketing, pasteTimer, pastes>>

Deliver(text, slowly) == IF slowly THEN beginThrottledPaste(text) ELSE pasteAtOnce(text)

SetRate(slowly) ==
  /\ paced' = slowly
  /\ hurried' = IF slowly THEN hurried ELSE hurried \cup {Current}

(* The person is at the terminal: no confirmation is up, the tab is open.  *)
AtTerminal == asking = <<>> /\ link # "closed" /\ Move

(* paste(), from the keys or the menu.                                     *)
paste ==
  /\ AtTerminal
  /\ \E text \in Texts :
       IF Threshold > 0 /\ Len(SelectSeq(text, LAMBDA c : c = LF)) > Threshold
       THEN asking' = text /\ UNCHANGED <<queue, bracketing, pasteTimer, pastes, got, idleTimer>>
       ELSE Deliver(text, paced) /\ UNCHANGED asking
  /\ OnWire /\ UNCHANGED <<rateVars, idleOn, captureVars>>

(* The confirmation is answered; the rate chosen in it stays with the tab. *)
confirmPaste ==
  /\ asking # <<>> /\ asking' = <<>>
  /\ \E slowly \in BOOLEAN : SetRate(slowly) /\ Deliver(asking, slowly)
  /\ OnWire /\ UNCHANGED <<idleOn, captureVars, moves>>
refusePaste ==
  /\ asking # <<>> /\ asking' = <<>>
  /\ OnWire
  /\ UNCHANGED <<got, rateVars, queue, bracketing, pasteTimer, pastes, idleVars, captureVars, moves>>

(* pasteTimer_: sendNextPasteChunk.                                        *)
sendNextPasteChunk ==
  /\ pasteTimer /\ Pasting
  /\ LET last == Len(queue) = 1
     IN  /\ Send(<<Item("chunk", Current, Converted(Head(queue)))>> \o (IF last THEN Closing ELSE <<>>))
         /\ queue' = Tail(queue) /\ pasteTimer' = ~last /\ bracketing' = (bracketing /\ ~last)
  /\ OnWire /\ UNCHANGED <<rateVars, asking, pastes, idleOn, captureVars, moves>>

Stopped == queue' = <<>> /\ pasteTimer' = FALSE /\ bracketing' = FALSE /\ UNCHANGED pastes

(* Escape, or Cancel Paste in the menu.                                    *)
cancelPaste ==
  /\ asking = <<>> /\ link # "closed" /\ Pasting
  /\ Put(Cancelling) /\ (IF bracketing THEN Rearm ELSE UNCHANGED idleTimer) /\ Stopped
  /\ OnWire /\ UNCHANGED <<rateVars, asking, idleOn, captureVars, moves>>

(* A keystroke (or a wheel turn in a full-screen program, which the tab    *)
(* turns into arrow keys).                                                 *)
Key ==
  /\ AtTerminal /\ Send(<<Item("key", 0, <<>>)>>)
  /\ OnWire /\ UNCHANGED <<rateVars, pasteVars, idleOn, captureVars>>

setPasteBaud ==
  /\ AtTerminal /\ SetRate(~paced)
  /\ OnWire /\ UNCHANGED <<got, pasteVars, idleVars, captureVars>>

------------------------------------------------------------------------------
(* Anti-idle.                                                              *)

setAntiIdle ==
  /\ AtTerminal /\ idleOn' = ~idleOn /\ idleTimer' = idleOn'
  /\ OnWire /\ UNCHANGED <<got, rateVars, pasteVars, captureVars>>

antiIdleAllowed == idleOn /\ link = "connected" /\ ~far.fullScreen /\ ~Pasting

(* antiIdleTimer_: sendAntiIdle.                                           *)
sendAntiIdle ==
  /\ idleTimer /\ moves < MaxMoves
  /\ IF antiIdleAllowed THEN Move /\ Put(<<Item("idle", 0, <<>>)>>) ELSE UNCHANGED <<moves, got>>
  /\ Rearm
  /\ OnWire /\ UNCHANGED <<rateVars, pasteVars, idleOn, captureVars>>

------------------------------------------------------------------------------
(* Capture: CaptureWriter::strip, one byte of it.                          *)

StripForgetting(state, c) ==                                            (* Fault *)
  IF state = "text" /\ c = ESC THEN "escape" ELSE "text"
StripState(state, c) ==
  CASE state = "text"      -> IF c = ESC THEN "escape" ELSE "text"
    [] state = "escape"    -> IF c = 91 THEN "csi" ELSE IF Opener(c) THEN "string"
                              ELSE IF c \in 32 .. 47 THEN "escape" ELSE "text"
    [] state = "csi"       -> IF Final(c) THEN "text" ELSE "csi"
    [] state = "string"    -> IF c = BEL THEN "text" ELSE IF c = ESC THEN "stringEsc" ELSE "string"
    [] state = "stringEsc" -> IF c = 92 THEN "text" ELSE IF c = ESC THEN "stringEsc" ELSE "string"

NoCapture == [open |-> FALSE, state |-> "text", file |-> <<>>]

(* dataReceived, a chunk of one byte: any cut of the stream is a sequence  *)
(* of these.                                                               *)
Receive ==
  /\ link = "connected" /\ coming.bytes # <<>>
  /\ LET c == Head(coming.bytes)
         kept == capture.state = "text" /\ c # ESC
     IN  /\ coming' = [coming EXCEPT !.bytes = Tail(@)]
         /\ IF capture.open
            THEN /\ capture' = [capture EXCEPT !.state = StripState(@, c),
                                               !.file = IF kept THEN Append(@, c) ELSE @]
                 /\ expected' = IF coming.text THEN Append(expected, c) ELSE expected
            ELSE UNCHANGED <<capture, expected>>
  /\ OnWire /\ UNCHANGED <<got, rateVars, pasteVars, idleVars, aligned, moves>>

(* The far end prints something.                                           *)
Say ==
  /\ link = "connected" /\ coming.bytes = <<>> /\ Move
  /\ coming' \in Tokens
  /\ OnWire /\ UNCHANGED <<got, rateVars, pasteVars, idleVars, capture, expected, aligned>>

(* It switches bracketed paste or the alternate screen.                    *)
FarModes ==
  /\ link = "connected" /\ Move
  /\ \E mode \in {"bracketed", "fullScreen"} : far' = [far EXCEPT ![mode] = ~@]
  /\ UNCHANGED <<link, conns, got, rateVars, pasteVars, idleVars, captureVars>>

(* toggleCapture.                                                          *)
startCapture ==
  /\ AtTerminal /\ ~capture.open
  /\ capture' = [NoCapture EXCEPT !.open = TRUE]
  /\ expected' = <<>> /\ aligned' = (coming.bytes = <<>>)
  /\ OnWire /\ UNCHANGED <<got, rateVars, pasteVars, idleVars, coming>>
stopCapture ==
  /\ AtTerminal /\ capture.open
  /\ capture' = NoCapture /\ expected' = <<>> /\ aligned' = TRUE
  /\ OnWire /\ UNCHANGED <<got, rateVars, pasteVars, idleVars, coming>>

------------------------------------------------------------------------------
(* The connection.  reconnect() clears neither the queue nor the capture.  *)

ConnectedRearms == idleTimer' = idleOn
Connect ==
  /\ link = "dialing" /\ link' = "connected" /\ conns' = conns + 1 /\ got' = <<>>
  /\ ConnectedRearms
  /\ UNCHANGED <<far, rateVars, pasteVars, idleOn, captureVars, moves>>

(* The far end hangs up, or the dial fails: onStateChanged.                *)
NothingComing == coming' = [coming EXCEPT !.bytes = <<>>]
End ==
  /\ link \in {"dialing", "connected"} /\ link' = "down"
  /\ idleTimer' = FALSE
  /\ NothingComing /\ aligned' = (aligned /\ coming.bytes = <<>>)
  /\ UNCHANGED <<conns, far, got, rateVars, pasteVars, idleOn, capture, expected, moves>>

reconnect ==
  /\ link = "down" /\ AtTerminal /\ link' = "dialing"
  /\ UNCHANGED <<conns, far, got, rateVars, pasteVars, idleVars, captureVars>>

(* terminate: Cancel on a dial, or the tab is closed.                      *)
terminate ==
  /\ asking = <<>>
  /\ \/ link = "dialing" /\ link' = "down"
     \/ link # "closed" /\ link' = "closed"
  /\ capture' = NoCapture /\ expected' = <<>> /\ aligned' = TRUE /\ NothingComing
  /\ Put(Cancelling) /\ Stopped
  /\ idleTimer' = FALSE
  /\ UNCHANGED <<conns, far, rateVars, asking, idleOn, moves>>

------------------------------------------------------------------------------
Init ==
  /\ link = "dialing" /\ conns = 0 /\ far = [bracketed |-> FALSE, fullScreen |-> FALSE] /\ got = <<>>
  /\ paced \in BOOLEAN /\ hurried = {} /\ asking = <<>> /\ queue = <<>> /\ bracketing = FALSE
  /\ pasteTimer = FALSE /\ pastes = <<>>
  /\ idleOn \in BOOLEAN /\ idleTimer = idleOn
  /\ capture = NoCapture /\ coming = [bytes |-> <<>>, text |-> FALSE]
  /\ expected = <<>> /\ aligned = TRUE /\ moves = 0

Next ==
  \/ paste \/ confirmPaste \/ refusePaste \/ sendNextPasteChunk \/ cancelPaste
  \/ Key \/ setPasteBaud \/ setAntiIdle \/ sendAntiIdle
  \/ Receive \/ Say \/ FarModes \/ startCapture \/ stopCapture
  \/ Connect \/ End \/ reconnect \/ terminate

Spec == Init /\ [][Next]_vars
------------------------------------------------------------------------------
(* Properties.                                                             *)

PacedItem(i) == got[i].what \in {"open", "chunk", "close"}
Here(n) == link = "connected" /\ n \in DOMAIN pastes /\ pastes[n].conn = conns

(* What a connection has been given of a paced paste that began on it is   *)
(* the beginning of the text as an unpaced paste would send it: pieces and *)
(* lines add up, and no line ends twice (PasteQueue::load).                *)
ChunksMakeTheText ==
  \A n \in DOMAIN pastes : Here(n) =>
    IsPrefix(FlattenSeq([i \in DOMAIN got |-> IF got[i].what = "chunk" /\ got[i].paste = n
                                              THEN got[i].chars ELSE <<>>]),
             Converted(pastes[n].text))

(* Between two items of one paced paste the far end gets no idle keystroke *)
(* and nothing of another paste: a paced one replaces it, and the whole    *)
(* one that an unlimited rate sends at once cannot come, unless the rate   *)
(* was set to unlimited while this paste was under way: then nothing in    *)
(* the code holds it back (antiIdleAllowed, beginThrottledPaste, paste,    *)
(* setPasteBaud).                                                          *)
AtOnce(i) == got[i].what \in {"whole", "bracketed"}
PacedUndisturbed ==
  \A i, k \in DOMAIN got :
    i < k /\ PacedItem(i) /\ PacedItem(k) /\ got[i].paste = got[k].paste =>
      \A j \in i .. k : /\ got[j].what # "idle"
                        /\ PacedItem(j) => got[j].paste = got[i].paste
                        /\ AtOnce(j) => got[i].paste \in hurried

(* A paced paste that opened the far end's bracket closes it when its last *)
(* line is out, when it is cancelled and when another one replaces it; and *)
(* what it sends arrives within the bracket: no marker that ends it, its   *)
(* own or that of a paste sent at once, comes before its last line, unless *)
(* the rate was set to unlimited meanwhile (endBracketedPaste).            *)
BracketEnds(i) == got[i].what \in {"close", "bracketed"}
BracketsPair ==
  \A i \in DOMAIN got :
    got[i].what = "open" /\ link = "connected" =>
      /\ \/ Pasting /\ got[i].paste = Current
         \/ \E k \in i + 1 .. Len(got) : got[k] = Item("close", got[i].paste, <<>>)
      /\ \A k \in i + 1 .. Len(got) :
           got[k].what = "chunk" /\ got[k].paste = got[i].paste =>
             got[i].paste \in hurried \/ \A j \in i .. k : ~BracketEnds(j)

(* A paced paste is the whole paste, spread over time.                     *)
PacingIsInvisible == ChunksMakeTheText /\ PacedUndisturbed /\ BracketsPair

(* On a session that is up with anti-idle on, the idle clock runs,         *)
(* whatever dropped, was redialled or was sent (rearmAntiIdle).            *)
IdleClockRuns == link = "connected" /\ idleOn => idleTimer

(* The capture holds the text the far end sent since it started and        *)
(* nothing of the control sequences, wherever the stream was cut.          *)
CaptureIsTheText == capture.open /\ aligned => capture.file = expected

=============================================================================
