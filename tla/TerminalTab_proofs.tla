-------------------------- MODULE TerminalTab_proofs --------------------------
(* Theorems of TerminalTab, for any questions a far end may ask and any     *)
(* limits of the prompts.                                                  *)
EXTENDS TerminalTab, SequenceTheorems, TLAPS

(* The fields of a tab.                                                    *)
Errors == Failures \cup {None, "running"}
(* A question of the far end is put with it, the others have none.          *)
Put(k) == IF k = "keyboard" THEN Questions ELSE {None}
Ask    == {a \in [kind : Kinds, question : Questions \cup {None}] : a.question \in Put(a.kind)}
Tabs   == [handle : BOOLEAN, state : States, error : Errors, redialing : BOOLEAN,
           cancelled : BOOLEAN, needsInput : BOOLEAN, prompted : [Kinds -> Nat],
           kept : [Kinds -> Errors], lastQuestion : Questions \cup {None},
           answers : SUBSET Questions, deferred : Seq(Ask),
           overlay : Errors \cup Notices, label : {"new", "open", "closed", "failed"}]
(* What is remembered of it.                                               *)
Histories == [asked : [Kinds -> Nat], used : SUBSET Questions, why : Failures \cup {None},
              missed : BOOLEAN, crossed : BOOLEAN]

Ends    == Failures \cup {"disconnected"}
Passing == {"authenticating", "connected"}
Live    == {"connecting", "authenticating", "connected"}
Story(items) ==
  /\ items \in Seq(Passing \cup Ends) /\ Len(items) <= 3
  /\ \A i \in DOMAIN items : items[i] \in Ends => i = Len(items)
  /\ \A i \in DOMAIN items : items[i] = "connected" => i = 1 \/ items[i - 1] = "authenticating"
Ended(items) == items # <<>> /\ Last(items) \in Ends

TypeOK ==
  /\ tab \in Tabs
  /\ lib \in {"none", "dialing", "handshake", "up", "over"}
  /\ Story(news)
  /\ dialled \in [tofu : BOOLEAN, answers : SUBSET Questions]
  /\ prompts \in Seq(Ask)
  /\ seen \in Histories

(* The handle, the library's dial and the state the tab shows.              *)
Channel ==
  /\ (lib = "none") <=> ~tab.handle
  /\ Len(news) <= (CASE lib = "handshake" -> 1 [] lib = "up" -> 2 [] lib = "over" -> 3 [] OTHER -> 0)
  /\ Ended(news) <=> (lib = "over" /\ news # <<>>)
  /\ lib \in {"dialing", "handshake"} => "connected" \notin Range(news)
  /\ lib \in {"dialing", "handshake"} \/ "connected" \in Range(news) => tab.state \in Live \ {"connected"}
  /\ lib = "up" \/ news # <<>> => tab.state \in Live
  /\ lib = "none" \/ (lib = "over" /\ news = <<>>) => tab.state \in {"failed", "disconnected"}

Counted == \A k \in Kinds : seen.asked[k] <= tab.prompted[k] /\ tab.prompted[k] <= Limit[k]

Pending == tab.deferred # <<>> \/ prompts # <<>>
(* Unless Reconnect crossed a deferred prompt, one question is under way,   *)
(* the dial that raised it is over, and the tab shows no end of it.         *)
Alone ==
  ~seen.crossed =>
    /\ tab.label = "closed" => ~tab.handle /\ ~Pending
    /\ prompts # <<>> => ~tab.handle
    /\ tab.redialing <=> Pending
    /\ Len(tab.deferred) + Len(prompts) <= 1
    /\ Pending => lib \in {"none", "over"} /\ news = <<>>
    /\ \A a \in Range(tab.deferred) \cup Range(prompts) : tab.kept[a.kind] = seen.why \/ seen.missed

(* A tab that has not been opened yet.                                      *)
Fresh == tab.label = "new" => ~tab.handle /\ ~tab.redialing /\ ~Pending

AtRest == tab.state \in {"failed", "disconnected"} /\ ~tab.redialing /\ ~seen.missed
Marked ==
  /\ AtRest => tab.overlay \notin {"dialing", "asking"}
  /\ AtRest /\ ~tab.handle => tab.label # "open"
  /\ AtRest /\ tab.state = "failed" /\ ~tab.cancelled /\ ~seen.crossed => tab.overlay = seen.why

TabInv == /\ TypeOK /\ Channel /\ Counted /\ Alone /\ Fresh /\ Marked
          /\ NeverStranded /\ UsedAnswersForgotten /\ NeedsInputHonest

-----------------------------------------------------------------------------
(* What the operators on a tab's record do to it.                          *)

LEMMA LimitType == \A k \in Kinds : Limit[k] \in Nat
  BY TabAssumption DEF TabAssumption, Limit, Kinds

(* A dial on its way: the tab shows a new state, and no more.               *)
LEMMA GoesLive ==
  ASSUME NEW t \in Tabs, NEW s \in {"connecting", "authenticating"}
  PROVE  \E o \in Errors \cup Notices :
           SetState(t, s) = [t EXCEPT !.state = s, !.overlay = o]
  BY DEF SetState, OnStateChanged, setOverlayMessage, Tabs, States, Notices

CameUpFacts(t, u) ==
  /\ u \in Tabs /\ u.state = "connected"
  /\ u.handle = t.handle /\ u.error = t.error /\ u.redialing = t.redialing
  /\ u.cancelled = t.cancelled /\ u.needsInput = t.needsInput
  /\ u.deferred = t.deferred /\ u.label = t.label
  /\ u.answers = {} /\ \A k \in Kinds : u.prompted[k] <= t.prompted[k]
LEMMA GoesUp ==
  ASSUME NEW t \in Tabs, t.state # "connected"
  PROVE  CameUpFacts(t, SetState(t, "connected"))
  <1> DEFINE c == CameUp([t EXCEPT !.state = "connected"])
             p == [t.prompted EXCEPT !["credential"] = 0, !["keyboard"] = 0]
             q == [t.kept EXCEPT !["credential"] = None, !["keyboard"] = None]
  <1>0. /\ p \in [Kinds -> Nat] /\ q \in [Kinds -> Errors]
    BY DEF Tabs, Errors
  <1>00. c = [t EXCEPT !.state = "connected", !.prompted = p, !.kept = q, !.lastQuestion = None,
                       !.answers = {}]
    BY DEF CameUp, Tabs
  <1>03. \A k \in Kinds : p[k] <= t.prompted[k]
    BY DEF Tabs
  <1> HIDE DEF p, q, c
  <1>01. c \in Tabs
    BY <1>0, <1>00 DEF Tabs, States
  <1>1. CameUpFacts(t, c)
    BY <1>00, <1>01, <1>03 DEF CameUpFacts, Tabs
  <1>2. \E o \in Errors \cup Notices : SetState(t, "connected") = [c EXCEPT !.overlay = o]
    BY <1>1 DEF SetState, OnStateChanged, setOverlayMessage, Tabs, States, Notices, CameUpFacts, c
  <1> QED BY <1>1, <1>2, ZenonT(30) DEF CameUpFacts, Tabs

(* A question is offered: the tab waits for a person, and remembers why.    *)
Asks(t, u, k) ==
  /\ u \in Tabs /\ u.redialing /\ u.overlay = "asking"
  /\ u.handle = t.handle /\ u.state = t.state /\ u.error = t.error
  /\ u.cancelled = t.cancelled /\ u.label = t.label
  /\ t.prompted[k] < Limit[k] /\ u.prompted = [t.prompted EXCEPT ![k] = @ + 1]
  /\ u.kept = [t.kept EXCEPT ![k] = t.error]
  /\ \E q \in Put(k) : u.deferred = Append(t.deferred, [kind |-> k, question |-> q])
  /\ u.needsInput => k # "hostkey" \/ t.needsInput
  /\ u.answers \subseteq t.answers
LEMMA OfferFacts ==
  ASSUME NEW t \in Tabs, NEW k \in Kinds, NEW q \in Put(k), t.prompted[k] < Limit[k]
  PROVE  Asks(t, Offer(t, k, q), k)
  <1> DEFINE n == k # "hostkey" \/ t.needsInput
             p == [t.prompted EXCEPT ![k] = @ + 1]
             c == [t.kept EXCEPT ![k] = t.error]
             d == Append(t.deferred, [kind |-> k, question |-> q])
             u == [t EXCEPT !.overlay = "asking", !.needsInput = n, !.prompted = p,
                            !.redialing = TRUE, !.kept = c, !.deferred = d]
  <1>1. n \in BOOLEAN /\ p \in [Kinds -> Nat] /\ c \in [Kinds -> Errors] /\ d \in Seq(Ask)
    BY DEF Tabs, Ask, Put
  <1>2. Offer(t, k, q) = u
    BY DEF Offer, setNeedsInput, setOverlayMessage, Tabs
  <1>3. u \in Tabs
    <2> HIDE DEF n, p, c, d
    <2> QED BY <1>1 DEF Tabs, Notices
  <1>4. /\ u.redialing /\ u.overlay = "asking" /\ u.handle = t.handle /\ u.state = t.state
        /\ u.error = t.error /\ u.cancelled = t.cancelled /\ u.label = t.label
        /\ u.prompted = p /\ u.kept = c /\ u.deferred = d /\ u.needsInput = n
        /\ u.answers = t.answers
    <2> HIDE DEF n, p, c, d
    <2> QED BY DEF Tabs
  <1>5. u.needsInput => k # "hostkey" \/ t.needsInput
    BY <1>4
  <1> HIDE DEF u
  <1> QED BY <1>2, <1>3, <1>4, <1>5 DEF Asks, p, c, d

(* A failure is a question for a person, or it settles on the overlay.      *)
LEMMA FailureFacts ==
  ASSUME NEW t \in Tabs, t.state = "failed"
  PROVE  \/ OnFailed(t) = [t EXCEPT !.overlay = IF t.cancelled THEN "cancelled" ELSE t.error]
         \/ ~t.cancelled /\ \E k \in Kinds : Asks(t, OnFailed(t), k)
  <1>1. CASE t.cancelled
    BY <1>1 DEF OnFailed, Settle, setOverlayMessage
  <1>2. CASE ~t.cancelled /\ OffersHostKey(t)
    <2>1. "hostkey" \in Kinds /\ t.prompted["hostkey"] < Limit["hostkey"] /\ None \in Put("hostkey")
      BY <1>2 DEF OffersHostKey, Limit, Kinds, Put
    <2>2. OnFailed(t) = Offer(t, "hostkey", None)
      BY <1>2 DEF OnFailed
    <2> QED BY <1>2, <2>1, <2>2, OfferFacts
  <1>3. CASE ~t.cancelled /\ ~OffersHostKey(t) /\ OffersKeyboard(t)
    <2> DEFINE q == IF Repeats(t) THEN t.lastQuestion ELSE t.error
               a == IF Repeats(t) THEN t.answers \ {q} ELSE t.answers
               v == [t EXCEPT !.lastQuestion = q, !.answers = a]
    <2>1. OnFailed(t) = Offer(v, "keyboard", q)
      BY <1>3 DEF OnFailed, OfferKeyboard, Tabs
    <2>2. q \in Questions /\ a \in SUBSET Questions /\ a \subseteq t.answers
      BY <1>3 DEF OffersKeyboard, Repeats, Tabs
    <2>3. "keyboard" \in Kinds /\ t.prompted["keyboard"] < Limit["keyboard"]
      BY <1>3 DEF OffersKeyboard, Limit, Kinds
    <2>7. q \in Put("keyboard")
      BY <2>2 DEF Put
    <2> HIDE DEF q, a
    <2>4. /\ v \in Tabs /\ v.handle = t.handle /\ v.state = t.state /\ v.error = t.error
          /\ v.cancelled = t.cancelled /\ v.label = t.label /\ v.prompted = t.prompted
          /\ v.kept = t.kept /\ v.deferred = t.deferred /\ v.needsInput = t.needsInput
          /\ v.answers = a
      BY <2>2 DEF Tabs
    <2> HIDE DEF v
    <2>5. Asks(v, OnFailed(t), "keyboard")
      BY <2>1, <2>3, <2>4, <2>7, OfferFacts
    <2>6. Asks(t, OnFailed(t), "keyboard")
      BY <2>2, <2>4, <2>5 DEF Asks
    <2> QED BY <1>3, <2>3, <2>6
  <1>4. CASE ~t.cancelled /\ ~OffersHostKey(t) /\ ~OffersKeyboard(t) /\ OffersCredential(t)
    <2>1. "credential" \in Kinds /\ t.prompted["credential"] < Limit["credential"] /\ None \in Put("credential")
      BY <1>4 DEF OffersCredential, Limit, Kinds, Put
    <2>2. OnFailed(t) = Offer(t, "credential", None)
      BY <1>4 DEF OnFailed
    <2> QED BY <1>4, <2>1, <2>2, OfferFacts
  <1>5. CASE ~t.cancelled /\ ~OffersHostKey(t) /\ ~OffersKeyboard(t) /\ ~OffersCredential(t)
    BY <1>5 DEF OnFailed, Settle, setOverlayMessage
  <1> QED BY <1>1, <1>2, <1>3, <1>4, <1>5

(* What the tab makes of the end of its session, in state s.                *)
Downs(t, u, s) ==
  \/ t.state = s /\ u = t
  \/ t.state # s /\ t.redialing /\ u = [t EXCEPT !.state = s]
  \/ /\ t.state # s /\ ~t.redialing
     /\ u = [t EXCEPT !.state = s, !.overlay =
               IF t.cancelled THEN "cancelled" ELSE IF s = "failed" THEN t.error ELSE "ended"]
  \/ /\ t.state # s /\ s = "failed" /\ ~t.redialing /\ ~t.cancelled
     /\ \E k \in Kinds : Asks([t EXCEPT !.state = "failed"], u, k)
LEMMA GoesDown ==
  ASSUME NEW t \in Tabs, NEW s \in {"failed", "disconnected"}
  PROVE  Downs(t, SetState(t, s), s)
  <1> DEFINE v == [t EXCEPT !.state = s]
  <1>1. /\ v \in Tabs /\ v.state = s /\ v.redialing = t.redialing /\ v.cancelled = t.cancelled
        /\ v.error = t.error
    BY DEF Tabs, States
  <1>2. CASE t.state = s
    BY <1>2 DEF SetState, Downs
  <1>3. CASE t.state # s /\ t.redialing
    BY <1>1, <1>3 DEF SetState, Downs, OnStateChanged
  <1>4. CASE t.state # s /\ ~t.redialing /\ s = "disconnected"
    <2>1. SetState(t, s) = Settle(v)
      BY <1>1, <1>4 DEF SetState, OnStateChanged
    <2>2. Settle(v) = [v EXCEPT !.overlay = IF t.cancelled THEN "cancelled" ELSE "ended"]
      BY <1>1, <1>4 DEF Settle, setOverlayMessage
    <2> QED BY <1>4, <2>1, <2>2 DEF Downs, Tabs
  <1>5. CASE t.state # s /\ ~t.redialing /\ s = "failed"
    <2>1. SetState(t, s) = OnFailed(v)
      BY <1>1, <1>5 DEF SetState, OnStateChanged
    <2>2. \/ OnFailed(v) = [v EXCEPT !.overlay = IF t.cancelled THEN "cancelled" ELSE t.error]
          \/ ~t.cancelled /\ \E k \in Kinds : Asks(v, OnFailed(v), k)
      BY <1>1, <1>5, FailureFacts
    <2> QED BY <1>5, <2>1, <2>2 DEF Downs, Tabs
  <1> QED BY <1>2, <1>3, <1>4, <1>5

(* The same, field by field, for a tab that has error e by then.            *)
Same(t, u) == /\ u.redialing = t.redialing /\ u.needsInput = t.needsInput
              /\ u.deferred = t.deferred /\ u.prompted = t.prompted /\ u.kept = t.kept
Puts(t, u, k, e) ==
  /\ u.redialing /\ u.overlay = "asking" /\ t.prompted[k] < Limit[k]
  /\ u.prompted = [t.prompted EXCEPT ![k] = @ + 1] /\ u.kept = [t.kept EXCEPT ![k] = e]
  /\ \E q \in Put(k) : u.deferred = Append(t.deferred, [kind |-> k, question |-> q])
  /\ u.needsInput => k # "hostkey" \/ t.needsInput
Settles(t, u, s, e) ==
  u.overlay = IF t.cancelled THEN "cancelled" ELSE IF s = "failed" THEN e ELSE "ended"
Fixed(t, u, s, e) ==
  /\ u \in Tabs /\ u.state = s /\ u.error = e
  /\ u.handle = t.handle /\ u.cancelled = t.cancelled /\ u.label = t.label
  /\ u.answers \subseteq t.answers
Ceases(t, u, s, e) ==
  /\ Same(t, u)
  /\ IF t.state = s \/ t.redialing THEN u.overlay = t.overlay ELSE Settles(t, u, s, e)
Wonders(t, u, s, e) ==
  /\ s = "failed" /\ t.state # s /\ ~t.redialing /\ ~t.cancelled
  /\ \E k \in Kinds : Puts(t, u, k, e)
DownFacts(t, u, s, e) == Fixed(t, u, s, e) /\ (Ceases(t, u, s, e) \/ Wonders(t, u, s, e))

LEMMA DownsFacts ==
  ASSUME NEW t \in Tabs, NEW s \in {"failed", "disconnected"}, NEW u, Downs(t, u, s)
  PROVE  DownFacts(t, u, s, t.error)
  <1>1. CASE t.state = s /\ u = t
    BY <1>1 DEF DownFacts, Fixed, Ceases, Same
  <1>2. CASE t.state # s /\ t.redialing /\ u = [t EXCEPT !.state = s]
    BY <1>2 DEF DownFacts, Fixed, Ceases, Same, Tabs, States
  <1>3. CASE /\ t.state # s /\ ~t.redialing
             /\ u = [t EXCEPT !.state = s, !.overlay =
                     IF t.cancelled THEN "cancelled" ELSE IF s = "failed" THEN t.error ELSE "ended"]
    <2> DEFINE o == IF t.cancelled THEN "cancelled" ELSE IF s = "failed" THEN t.error ELSE "ended"
    <2>1. o \in Errors \cup Notices
      BY DEF Tabs, Notices
    <2>2. u = [t EXCEPT !.state = s, !.overlay = o]
      BY <1>3
    <2>3. u \in Tabs /\ u.overlay = o /\ u.state = s
      <3> HIDE DEF o
      <3> QED BY <2>1, <2>2 DEF Tabs, States
    <2>4. /\ u.error = t.error /\ u.handle = t.handle /\ u.cancelled = t.cancelled
          /\ u.label = t.label /\ u.answers = t.answers /\ Same(t, u)
      <3> HIDE DEF o
      <3> QED BY <2>2 DEF Tabs, Same
    <2> QED BY <1>3, <2>3, <2>4 DEF DownFacts, Fixed, Ceases, Settles
  <1>4. CASE /\ t.state # s /\ s = "failed" /\ ~t.redialing /\ ~t.cancelled
             /\ \E k \in Kinds : Asks([t EXCEPT !.state = "failed"], u, k)
    <2> DEFINE v == [t EXCEPT !.state = "failed"]
    <2>1. /\ v.state = "failed" /\ v.handle = t.handle /\ v.error = t.error
          /\ v.cancelled = t.cancelled /\ v.label = t.label /\ v.prompted = t.prompted
          /\ v.kept = t.kept /\ v.deferred = t.deferred /\ v.needsInput = t.needsInput
          /\ v.answers = t.answers
      BY DEF Tabs
    <2>2. PICK k \in Kinds : Asks(v, u, k)
      BY <1>4
    <2> HIDE DEF v
    <2>3. Puts(t, u, k, t.error)
      BY <2>1, <2>2 DEF Asks, Puts
    <2> QED BY <1>4, <2>1, <2>2, <2>3 DEF Asks, DownFacts, Fixed, Wonders
  <1> QED BY <1>1, <1>2, <1>3, <1>4 DEF Downs

LEMMA Released ==
  ASSUME NEW t \in Tabs, NEW s \in {"failed", "disconnected"}
  PROVE  DownFacts(t, SetState(t, s), s, t.error)
  <1>1. Downs(t, SetState(t, s), s)
    BY GoesDown
  <1> QED BY <1>1, DownsFacts

(* News on the way up, of a dial that is not up before it says so.          *)
Pass(t, u, up) ==
  /\ u \in Tabs
  /\ u.handle = t.handle /\ u.error = t.error /\ u.redialing = t.redialing
  /\ u.cancelled = t.cancelled /\ u.needsInput = t.needsInput
  /\ u.deferred = t.deferred /\ u.label = t.label
  /\ u.answers \subseteq t.answers /\ (up => u.answers = {})
  /\ \A k \in Kinds : u.prompted[k] <= t.prompted[k]
  /\ ~up => u.prompted = t.prompted /\ u.kept = t.kept

LEMMA PassesOn ==
  ASSUME NEW t \in Tabs, NEW v, NEW u, NEW a \in BOOLEAN, NEW b \in BOOLEAN, Pass(t, v, a), Pass(v, u, b)
  PROVE  Pass(t, u, a \/ b)
  <1>1. /\ u \in Tabs /\ u.handle = t.handle /\ u.error = t.error /\ u.redialing = t.redialing
        /\ u.cancelled = t.cancelled /\ u.needsInput = t.needsInput
        /\ u.deferred = t.deferred /\ u.label = t.label
    BY DEF Pass
  <1>2. u.answers \subseteq t.answers /\ (a \/ b => u.answers = {})
    BY DEF Pass
  <1>3. \A k \in Kinds : u.prompted[k] <= t.prompted[k]
    <2>1. \A k \in Kinds : t.prompted[k] \in Nat /\ v.prompted[k] \in Nat /\ u.prompted[k] \in Nat
      BY DEF Pass, Tabs
    <2> QED BY <2>1 DEF Pass
  <1>4. ~(a \/ b) => u.prompted = t.prompted /\ u.kept = t.kept
    BY DEF Pass
  <1> QED BY <1>1, <1>2, <1>3, <1>4 DEF Pass

LEMMA Passes ==
  ASSUME NEW t \in Tabs, NEW s \in Live, s = "connected" => t.state # "connected"
  PROVE  Pass(t, SetState(t, s), s = "connected") /\ SetState(t, s).state = s
  <1>1. CASE s = "connected"
    BY <1>1, GoesUp DEF CameUpFacts, Pass
  <1>2. CASE s \in {"connecting", "authenticating"}
    <2>1. PICK o \in Errors \cup Notices : SetState(t, s) = [t EXCEPT !.state = s, !.overlay = o]
      BY <1>2, GoesLive
    <2>2. SetState(t, s) \in Tabs
      BY <1>2, <2>1 DEF Tabs, States
    <2> QED BY <1>2, <2>1, <2>2 DEF Pass, Tabs
  <1> QED BY <1>1, <1>2 DEF Live

LEMMA EndFacts ==
  ASSUME NEW t \in Tabs, NEW item \in Ends
  PROVE  DownFacts(t, Deliver(t, item), IF item = "disconnected" THEN "disconnected" ELSE "failed",
                   IF item = "disconnected" THEN t.error ELSE item)
  <1>1. CASE item = "disconnected"
    BY <1>1, Released DEF Deliver, States
  <1>2. CASE item \in Failures
    <2>1. item \notin States
      BY <1>2, TabAssumption DEF TabAssumption, Failures, States
    <2>2. Deliver(t, item) = SetState([t EXCEPT !.error = item], "failed")
      BY <2>1 DEF Deliver
    <2> DEFINE v == [t EXCEPT !.error = item]
    <2>3. /\ v \in Tabs /\ v.error = item /\ v.handle = t.handle /\ v.cancelled = t.cancelled
          /\ v.label = t.label /\ v.answers = t.answers /\ v.state = t.state
          /\ v.redialing = t.redialing /\ v.needsInput = t.needsInput /\ v.deferred = t.deferred
          /\ v.prompted = t.prompted /\ v.kept = t.kept /\ v.overlay = t.overlay
      <3>1. item \in Errors
        BY <1>2 DEF Errors
      <3>2. v \in Tabs /\ v.error = item
        BY <3>1 DEF Tabs
      <3> QED BY <3>1, <3>2 DEF Tabs
    <2> HIDE DEF v
    <2>4. DownFacts(v, SetState(v, "failed"), "failed", item)
      BY <2>3, Released
    <2>5. DownFacts(t, SetState(v, "failed"), "failed", item)
      <3> DEFINE u == SetState(v, "failed")
      <3> HIDE DEF u
      <3>1. DownFacts(v, u, "failed", item)
        BY <2>4 DEF u
      <3>2. Fixed(v, u, "failed", item) => Fixed(t, u, "failed", item)
        BY <2>3 DEF Fixed
      <3>3. Ceases(v, u, "failed", item) => Ceases(t, u, "failed", item)
        BY <2>3 DEF Ceases, Same, Settles
      <3>4. Wonders(v, u, "failed", item) => Wonders(t, u, "failed", item)
        <4>1. \A k \in Kinds : Puts(v, u, k, item) => Puts(t, u, k, item)
          BY <2>3 DEF Puts
        <4> QED BY <2>3, <4>1 DEF Wonders
      <3> QED BY <3>1, <3>2, <3>3, <3>4 DEF DownFacts, u
    <2>6. item # "disconnected"
      BY <2>1 DEF States
    <2> QED BY <2>2, <2>5, <2>6 DEF v
  <1> QED BY <1>1, <1>2 DEF Ends

(* A drain: the news on the way up, then the end if there is one.           *)
Ready(t, items) == "connected" \in Range(items) => t.state # "connected" \/ items[1] # "connected"
EndState(item) == IF item = "disconnected" THEN "disconnected" ELSE "failed"
EndError(t, item) == IF item = "disconnected" THEN t.error ELSE item
Drained(t, u, items) ==
  \E v : /\ Pass(t, v, "connected" \in Range(items))
         /\ items = <<>> => v = t
         /\ v.state = t.state \/ v.state \in Passing
         /\ IF Ended(items) THEN DownFacts(v, u, EndState(Last(items)), EndError(v, Last(items)))
                            ELSE u = v /\ (items # <<>> => u.state \in Passing /\ u.state = Last(items))

LEMMA PassItem ==
  ASSUME NEW t \in Tabs, NEW item \in Passing, item = "connected" => t.state # "connected"
  PROVE  Pass(t, Deliver(t, item), item = "connected") /\ Deliver(t, item).state = item
  <1>1. item \in Live /\ Deliver(t, item) = SetState(t, item)
    BY DEF Deliver, Passing, States, Live
  <1> QED BY <1>1, Passes

LEMMA EndItem ==
  ASSUME NEW t \in Tabs, NEW item \in Ends
  PROVE  DownFacts(t, Deliver(t, item), EndState(item), EndError(t, item))
  BY EndFacts DEF EndState, EndError

LEMMA PassNone == ASSUME NEW t \in Tabs PROVE Pass(t, t, FALSE)
  BY DEF Pass, Tabs

LEMMA Distinct == Passing \cap Ends = {}
  BY TabAssumption DEF TabAssumption, Passing, Ends, Failures, States

LEMMA PassNth ==
  ASSUME NEW t \in Tabs, NEW v \in Tabs, NEW a \in BOOLEAN, Pass(t, v, a),
         NEW item \in Passing, item = "connected" => v.state # "connected"
  PROVE  /\ Pass(t, Deliver(v, item), a \/ item = "connected")
         /\ Deliver(v, item).state = item /\ Deliver(v, item) \in Tabs
  <1>1. Pass(v, Deliver(v, item), item = "connected") /\ Deliver(v, item).state = item
    BY PassItem
  <1>2. Pass(t, Deliver(v, item), a \/ item = "connected")
    <2> DEFINE u == Deliver(v, item)
    <2>1. CASE item = "connected"
      <3>1. Pass(v, u, TRUE)
        BY <1>1, <2>1 DEF Pass
      <3> HIDE DEF u
      <3>2. Pass(t, u, a \/ TRUE)
        BY <3>1, PassesOn, ZenonT(30)
      <3> QED BY <2>1, <3>2 DEF Pass, u
    <2>2. CASE item # "connected"
      <3>1. Pass(v, u, FALSE)
        BY <1>1, <2>2 DEF Pass
      <3>2. Pass(t, u, a \/ FALSE)
        BY <3>1, PassesOn
      <3> QED BY <2>2, <3>2 DEF Pass
    <2> QED BY <2>1, <2>2
  <1> QED BY <1>1, <1>2 DEF Pass

(* The three items, one by one.                                            *)
LEMMA StoryItems ==
  ASSUME NEW items, Story(items)
  PROVE  /\ Len(items) \in {0, 1, 2, 3} /\ DOMAIN items = 1..Len(items)
         /\ \A i \in 1..Len(items) : items[i] \in Passing \cup Ends
         /\ \A i \in 1..Len(items) : i # Len(items) => items[i] \in Passing
         /\ \A i \in 1..Len(items) : i > 1 /\ items[i] = "connected" => items[i - 1] # "connected"
         /\ items # <<>> => Last(items) = items[Len(items)]
  <1>1. Len(items) \in Nat /\ Len(items) <= 3 /\ DOMAIN items = 1..Len(items)
    BY DEF Story
  <1>2. \A i \in 1..Len(items) : items[i] \in Passing \cup Ends
    BY <1>1 DEF Story
  <1>3. \A i \in 1..Len(items) : i # Len(items) => items[i] \in Passing
    BY <1>1, <1>2 DEF Story
  <1>4. ASSUME NEW i \in 1..Len(items), i > 1, items[i] = "connected"
        PROVE  items[i - 1] # "connected"
    <2>1. i \in DOMAIN items /\ i # 1
      BY <1>1, <1>4
    <2>2. items[i - 1] = "authenticating"
      BY <1>4, <2>1 DEF Story
    <2> QED BY <2>2
  <1>5. Len(items) \in {0, 1, 2, 3}
    BY <1>1
  <1>6. items # <<>> => Last(items) = items[Len(items)]
    BY DEF Last
  <1> QED BY <1>1, <1>2, <1>3, <1>4, <1>5, <1>6

LEMMA RiseFacts ==
  ASSUME NEW t \in Tabs, NEW items, Story(items), Ready(t, items)
  PROVE  LET v1 == Deliver(t, items[1])
             v2 == Deliver(v1, items[2])
             v3 == Deliver(v2, items[3])
             up1 == items[1] = "connected"
             up2 == up1 \/ items[2] = "connected"
             up3 == up2 \/ items[3] = "connected"
         IN  /\ Len(items) >= 1 /\ items[1] \in Passing =>
                  Pass(t, v1, up1) /\ v1.state = items[1] /\ v1 \in Tabs
             /\ Len(items) >= 2 /\ items[2] \in Passing =>
                  Pass(t, v2, up2) /\ v2.state = items[2] /\ v2 \in Tabs
             /\ Len(items) >= 3 /\ items[3] \in Passing =>
                  Pass(t, v3, up3) /\ v3.state = items[3] /\ v3 \in Tabs
  <1> DEFINE v1 == Deliver(t, items[1])
             v2 == Deliver(v1, items[2])
             v3 == Deliver(v2, items[3])
             up1 == items[1] = "connected"
             up2 == up1 \/ items[2] = "connected"
             up3 == up2 \/ items[3] = "connected"
  <1>1. Len(items) >= 1 /\ items[1] = "connected" => t.state # "connected"
    BY StoryItems DEF Ready, Range
  <1>2. Len(items) >= 1 /\ items[1] \in Passing =>
                  Pass(t, v1, up1) /\ v1.state = items[1] /\ v1 \in Tabs
    <2>1. Pass(t, t, FALSE)
      BY PassNone
    <2>2. Len(items) >= 1 /\ items[1] \in Passing =>
                  Pass(t, v1, FALSE \/ items[1] = "connected") /\ v1.state = items[1] /\ v1 \in Tabs
      BY <1>1, <2>1, PassNth
    <2> QED BY <2>2
  <1>3. ASSUME Len(items) >= 2, items[2] \in Passing
        PROVE  Pass(t, v2, up2) /\ v2.state = items[2] /\ v2 \in Tabs
    <2>1. items[1] \in Passing /\ (items[2] = "connected" => items[1] # "connected")
      BY <1>3, StoryItems
    <2>2. Pass(t, v1, up1) /\ v1.state = items[1] /\ v1 \in Tabs
      BY <1>2, <1>3, <2>1
    <2> HIDE DEF v1
    <2> QED BY <1>3, <2>1, <2>2, PassNth, ZenonT(30)
  <1>4. ASSUME Len(items) >= 3, items[3] \in Passing
        PROVE  Pass(t, v3, up3) /\ v3.state = items[3] /\ v3 \in Tabs
    <2>1. items[2] \in Passing /\ (items[3] = "connected" => items[2] # "connected")
      BY <1>4, StoryItems
    <2>2. Pass(t, v2, up2) /\ v2.state = items[2] /\ v2 \in Tabs
      BY <1>3, <1>4, <2>1
    <2> HIDE DEF v2
    <2> QED BY <1>4, <2>1, <2>2, PassNth, ZenonT(30)
  <1> QED BY <1>2, <1>3, <1>4

LEMMA DrainFacts ==
  ASSUME NEW t \in Tabs, NEW items, Story(items), Ready(t, items)
  PROVE  Drained(t, DrainEvents(t, items), items)
  <1> DEFINE v1 == Deliver(t, items[1])
             v2 == Deliver(v1, items[2])
             v3 == Deliver(v2, items[3])
             up1 == items[1] = "connected"
             up2 == up1 \/ items[2] = "connected"
             up3 == up2 \/ items[3] = "connected"
  <1>1. /\ Len(items) \in {0, 1, 2, 3} /\ DOMAIN items = 1..Len(items)
        /\ \A i \in 1..Len(items) : items[i] \in Passing \cup Ends
        /\ \A i \in 1..Len(items) : i # Len(items) => items[i] \in Passing
    BY StoryItems
  <1>2. /\ Len(items) >= 1 /\ items[1] \in Passing =>
             Pass(t, v1, up1) /\ v1.state = items[1] /\ v1 \in Tabs
        /\ Len(items) >= 2 /\ items[2] \in Passing =>
             Pass(t, v2, up2) /\ v2.state = items[2] /\ v2 \in Tabs
        /\ Len(items) >= 3 /\ items[3] \in Passing =>
             Pass(t, v3, up3) /\ v3.state = items[3] /\ v3 \in Tabs
    BY RiseFacts
  <1>3. CASE Len(items) = 1
    <2>1. DrainEvents(t, items) = v1
      BY <1>1, <1>3 DEF DrainEvents, DeliverNth
    <2>2. items # <<>> /\ Last(items) = items[1]
      BY <1>3, StoryItems
    <2>3. ("connected" \in Range(items)) <=> up1
      BY <1>1, <1>3 DEF Range
    <2>4. CASE items[1] \in Passing
      <3>1. Pass(t, v1, up1) /\ v1.state = items[1]
        BY <1>2, <1>3, <2>4
      <3>2. ~Ended(items)
        BY <2>2, <2>4, Distinct DEF Ended
      <3> HIDE DEF v1, up1
      <3>3. Pass(t, v1, "connected" \in Range(items))
        BY <2>3, <3>1 DEF Pass
      <3> QED BY <2>1, <2>2, <2>4, <3>1, <3>2, <3>3 DEF Drained
    <2>5. CASE items[1] \in Ends
      <3>1. Pass(t, t, FALSE) /\ t \in Tabs
        BY PassNone
      <3>2. ~up1
        BY <2>5, Distinct DEF Passing
      <3>3. Ended(items)
        BY <2>2, <2>5 DEF Ended
      <3>4. DownFacts(t, v1, EndState(items[1]), EndError(t, items[1]))
        BY <2>5, <3>1, EndItem
      <3> HIDE DEF v1, v2, v3, up1, up2, up3
      <3>5. Pass(t, t, "connected" \in Range(items))
        BY <2>3, <3>1, <3>2 DEF Pass
      <3> QED BY <2>1, <2>2, <3>1, <3>3, <3>4, <3>5 DEF Drained
    <2> QED BY <1>1, <1>3, <2>4, <2>5
  <1>4. CASE Len(items) = 2
    <2>1. DrainEvents(t, items) = v2
      BY <1>1, <1>4 DEF DrainEvents, DeliverNth
    <2>2. items # <<>> /\ Last(items) = items[2]
      BY <1>4, StoryItems
    <2>3. ("connected" \in Range(items)) <=> up2
      BY <1>1, <1>4 DEF Range
    <2>4. CASE items[2] \in Passing
      <3>1. Pass(t, v2, up2) /\ v2.state = items[2]
        BY <1>2, <1>4, <2>4
      <3>2. ~Ended(items)
        BY <2>2, <2>4, Distinct DEF Ended
      <3> HIDE DEF v2, up2
      <3>3. Pass(t, v2, "connected" \in Range(items))
        BY <2>3, <3>1 DEF Pass
      <3> QED BY <2>1, <2>2, <2>4, <3>1, <3>2, <3>3 DEF Drained
    <2>5. CASE items[2] \in Ends
      <3>1. Pass(t, v1, up1) /\ v1.state \in Passing /\ v1 \in Tabs
        BY <1>1, <1>2, <1>4
      <3>2. up2 <=> up1
        BY <2>5, Distinct DEF Passing
      <3>3. Ended(items)
        BY <2>2, <2>5 DEF Ended
      <3>4. DownFacts(v1, v2, EndState(items[2]), EndError(v1, items[2]))
        BY <2>5, <3>1, EndItem
      <3> HIDE DEF v1, v2, v3, up1, up2, up3
      <3>5. Pass(t, v1, "connected" \in Range(items))
        BY <2>3, <3>1, <3>2 DEF Pass
      <3> QED BY <2>1, <2>2, <3>1, <3>3, <3>4, <3>5 DEF Drained
    <2> QED BY <1>1, <1>4, <2>4, <2>5
  <1>5. CASE Len(items) = 3
    <2>1. DrainEvents(t, items) = v3
      BY <1>1, <1>5 DEF DrainEvents, DeliverNth
    <2>2. items # <<>> /\ Last(items) = items[3]
      <3>1. items # <<>>
        BY <1>5
      <3> QED BY <1>5, <3>1, StoryItems
    <2>3. ("connected" \in Range(items)) <=> up3
      BY <1>1, <1>5 DEF Range
    <2>4. CASE items[3] \in Passing
      <3>1. Pass(t, v3, up3) /\ v3.state = items[3]
        BY <1>2, <1>5, <2>4
      <3>2. ~Ended(items)
        BY <2>2, <2>4, Distinct DEF Ended
      <3> HIDE DEF v3, up3
      <3>3. Pass(t, v3, "connected" \in Range(items))
        BY <2>3, <3>1 DEF Pass
      <3> QED BY <2>1, <2>2, <2>4, <3>1, <3>2, <3>3 DEF Drained
    <2>5. CASE items[3] \in Ends
      <3>1. Pass(t, v2, up2) /\ v2.state \in Passing /\ v2 \in Tabs
        BY <1>1, <1>2, <1>5
      <3>2. up3 <=> up2
        BY <2>5, Distinct DEF Passing
      <3>3. Ended(items)
        BY <2>2, <2>5 DEF Ended
      <3>4. DownFacts(v2, v3, EndState(items[3]), EndError(v2, items[3]))
        BY <2>5, <3>1, EndItem
      <3> HIDE DEF v1, v2, v3, up1, up2, up3
      <3>5. Pass(t, v2, "connected" \in Range(items))
        BY <2>3, <3>1, <3>2 DEF Pass
      <3> QED BY <2>1, <2>2, <3>1, <3>3, <3>4, <3>5 DEF Drained
    <2> QED BY <1>1, <1>5, <2>4, <2>5
  <1>6. CASE Len(items) = 0
    <2>1. items = <<>>
      BY <1>6, EmptySeq DEF Story
    <2>2. DrainEvents(t, items) = t
      BY <1>1, <1>6 DEF DrainEvents, DeliverNth
    <2>3. Pass(t, t, FALSE)
      BY PassNone
    <2>4. ~("connected" \in Range(items)) /\ ~Ended(items)
      BY <1>1, <1>6, <2>1 DEF Range, Ended
    <2>5. Pass(t, t, "connected" \in Range(items))
      BY <2>3, <2>4 DEF Pass
    <2> QED BY <2>1, <2>2, <2>4, <2>5 DEF Drained
  <1> QED BY <1>1, <1>3, <1>4, <1>5, <1>6

(* What becomes of a tab t that is drained, and released too when gone.     *)
Up(items)   == "connected" \in Range(items)
Over(items) == Ended(items) /\ Last(items) \in Failures
Down        == {"failed", "disconnected"}
Quiet(t, u, items) ==
  /\ u.redialing = t.redialing /\ u.deferred = t.deferred /\ u.needsInput = t.needsInput
  /\ \A k \in Kinds : u.prompted[k] <= t.prompted[k]
  /\ ~Up(items) => u.prompted = t.prompted /\ u.kept = t.kept
PutsOne(t, u, items, k) ==
  /\ \E q \in Put(k) : u.deferred = Append(t.deferred, [kind |-> k, question |-> q])
  /\ u.needsInput => k # "hostkey" \/ t.needsInput
  /\ 1 <= u.prompted[k] /\ u.prompted[k] <= Limit[k]
  /\ \A j \in Kinds \ {k} : u.prompted[j] <= t.prompted[j]
  /\ ~Up(items) => u.prompted = [t.prompted EXCEPT ![k] = @ + 1]
OffersOne(t, u, items, k) == PutsOne(t, u, items, k) /\ u.kept[k] = Last(items)
Offered(t, u, items) ==
  /\ Over(items) /\ ~t.redialing /\ u.redialing /\ ~t.cancelled
  /\ \E k \in Kinds : OffersOne(t, u, items, k)
Shows(t, u, items) ==
  u.state \in Down /\ ~u.redialing /\ (Ended(items) => t.state \in Live) =>
    \/ ~Ended(items) /\ t.state = u.state /\ u.overlay = t.overlay
    \/ u.overlay = "cancelled" /\ t.cancelled
    \/ u.overlay = "ended" /\ u.state = "disconnected"
    \/ Over(items) /\ u.overlay = Last(items)
Stays(t, u, items) ==
  /\ u.handle = t.handle /\ u.label = t.label
  /\ items = <<>> => u = t
  /\ items # <<>> => u.state \in (IF Ended(items) THEN {EndState(Last(items))} ELSE Passing \cap {Last(items)})
Goes(t, u) ==
  /\ ~u.handle /\ u.state \in Down
  /\ u.label = IF u.redialing THEN t.label ELSE "closed"
Moves(t, u, items) ==
  /\ u \in Tabs /\ u.cancelled = t.cancelled
  /\ u.answers \subseteq t.answers /\ (Up(items) => u.answers = {})
  /\ Quiet(t, u, items) \/ Offered(t, u, items)
  /\ Shows(t, u, items)

LEMMA DrainMoves ==
  ASSUME NEW t \in Tabs, NEW items, Story(items), Ready(t, items)
  PROVE  LET u == DrainEvents(t, items) IN Moves(t, u, items) /\ Stays(t, u, items)
  <1> DEFINE u == DrainEvents(t, items)
  <1>1. Drained(t, u, items)
    BY DrainFacts
  <1> HIDE DEF u
  <1>2. PICK v :
           /\ Pass(t, v, "connected" \in Range(items))
           /\ items = <<>> => v = t
           /\ v.state = t.state \/ v.state \in Passing
           /\ IF Ended(items) THEN DownFacts(v, u, EndState(Last(items)), EndError(v, Last(items)))
                              ELSE u = v /\ (items # <<>> => u.state \in Passing /\ u.state = Last(items))
    BY <1>1 DEF Drained
  <1>3. Pass(t, v, Up(items))
    BY <1>2 DEF Pass, Up
  <1>4. Quiet(t, v, items)
    BY <1>3 DEF Pass, Quiet
  <1>5. CASE ~Ended(items)
    <2>1. u = v /\ (items # <<>> => u.state \in Passing /\ u.state = Last(items))
      BY <1>2, <1>5
    <2>2. Shows(t, u, items)
      BY <1>2, <1>5, <2>1 DEF Shows, Passing, Down
    <2>3. Stays(t, u, items)
      BY <1>2, <1>3, <1>5, <2>1 DEF Stays, Pass
    <2> QED BY <1>3, <1>4, <2>1, <2>2, <2>3 DEF Moves, Pass, u
  <1>6. CASE Ended(items)
    <2> DEFINE s == EndState(Last(items))
               e == EndError(v, Last(items))
    <2>1. DownFacts(v, u, s, e) /\ items # <<>> /\ s \in Down
      BY <1>2, <1>6 DEF Ended, EndState, Down
    <2>2. s = "failed" => Over(items) /\ e = Last(items)
      BY <1>6 DEF EndState, EndError, Over, Ended, Ends
    <2> HIDE DEF s, e
    <2>3. Fixed(v, u, s, e)
      BY <2>1 DEF DownFacts
    <2>4. Stays(t, u, items)
      BY <1>3, <1>6, <2>1, <2>3 DEF Stays, Pass, Fixed, s
    <2>5. /\ u \in Tabs /\ u.cancelled = t.cancelled /\ u.state = s
          /\ u.answers \subseteq t.answers /\ (Up(items) => u.answers = {})
      BY <1>3, <2>3 DEF Pass, Fixed
    <2>6. CASE Ceases(v, u, s, e)
      <3>1. Quiet(t, u, items)
        BY <1>4, <2>6 DEF Quiet, Ceases, Same
      <3>2. Shows(t, u, items)
        <4> SUFFICES ASSUME ~u.redialing, t.state \in Live
                     PROVE  \/ u.overlay = "cancelled" /\ t.cancelled
                            \/ u.overlay = "ended" /\ u.state = "disconnected"
                            \/ Over(items) /\ u.overlay = Last(items)
          BY <1>6 DEF Shows
        <4>1. v.state # s /\ ~v.redialing
          BY <1>2, <2>1, <2>6 DEF Ceases, Same, Live, Passing, Down
        <4>2. Settles(v, u, s, e)
          BY <2>6, <4>1 DEF Ceases
        <4>3. v.cancelled = t.cancelled
          BY <1>3 DEF Pass
        <4> QED BY <2>1, <2>2, <2>5, <4>2, <4>3 DEF Settles, Down
      <3> QED BY <2>4, <2>5, <3>1, <3>2 DEF Moves, u
    <2>7. CASE Wonders(v, u, s, e)
      <3>1. PICK k \in Kinds : Puts(v, u, k, e)
        BY <2>7 DEF Wonders
      <3>2. e = Last(items) /\ Over(items)
        BY <2>2, <2>7 DEF Wonders
      <3>3. u.redialing /\ ~t.redialing /\ ~t.cancelled
        BY <1>3, <2>7, <3>1 DEF Wonders, Pass, Puts
      <3>4. /\ \A j \in Kinds : v.prompted[j] \in Nat /\ v.prompted[j] <= t.prompted[j]
            /\ v.prompted \in [Kinds -> Nat] /\ v.kept \in [Kinds -> Errors]
            /\ Limit[k] \in Nat
        BY <1>3, LimitType DEF Pass, Tabs
      <3>5. /\ u.kept[k] = Last(items) /\ 1 <= u.prompted[k] /\ u.prompted[k] <= Limit[k]
            /\ \A j \in Kinds \ {k} : u.prompted[j] <= t.prompted[j]
        BY <3>1, <3>2, <3>4 DEF Puts
      <3>6. ~Up(items) => u.prompted = [t.prompted EXCEPT ![k] = @ + 1]
        BY <1>3, <3>1 DEF Puts, Pass
      <3>7. /\ \E q \in Put(k) : u.deferred = Append(t.deferred, [kind |-> k, question |-> q])
            /\ u.needsInput => k # "hostkey" \/ t.needsInput
        BY <1>3, <3>1 DEF Puts, Pass
      <3>8. Offered(t, u, items)
        BY <3>2, <3>3, <3>5, <3>6, <3>7 DEF Offered, OffersOne, PutsOne
      <3>9. Shows(t, u, items)
        BY <3>3 DEF Shows
      <3> QED BY <2>4, <2>5, <3>8, <3>9 DEF Moves, u
    <2> QED BY <2>1, <2>6, <2>7 DEF DownFacts
  <1> QED BY <1>5, <1>6

LEMMA ReleaseMoves ==
  ASSUME NEW t \in Tabs, NEW items, NEW d, Moves(t, d, items), Stays(t, d, items),
         NEW s \in Down, s = "disconnected" \/ d.state = s
  PROVE  Moves(t, Release(d, s), items) /\ Goes(t, Release(d, s))
  <1> DEFINE x == [d EXCEPT !.handle = FALSE]
             w == SetState(x, s)
             u == Release(d, s)
  <1>1. d \in Tabs
    BY DEF Moves
  <1>2. /\ x \in Tabs /\ ~x.handle /\ x.state = d.state /\ x.error = d.error
        /\ x.cancelled = d.cancelled /\ x.label = d.label /\ x.answers = d.answers
        /\ x.redialing = d.redialing /\ x.needsInput = d.needsInput /\ x.deferred = d.deferred
        /\ x.prompted = d.prompted /\ x.kept = d.kept /\ x.overlay = d.overlay
    BY <1>1 DEF Tabs
  <1>3. DownFacts(x, w, s, x.error)
    BY <1>2, Released DEF Down
  <1> HIDE DEF x
  <1>4. Fixed(x, w, s, x.error) /\ Ceases(x, w, s, x.error)
    BY <1>2, <1>3 DEF DownFacts, Wonders
  <1>5. u = IF w.redialing THEN w ELSE [w EXCEPT !.label = "closed"]
    BY DEF Release, Finished, x
  <1>6. w \in Tabs
    BY <1>4 DEF Fixed
  <1> HIDE DEF w, u
  <1>7. /\ u \in Tabs /\ u.state = w.state /\ u.handle = w.handle /\ u.cancelled = w.cancelled
        /\ u.answers = w.answers /\ u.redialing = w.redialing /\ u.needsInput = w.needsInput
        /\ u.deferred = w.deferred /\ u.prompted = w.prompted /\ u.kept = w.kept
        /\ u.overlay = w.overlay /\ u.label = IF w.redialing THEN w.label ELSE "closed"
    BY <1>5, <1>6 DEF Tabs
  <1>8. /\ w.state = s /\ ~w.handle /\ w.cancelled = t.cancelled /\ w.label = t.label
        /\ w.answers \subseteq d.answers
    BY <1>2, <1>4 DEF Fixed, Moves, Stays
  <1>9. /\ w.redialing = d.redialing /\ w.needsInput = d.needsInput /\ w.deferred = d.deferred
        /\ w.prompted = d.prompted /\ w.kept = d.kept
    BY <1>2, <1>4 DEF Ceases, Same
  <1>10. Goes(t, u)
    BY <1>7, <1>8 DEF Goes
  <1>11. Quiet(t, d, items) => Quiet(t, u, items)
    BY <1>7, <1>9 DEF Quiet
  <1>12. Offered(t, d, items) => Offered(t, u, items)
    <2>1. \A k \in Kinds : OffersOne(t, d, items, k) => OffersOne(t, u, items, k)
      BY <1>7, <1>9 DEF OffersOne, PutsOne
    <2> QED BY <1>7, <1>9, <2>1 DEF Offered
  <1>13. Shows(t, u, items)
    <2> SUFFICES ASSUME u.state \in Down, ~u.redialing, Ended(items) => t.state \in Live
                 PROVE  \/ ~Ended(items) /\ t.state = u.state /\ u.overlay = t.overlay
                        \/ u.overlay = "cancelled" /\ t.cancelled
                        \/ u.overlay = "ended" /\ u.state = "disconnected"
                        \/ Over(items) /\ u.overlay = Last(items)
      BY DEF Shows
    <2>1. ~d.redialing /\ Shows(t, d, items)
      BY <1>7, <1>9 DEF Moves
    <2>2. CASE d.state = s
      <3>1. u.overlay = d.overlay /\ u.state = d.state
        BY <1>2, <1>4, <1>7, <1>8, <2>2 DEF Ceases
      <3> QED BY <2>1, <2>2, <3>1 DEF Shows
    <2>3. CASE d.state # s
      <3>1. s = "disconnected" /\ Settles(x, w, s, x.error)
        BY <1>2, <1>4, <2>1, <2>3 DEF Ceases
      <3>2. x.cancelled = t.cancelled
        BY <1>2 DEF Moves
      <3> QED BY <1>7, <1>8, <3>1, <3>2 DEF Settles
    <2> QED BY <2>2, <2>3
  <1> QED BY <1>7, <1>8, <1>10, <1>11, <1>12, <1>13 DEF Moves, u

(* A drain after which the library may say that the session is over.        *)
MayEnd(t, items) == Ended(items) \/ (items = <<>> /\ t.state \in Down)

LEMMA DrainResult ==
  ASSUME NEW t \in Tabs, NEW items, Story(items), Ready(t, items),
         NEW alive \in BOOLEAN, ~alive => MayEnd(t, items)
  PROVE  LET u == Drain(t, items, alive)
         IN  Moves(t, u, items) /\ (IF alive THEN Stays(t, u, items) ELSE Goes(t, u))
  <1> DEFINE d == DrainEvents(t, items)
  <1>1. Moves(t, d, items) /\ Stays(t, d, items)
    BY DrainMoves
  <1>2. CASE alive
    BY <1>1, <1>2 DEF Drain
  <1>3. CASE ~alive
    <2>1. d.state \in Down
      BY <1>1, <1>3 DEF Stays, MayEnd, Ended, EndState, Down
    <2>2. Drain(t, items, alive) = Release(d, d.state)
      BY <1>3 DEF Drain
    <2> HIDE DEF d
    <2>3. Moves(t, Release(d, d.state), items) /\ Goes(t, Release(d, d.state))
      BY <1>1, <2>1, ReleaseMoves
    <2> QED BY <1>3, <2>2, <2>3
  <1> QED BY <1>2, <1>3

LEMMA TerminateResult ==
  ASSUME NEW t \in Tabs, t.handle, NEW items, Story(items), Ready(t, items),
         NEW alive \in BOOLEAN, ~alive => MayEnd(t, items)
  PROVE  Moves(t, Terminate(t, items, alive), items) /\ Goes(t, Terminate(t, items, alive))
  <1>1. CASE alive
    <2> DEFINE d == DrainEvents(t, items)
    <2>1. Moves(t, d, items) /\ Stays(t, d, items)
      BY DrainMoves
    <2>2. Terminate(t, items, alive) = Release(d, "disconnected")
      BY <1>1 DEF Terminate, Drain
    <2> HIDE DEF d
    <2>3. Moves(t, Release(d, "disconnected"), items) /\ Goes(t, Release(d, "disconnected"))
      BY <2>1, ReleaseMoves DEF Down
    <2> QED BY <2>2, <2>3
  <1>2. CASE ~alive
    <2>1. Terminate(t, items, alive) = Drain(t, items, alive)
      BY <1>2 DEF Terminate
    <2>2. Moves(t, Drain(t, items, FALSE), items) /\ Goes(t, Drain(t, items, FALSE))
      BY <1>2, DrainResult
    <2>3. Drain(t, items, alive) = Drain(t, items, FALSE)
      BY <1>2
    <2> QED BY <2>1, <2>2, <2>3
  <1> QED BY <1>1, <1>2

-----------------------------------------------------------------------------
(* A step of the tab asks at most one question more, from t to u.           *)
Asked(t, u, items) ==
  /\ u.redialing /\ ~t.redialing /\ Over(items)
  /\ \E k \in Kinds : PutsOne(t, u, items, k)
Steps(t, u, items) ==
  /\ u \in Tabs /\ u.cancelled = t.cancelled
  /\ u.answers \subseteq t.answers /\ (Up(items) => u.answers = {})
  /\ Quiet(t, u, items) \/ Asked(t, u, items)

LEMMA MovesSteps ==
  ASSUME NEW t, NEW u, NEW items, Moves(t, u, items)
  PROVE  Steps(t, u, items)
  BY DEF Moves, Steps, Offered, Asked, OffersOne

(* The question a step asks is the one history counts.                      *)
LEMMA PutsLast ==
  ASSUME NEW t \in Tabs, NEW u, NEW items, Steps(t, u, items),
         NEW k \in Kinds, Len(u.deferred) > Len(t.deferred), Last(u.deferred).kind = k
  PROVE  PutsOne(t, u, items, k)
  <1>1. ~Quiet(t, u, items)
    BY DEF Quiet, Tabs
  <1>2. PICK j \in Kinds : PutsOne(t, u, items, j)
    BY <1>1 DEF Steps, Asked
  <1>3. PICK q \in Put(j) : u.deferred = Append(t.deferred, [kind |-> j, question |-> q])
    BY <1>2 DEF PutsOne
  <1>4. Last(u.deferred).kind = j
    <2>1. t.deferred \in Seq(Ask) /\ [kind |-> j, question |-> q] \in Ask
      BY DEF Tabs, Ask, Put
    <2> DEFINE a == [kind |-> j, question |-> q]
    <2>2. a.kind = j
      OBVIOUS
    <2>3. u.deferred = Append(t.deferred, a) /\ a \in Ask
      BY <1>3, <2>1
    <2> HIDE DEF a
    <2>4. Last(u.deferred) = a
      BY <2>1, <2>3 DEF Last
    <2> QED BY <2>2, <2>4
  <1> QED BY <1>2, <1>4

LEMMA RaisedOnce ==
  ASSUME NEW t \in Tabs, NEW u, NEW items, Steps(t, u, items), t.deferred = tab.deferred,
         NEW k \in Kinds, Raised(u, k)
  PROVE  PutsOne(t, u, items, k)
  BY PutsLast DEF Raised

LEMMA Counts ==
  ASSUME NEW t \in Tabs, NEW u, NEW v, NEW items, NEW d, NEW h \in Histories, Steps(t, u, items),
         \A k \in Kinds : h.asked[k] <= t.prompted[k] /\ t.prompted[k] <= Limit[k],
         \A k \in Kinds : Raised(v, k) => PutsOne(t, u, items, k)
  PROVE  \A k \in Kinds : Observed(h, v, d, items).asked[k] <= u.prompted[k] /\ u.prompted[k] <= Limit[k]
  <1> SUFFICES ASSUME NEW k \in Kinds
               PROVE  Observed(h, v, d, items).asked[k] <= u.prompted[k] /\ u.prompted[k] <= Limit[k]
    OBVIOUS
  <1> DEFINE n == (IF Up(items) THEN 0 ELSE h.asked[k]) + (IF Raised(v, k) THEN 1 ELSE 0)
  <1>1. Observed(h, v, d, items).asked[k] = n
    BY DEF Observed, Up, Histories
  <1>2. /\ t.prompted \in [Kinds -> Nat] /\ u.prompted \in [Kinds -> Nat] /\ Limit[k] \in Nat
        /\ h.asked[k] \in Nat
    BY LimitType DEF Steps, Tabs, Histories
  <1>3. CASE PutsOne(t, u, items, k)
    <2>1. n \in Nat /\ (Up(items) => n <= 1) /\ (~Up(items) => n <= h.asked[k] + 1)
      BY <1>2
    <2>2. ~Up(items) => u.prompted[k] = t.prompted[k] + 1
      BY <1>2, <1>3 DEF PutsOne
    <2>3. 1 <= u.prompted[k] /\ u.prompted[k] <= Limit[k] /\ u.prompted[k] \in Nat /\ t.prompted[k] \in Nat
      BY <1>2, <1>3 DEF PutsOne
    <2> HIDE DEF n
    <2>4. n <= u.prompted[k]
      BY <1>2, <2>1, <2>2, <2>3
    <2> QED BY <1>1, <2>3, <2>4
  <1>4. CASE ~PutsOne(t, u, items, k)
    <2>1. n = IF Up(items) THEN 0 ELSE h.asked[k]
      BY <1>2, <1>4
    <2>2. u.prompted[k] <= t.prompted[k] /\ (~Up(items) => u.prompted[k] = t.prompted[k])
      <3>1. CASE Quiet(t, u, items)
        BY <3>1 DEF Quiet
      <3>2. CASE Asked(t, u, items)
        <4>1. PICK j \in Kinds : PutsOne(t, u, items, j)
          BY <3>2 DEF Asked
        <4>2. j # k
          BY <1>4, <4>1
        <4> QED BY <1>2, <4>1, <4>2 DEF PutsOne
      <3> QED BY <3>1, <3>2 DEF Steps
    <2> HIDE DEF n
    <2> QED BY <1>1, <1>2, <2>1, <2>2
  <1> QED BY <1>3, <1>4

(* What history becomes, field by field.                                    *)
LEMMA History ==
  ASSUME NEW h \in Histories, NEW v, NEW d, d.answers \in SUBSET Questions, NEW items, Story(items)
  PROVE  LET o == Observed(h, v, d, items)
         IN  /\ o \in Histories /\ o.missed = h.missed /\ o.crossed = h.crossed
             /\ Up(items) => o.used = h.used \cup d.answers
             /\ ~Up(items) => o.used = h.used
             /\ Over(items) => o.why = Last(items)
             /\ ~Over(items) => o.why = h.why
  <1> DEFINE a == [k \in Kinds |-> (IF Up(items) THEN 0 ELSE h.asked[k]) + (IF Raised(v, k) THEN 1 ELSE 0)]
             us == IF Up(items) THEN h.used \cup d.answers ELSE h.used
             w == IF Over(items) THEN Last(items) ELSE h.why
  <1>1. Range(items) \cap Failures # {} <=> Over(items)
    <2>1. ASSUME Over(items) PROVE Range(items) \cap Failures # {}
      <3>1. items # <<>> /\ Last(items) \in Failures
        BY <2>1 DEF Over, Ended
      <3>2. Last(items) \in Range(items)
        BY <3>1, StoryItems DEF Range
      <3> QED BY <3>1, <3>2
    <2>2. ASSUME Range(items) \cap Failures # {} PROVE Over(items)
      <3>1. PICK i \in DOMAIN items : items[i] \in Failures
        BY <2>2 DEF Range
      <3>2. i = Len(items) /\ DOMAIN items = 1..Len(items)
        BY <3>1, StoryItems DEF Story, Ends
      <3>3. items # <<>> /\ Last(items) = items[i]
        BY <3>1, <3>2, StoryItems
      <3> QED BY <3>1, <3>3 DEF Over, Ended, Ends
    <2> QED BY <2>1, <2>2
  <1>2. Observed(h, v, d, items) = [h EXCEPT !.asked = a, !.used = us, !.why = w]
    BY <1>1 DEF Observed, Up
  <1>3. a \in [Kinds -> Nat] /\ us \in SUBSET Questions /\ w \in Failures \cup {None}
    BY DEF Histories, Over
  <1> HIDE DEF a, us, w
  <1>4. LET o == [h EXCEPT !.asked = a, !.used = us, !.why = w]
        IN  o \in Histories /\ o.missed = h.missed /\ o.crossed = h.crossed /\ o.used = us /\ o.why = w
    BY <1>3 DEF Histories
  <1> QED BY <1>2, <1>4 DEF us, w

-----------------------------------------------------------------------------
(* A dial: what it may have done before start() returns.                    *)
Early(early, read, l) ==
  \/ early = <<>> /\ read = "connecting" /\ l = "dialing"
  \/ early = <<"authenticating", "connected">> /\ Up(early) /\ read \in Live /\ l = "up"
  \/ Over(early) /\ ~Up(early) /\ read \in {"connecting", "authenticating", "failed"} /\ l = "over"

LEMMA EarlyFacts ==
  ASSUME NEW d, NEW early \in EarlyNews(d), NEW read \in Readable(early)
  PROVE  Story(early) /\ Early(early, read, LibAfter(early))
  <1>1. Refusals(d) \subseteq Failures /\ "other" \in Failures
    BY DEF Refusals, Failures
  <1>2. CASE early = <<>>
    <2>1. read = "connecting" /\ LibAfter(early) = "dialing"
      BY <1>2 DEF Readable, LibAfter
    <2>2. Story(early)
      BY <1>2 DEF Story
    <2> QED BY <1>2, <2>1, <2>2 DEF Early
  <1>3. CASE early = <<"authenticating", "connected">>
    <2>1. Len(early) = 2 /\ early[1] = "authenticating" /\ early[2] = "connected" /\ DOMAIN early = 1..2
      BY <1>3
    <2>2. Up(early)
      BY <2>1 DEF Up, Range
    <2>3. read \in Live
      BY <2>1 DEF Readable, Live, States
    <2>4. early # <<>> /\ Last(early) = "connected"
      BY <2>1 DEF Last
    <2>5. LibAfter(early) = "up"
      BY <2>4 DEF LibAfter
    <2>6. early \in Seq(Passing \cup Ends)
      BY <1>3 DEF Passing
    <2>7. "authenticating" \notin Ends /\ "connected" \notin Ends
      BY Distinct DEF Passing
    <2>8. \A i \in DOMAIN early : i = 1 \/ i = 2
      BY <2>1
    <2>9. \A i \in DOMAIN early : early[i] = "connected" => i = 1 \/ early[i - 1] = "authenticating"
      BY <2>1, <2>8
    <2>10. \A i \in DOMAIN early : early[i] \in Ends => i = Len(early)
      BY <2>1, <2>7, <2>8
    <2> QED BY <1>3, <2>1, <2>2, <2>3, <2>5, <2>6, <2>9, <2>10 DEF Early, Story
  <1>4. ASSUME NEW r \in Failures, early = <<r>> \/ early = <<"authenticating", r>>
        PROVE  Story(early) /\ Early(early, read, LibAfter(early))
    <2>1. /\ r \in Ends /\ r \notin Passing /\ r \notin States /\ "authenticating" \notin Ends
          /\ r # "connected"
      BY TabAssumption, Distinct DEF Ends, TabAssumption, Failures, States, Passing
    <2>2. /\ Len(early) \in {1, 2} /\ DOMAIN early = 1..Len(early) /\ early[Len(early)] = r
          /\ Len(early) = 2 => early[1] = "authenticating"
      BY <1>4
    <2>3. early # <<>> /\ Last(early) = r
      BY <2>2 DEF Last
    <2>4. \A i \in DOMAIN early : (i = Len(early) /\ early[i] = r)
                                   \/ (i # Len(early) /\ early[i] = "authenticating")
      BY <2>2
    <2>5. Over(early) /\ ~Up(early)
      BY <1>4, <2>1, <2>3, <2>4 DEF Over, Ended, Up, Range
    <2>6. read \in {"connecting", "authenticating", "failed"}
      BY <2>1, <2>4 DEF Readable, States
    <2>7. LibAfter(early) = "over"
      BY <2>1, <2>3 DEF LibAfter
    <2>8. early \in Seq(Passing \cup Ends) /\ Len(early) <= 3
      BY <1>4, <2>1, <2>2 DEF Passing
    <2>9. /\ \A i \in DOMAIN early : early[i] \in Ends => i = Len(early)
          /\ \A i \in DOMAIN early : early[i] # "connected"
      BY <2>1, <2>4
    <2> QED BY <2>5, <2>6, <2>7, <2>8, <2>9 DEF Early, Story
  <1>5. early = <<>> \/ early = <<"authenticating", "connected">>
        \/ \E r \in Failures : early = <<r>> \/ early = <<"authenticating", r>>
    BY <1>1 DEF EarlyNews
  <1> QED BY <1>2, <1>3, <1>4, <1>5

(* The state the tab shows when start() has dialled.                        *)
Begun(t, u, early, alive) ==
  IF alive THEN /\ u.handle /\ u.label = t.label
                /\ Over(early) => u.state \in Down
                /\ early = <<>> => u.state = "connecting"
                /\ Up(early) => u.state = "connected"
           ELSE Goes(t, u)

LEMMA OpenedFacts ==
  ASSUME NEW t \in Tabs, ~t.handle, ~t.redialing, t.state \in Down,
         NEW early, NEW read, NEW l, Story(early), Early(early, read, l),
         NEW alive \in BOOLEAN, ~alive => Over(early)
  PROVE  LET u == Opened(t, read, early, alive) IN Steps(t, u, early) /\ Begun(t, u, early, alive)
  <1> DEFINE x == [t EXCEPT !.handle = TRUE]
             w == SetState(x, read)
             u == Opened(t, read, early, alive)
  <1>1. /\ x \in Tabs /\ x.handle /\ x.state = t.state /\ x.error = t.error
        /\ x.cancelled = t.cancelled /\ x.label = t.label /\ x.answers = t.answers
        /\ x.redialing = t.redialing /\ x.needsInput = t.needsInput /\ x.deferred = t.deferred
        /\ x.prompted = t.prompted /\ x.kept = t.kept
    BY DEF Tabs
  <1>2. u = Drain(w, early, alive)
    BY DEF Opened
  <1>3. ~alive => MayEnd(w, early)
    BY DEF MayEnd, Over
  <1> HIDE DEF x
  <1>4. CASE read \in Live
    <2>1. Pass(x, w, read = "connected") /\ w.state = read /\ w \in Tabs
      <3>1. Pass(x, w, read = "connected") /\ w.state = read
        BY <1>1, <1>4, Passes DEF Down
      <3> QED BY <3>1 DEF Pass
    <2>2. Ready(w, early)
      <3>1. early = <<>> => ~Up(early)
        BY DEF Up, Range
      <3>2. early = <<"authenticating", "connected">> => early[1] # "connected"
        OBVIOUS
      <3> QED BY <3>1, <3>2 DEF Early, Ready, Up
    <2>3. read = "connected" => Up(early)
      BY DEF Early
    <2> HIDE DEF w, u
    <2>4. Moves(w, u, early) /\ (IF alive THEN Stays(w, u, early) ELSE Goes(w, u))
      BY <1>2, <1>3, <2>1, <2>2, DrainResult
    <2>5. /\ w.handle = x.handle /\ w.redialing = x.redialing /\ w.cancelled = x.cancelled
          /\ w.needsInput = x.needsInput /\ w.deferred = x.deferred /\ w.label = x.label
          /\ w.answers \subseteq x.answers /\ \A k \in Kinds : w.prompted[k] <= x.prompted[k]
          /\ ~Up(early) => w.prompted = x.prompted /\ w.kept = x.kept
      BY <2>1, <2>3 DEF Pass
    <2>6. \A k \in Kinds : u.prompted[k] \in Nat /\ w.prompted[k] \in Nat /\ t.prompted[k] \in Nat
      BY <2>1, <2>4 DEF Moves, Tabs
    <2>7. Quiet(w, u, early) => Quiet(t, u, early)
      BY <1>1, <2>5, <2>6 DEF Quiet
    <2>8. ASSUME NEW k \in Kinds, PutsOne(w, u, early, k) PROVE PutsOne(t, u, early, k)
      <3>1. \A j \in Kinds \ {k} : u.prompted[j] <= t.prompted[j]
        BY <1>1, <2>5, <2>6, <2>8 DEF PutsOne
      <3>2. ~Up(early) => u.prompted = [t.prompted EXCEPT ![k] = @ + 1]
        BY <1>1, <2>5, <2>8 DEF PutsOne
      <3>3. /\ \E q \in Put(k) : u.deferred = Append(t.deferred, [kind |-> k, question |-> q])
            /\ u.needsInput => k # "hostkey" \/ t.needsInput
            /\ 1 <= u.prompted[k] /\ u.prompted[k] <= Limit[k]
        BY <1>1, <2>5, <2>8 DEF PutsOne
      <3> QED BY <3>1, <3>2, <3>3 DEF PutsOne
    <2>9. Steps(w, u, early)
      BY <2>4, MovesSteps
    <2>10. Asked(w, u, early) => Asked(t, u, early)
      BY <1>1, <2>5, <2>8 DEF Asked
    <2>11. Steps(t, u, early)
      BY <1>1, <2>5, <2>7, <2>9, <2>10 DEF Steps
    <2>12. Begun(t, u, early, alive)
      <3>1. CASE ~alive
        BY <1>1, <2>4, <2>5, <3>1 DEF Begun, Goes
      <3>2. CASE alive
        <4>1. Stays(w, u, early)
          BY <2>4, <3>2
        <4>2. Over(early) => u.state \in Down
          BY <4>1 DEF Stays, Over, Ended, EndState, Down
        <4>3. early = <<>> => u.state = "connecting"
          BY <2>1, <4>1 DEF Stays, Early, Over, Ended, Up
        <4>4. Up(early) => u.state = "connected"
          <5> SUFFICES ASSUME Up(early) PROVE u.state = "connected"
            OBVIOUS
          <5>1. early = <<"authenticating", "connected">>
            BY DEF Early, Up, Range
          <5>2. early # <<>> /\ Last(early) = "connected"
            BY <5>1 DEF Last
          <5>3. ~Ended(early)
            BY <5>2, Distinct DEF Ended, Passing
          <5> QED BY <4>1, <5>2, <5>3 DEF Stays
        <4> QED BY <1>1, <2>5, <3>2, <4>1, <4>2, <4>3, <4>4 DEF Begun, Stays
      <3> QED BY <3>1, <3>2
    <2> QED BY <2>11, <2>12 DEF u
  <1>5. CASE read = "failed"
    <2>1. Over(early) /\ ~Up(early) /\ early # <<>>
      BY <1>5 DEF Early, Live, Over, Ended
    <2>2. DownFacts(x, w, "failed", x.error)
      BY <1>1, <1>5, Released
    <2>3. Fixed(x, w, "failed", x.error)
      BY <2>2 DEF DownFacts
    <2> HIDE DEF w, u
    <2>4. w \in Tabs /\ Ready(w, early)
      BY <2>1, <2>3 DEF Fixed, Ready, Up
    <2>5. Moves(w, u, early) /\ (IF alive THEN Stays(w, u, early) ELSE Goes(w, u))
      BY <1>2, <1>3, <2>4, DrainResult
    <2>6. Steps(w, u, early)
      BY <2>5, MovesSteps
    <2>7. w.cancelled = t.cancelled /\ w.answers \subseteq t.answers /\ w.handle /\ w.label = t.label
      BY <1>1, <2>3 DEF Fixed
    <2>8. ASSUME Ceases(x, w, "failed", x.error) PROVE Steps(t, u, early)
      <3>1. /\ w.redialing = t.redialing /\ w.needsInput = t.needsInput /\ w.deferred = t.deferred
            /\ w.prompted = t.prompted /\ w.kept = t.kept
        BY <1>1, <2>8 DEF Ceases, Same
      <3>2. Quiet(w, u, early) => Quiet(t, u, early)
        BY <3>1 DEF Quiet
      <3>3. \A k \in Kinds : PutsOne(w, u, early, k) => PutsOne(t, u, early, k)
        BY <3>1 DEF PutsOne
      <3>4. Asked(w, u, early) => Asked(t, u, early)
        BY <3>1, <3>3 DEF Asked
      <3> QED BY <2>6, <2>7, <3>2, <3>4 DEF Steps
    <2>9. ASSUME Wonders(x, w, "failed", x.error) PROVE Steps(t, u, early)
      <3>1. PICK k \in Kinds : Puts(x, w, k, x.error)
        BY <2>9 DEF Wonders
      <3>2. Quiet(w, u, early)
        BY <2>6, <3>1 DEF Steps, Asked, Puts
      <3>3. u.redialing /\ ~t.redialing
        BY <3>1, <3>2 DEF Puts, Quiet
      <3>4. /\ t.prompted \in [Kinds -> Nat] /\ Limit[k] \in Nat
            /\ u.prompted = w.prompted /\ w.prompted = [t.prompted EXCEPT ![k] = @ + 1]
            /\ t.prompted[k] < Limit[k]
        BY <1>1, <2>1, <3>1, <3>2, LimitType DEF Quiet, Puts, Tabs
      <3>5. /\ \E q \in Put(k) : u.deferred = Append(t.deferred, [kind |-> k, question |-> q])
            /\ u.needsInput => k # "hostkey" \/ t.needsInput
        BY <1>1, <3>1, <3>2 DEF Quiet, Puts
      <3>6. PutsOne(t, u, early, k)
        <4>1. 1 <= u.prompted[k] /\ u.prompted[k] <= Limit[k]
          BY <3>4
        <4>2. \A j \in Kinds \ {k} : u.prompted[j] <= t.prompted[j]
          BY <3>4
        <4>3. u.prompted = [t.prompted EXCEPT ![k] = @ + 1]
          BY <3>4
        <4> QED BY <3>5, <4>1, <4>2, <4>3 DEF PutsOne
      <3> QED BY <2>1, <2>6, <2>7, <3>3, <3>6 DEF Steps, Asked
    <2>10. Steps(t, u, early)
      BY <2>2, <2>8, <2>9 DEF DownFacts
    <2>11. Begun(t, u, early, alive)
      <3>1. CASE ~alive
        BY <2>5, <2>7, <3>1 DEF Begun, Goes
      <3>2. CASE alive
        <4>1. Stays(w, u, early)
          BY <2>5, <3>2
        <4>2. u.state \in Down
          BY <2>1, <4>1 DEF Stays, Over, Ended, EndState, Down
        <4> QED BY <2>1, <2>7, <3>2, <4>1, <4>2 DEF Begun, Stays
      <3> QED BY <3>1, <3>2
    <2> QED BY <2>10, <2>11 DEF u
  <1>6. read \in Live \/ read = "failed"
    BY DEF Early, Live
  <1> QED BY <1>4, <1>5, <1>6

-----------------------------------------------------------------------------
(* The mark "needs input" outlives a step only with a question behind it.   *)
LEMMA RangeAppend ==
  ASSUME NEW T, NEW q \in Seq(T), NEW x \in T
  PROVE  Range(Append(q, x)) = Range(q) \cup {x}
  <1>1. /\ DOMAIN Append(q, x) = 1..(Len(q) + 1) /\ DOMAIN q = 1..Len(q) /\ Len(q) \in Nat
        /\ Append(q, x)[Len(q) + 1] = x
        /\ \A i \in 1..Len(q) : Append(q, x)[i] = q[i]
    BY AppendProperties
  <1>2. 1..(Len(q) + 1) = (1..Len(q)) \cup {Len(q) + 1}
    BY <1>1
  <1> QED BY <1>1, <1>2 DEF Range

LEMMA Grows ==
  ASSUME NEW t \in Tabs, NEW u, NEW items, Asked(t, u, items)
  PROVE  u.deferred # <<>>
  <1>1. PICK k \in Kinds : \E q \in Put(k) :
          u.deferred = Append(t.deferred, [kind |-> k, question |-> q])
    BY DEF Asked, PutsOne
  <1>3. PICK q \in Put(k) : u.deferred = Append(t.deferred, [kind |-> k, question |-> q])
    BY <1>1
  <1>2. t.deferred \in Seq(Ask) /\ [kind |-> k, question |-> q] \in Ask
    BY DEF Tabs, Ask, Put
  <1> QED BY <1>2, <1>3, AppendProperties

Honest(t, others) == t.needsInput => \E a \in Range(t.deferred) \cup others : a.kind # "hostkey"
LEMMA StaysHonest ==
  ASSUME NEW t \in Tabs, NEW u, NEW items, NEW others, Steps(t, u, items), Honest(t, others)
  PROVE  Honest(u, others)
  <1>1. CASE Quiet(t, u, items)
    BY <1>1 DEF Quiet, Honest
  <1>2. CASE Asked(t, u, items)
    <2>0. PICK k \in Kinds : PutsOne(t, u, items, k)
      BY <1>2 DEF Asked
    <2>1. PICK q \in Put(k) :
            /\ u.deferred = Append(t.deferred, [kind |-> k, question |-> q])
            /\ u.needsInput => k # "hostkey" \/ t.needsInput
      BY <2>0 DEF PutsOne
    <2> DEFINE a == [kind |-> k, question |-> q]
    <2>2. a \in Ask /\ a.kind = k /\ t.deferred \in Seq(Ask)
      BY DEF Ask, Tabs, Put
    <2> HIDE DEF a
    <2>3. Range(u.deferred) = Range(t.deferred) \cup {a}
      <3>1. u.deferred = Append(t.deferred, a)
        BY <2>1 DEF a
      <3> QED BY <2>2, <3>1, RangeAppend
    <2> QED BY <2>1, <2>2, <2>3 DEF Honest
  <1> QED BY <1>1, <1>2 DEF Steps

(* A tab about to dial, and the history it dials with.                      *)
StartReady(t, h) ==
  /\ t \in Tabs /\ h \in Histories /\ ~t.redialing /\ t.deferred = tab.deferred
  /\ \A k \in Kinds : h.asked[k] <= t.prompted[k] /\ t.prompted[k] <= Limit[k]
  /\ t.answers \cap h.used = {}
  /\ prompts' \in Seq(Ask) /\ Honest(t, Range(prompts'))
  /\ ~h.crossed => ~t.handle /\ t.deferred = <<>> /\ prompts' = <<>>
  /\ IF t.handle THEN tab.handle /\ t.state = tab.state ELSE t.state \in Down

LEMMA DialStarts ==
  ASSUME tab \in Tabs, NEW t, NEW h, StartReady(t, h), NEW tofu \in BOOLEAN, NEW retitled \in BOOLEAN,
         StartsDial(t, tofu, h, retitled),
         ~retitled => t.label # "new" /\ (h.crossed \/ t.label # "closed")
  PROVE  TabInv'
  <1> DEFINE d == [tofu |-> tofu, answers |-> t.answers]
  <1>0. PICK early \in EarlyNews(d) : \E read \in Readable(early), alive \in BOOLEAN :
          /\ ~alive => LibAfter(early) = "over"
          /\ tab' = IF retitled THEN MarkedOpen(Opened(t, read, early, alive)) ELSE Opened(t, read, early, alive)
          /\ lib' = IF alive THEN LibAfter(early) ELSE "none"
          /\ seen' = [Observed(h, Opened(t, read, early, alive), d, early) EXCEPT
                        !.missed = Range(early) \cap Failures # {}]
    BY DEF StartsDial
  <1>1. PICK read \in Readable(early), alive \in BOOLEAN :
          /\ ~alive => LibAfter(early) = "over"
          /\ tab' = IF retitled THEN MarkedOpen(Opened(t, read, early, alive)) ELSE Opened(t, read, early, alive)
          /\ lib' = IF alive THEN LibAfter(early) ELSE "none"
          /\ seen' = [Observed(h, Opened(t, read, early, alive), d, early) EXCEPT
                        !.missed = Range(early) \cap Failures # {}]
    BY <1>0
  <1>2. ~t.handle /\ dialled' = d /\ news' = <<>>
    BY DEF StartsDial
  <1> DEFINE u == Opened(t, read, early, alive)
             l == LibAfter(early)
             o == Observed(h, u, d, early)
             m == Range(early) \cap Failures # {}
  <1>3. Story(early) /\ Early(early, read, l)
    BY <1>1, EarlyFacts
  <1>4. ~alive => Over(early)
    BY <1>1, <1>3 DEF Early
  <1>5. t \in Tabs /\ h \in Histories /\ ~t.redialing /\ t.state \in Down /\ t.deferred = tab.deferred
    BY <1>2 DEF StartReady
  <1>6. Steps(t, u, early) /\ Begun(t, u, early, alive)
    BY <1>2, <1>3, <1>4, <1>5, OpenedFacts
  <1>7. d.answers = t.answers /\ t.answers \in SUBSET Questions /\ d \in [tofu : BOOLEAN, answers : SUBSET Questions]
    BY <1>5 DEF Tabs
  <1> HIDE DEF u, l, d, o
  <1>8. /\ o \in Histories /\ o.crossed = h.crossed
        /\ Up(early) => o.used = h.used \cup d.answers
        /\ ~Up(early) => o.used = h.used
    <2>1. h \in Histories /\ d.answers \in SUBSET Questions /\ Story(early)
      BY <1>3, <1>5, <1>7
    <2> QED BY <2>1, History DEF o
  <1>9. Over(early) => m
    BY <1>3, StoryItems DEF Over, Ended, Range
  <1> HIDE DEF m
  <1>10. /\ seen' \in Histories /\ seen'.crossed = h.crossed /\ seen'.used = o.used
         /\ seen'.asked = o.asked /\ (Over(early) => seen'.missed)
    <2>1. seen' = [o EXCEPT !.missed = m] /\ m \in BOOLEAN
      BY <1>1 DEF o, u, m
    <2> QED BY <1>8, <1>9, <2>1 DEF Histories
  <1>11. /\ tab' \in Tabs /\ tab'.handle = u.handle /\ tab'.state = u.state
         /\ tab'.redialing = u.redialing /\ tab'.needsInput = u.needsInput
         /\ tab'.prompted = u.prompted /\ tab'.kept = u.kept /\ tab'.answers = u.answers
         /\ tab'.deferred = u.deferred /\ tab'.label = IF retitled THEN "open" ELSE u.label
    <2>1. u \in Tabs /\ tab' = IF retitled THEN [u EXCEPT !.label = "open"] ELSE u
      BY <1>1, <1>6 DEF Steps, MarkedOpen, u
    <2>2. CASE retitled
      BY <2>1, <2>2 DEF Tabs
    <2>3. CASE ~retitled
      BY <2>1, <2>3
    <2> QED BY <2>2, <2>3
  <1>12. /\ lib' = IF alive THEN l ELSE "none"
         /\ l \in {"dialing", "up", "over"}
         /\ l = "dialing" => early = <<>>
         /\ l = "up" => Up(early)
         /\ l = "over" <=> Over(early)
         /\ Over(early) => ~Up(early)
    <2>1. /\ Over(early) => early # <<>>
          /\ Up(early) => early # <<>>
      BY DEF Over, Ended, Up, Range
    <2>2. early = <<"authenticating", "connected">> => ~Over(early)
      <3>1. early = <<"authenticating", "connected">> => early # <<>> /\ Last(early) = "connected"
        BY DEF Last
      <3>2. "connected" \notin Failures
        BY Distinct DEF Passing, Ends
      <3> QED BY <3>1, <3>2 DEF Over
    <2> QED BY <1>1, <1>3, <2>1, <2>2 DEF Early, l
  <1>13. alive => u.handle /\ u.label = t.label
    BY <1>6 DEF Begun
  <1>14. ~alive => Goes(t, u) /\ Over(early)
    BY <1>4, <1>6 DEF Begun
  <1>15. /\ Over(early) => u.state \in Down
         /\ early = <<>> => u.state = "connecting"
         /\ Up(early) => u.state = "connected"
    BY <1>6, <1>12, <1>14 DEF Begun, Goes, Over, Ended
  <1>20. TypeOK'
    <2>1. Story(<<>>)
      BY DEF Story
    <2>2. lib' \in {"none", "dialing", "handshake", "up", "over"}
      BY <1>12
    <2> QED BY <1>2, <1>7, <1>10, <1>11, <2>1, <2>2 DEF TypeOK, StartReady
  <1>21. Channel'
    <2>1. ("connected" \notin Range(<<>>)) /\ ~Ended(<<>>) /\ Len(<<>>) = 0
      BY DEF Range, Ended
    <2>2. (lib' = "none") <=> ~tab'.handle
      BY <1>11, <1>12, <1>13, <1>14 DEF Goes
    <2>3. lib' \in {"dialing", "handshake"} => tab'.state = "connecting"
      BY <1>11, <1>12, <1>15
    <2>4. lib' = "up" => tab'.state = "connected"
      BY <1>11, <1>12, <1>15
    <2>5. lib' \in {"none", "over"} => tab'.state \in Down
      BY <1>11, <1>12, <1>14, <1>15
    <2>6. lib' \in {"none", "dialing", "up", "over"}
      BY <1>12
    <2> QED BY <1>2, <2>1, <2>2, <2>3, <2>4, <2>5, <2>6 DEF Channel, Live, Down
  <1>22. Counted'
    <2>1. \A k \in Kinds : Raised(u, k) => PutsOne(t, u, early, k)
      BY <1>5, <1>6, RaisedOnce
    <2>2. \A k \in Kinds : h.asked[k] <= t.prompted[k] /\ t.prompted[k] <= Limit[k]
      BY DEF StartReady
    <2>3. \A k \in Kinds : o.asked[k] <= u.prompted[k] /\ u.prompted[k] <= Limit[k]
      BY <1>5, <1>6, <2>1, <2>2, Counts DEF o
    <2> QED BY <1>10, <1>11, <2>3 DEF Counted
  <1>23. Alone'
    <2> SUFFICES ASSUME ~h.crossed PROVE Alone'
      BY <1>10 DEF Alone
    <2>1. t.deferred = <<>> /\ prompts' = <<>>
      BY DEF StartReady
    <2>2. CASE Quiet(t, u, early)
      <3>1. u.deferred = <<>> /\ ~u.redialing
        BY <1>5, <2>1, <2>2 DEF Quiet
      <3>2. tab'.label = "closed" => ~tab'.handle
        BY <1>11, <1>13, <1>14 DEF Goes
      <3>3. Range(u.deferred) = {} /\ Range(prompts') = {} /\ Len(u.deferred) + Len(prompts') = 0
        BY <2>1, <3>1 DEF Range
      <3> QED BY <1>11, <2>1, <3>1, <3>2, <3>3 DEF Alone, Pending
    <2>3. CASE Asked(t, u, early)
      <3>1. Over(early) /\ u.redialing
        BY <2>3 DEF Asked
      <3>2. PICK k \in Kinds : \E q \in Put(k) :
              u.deferred = Append(<<>>, [kind |-> k, question |-> q])
        BY <2>1, <2>3 DEF Asked, PutsOne
      <3>3. u.deferred # <<>> /\ Len(u.deferred) = 1
        BY <3>2
      <3>4. Len(prompts') = 0
        BY <2>1
      <3>5. tab'.label # "closed"
        BY <1>11, <1>13, <1>14, <3>1 DEF Goes
      <3>6. lib' \in {"none", "over"} /\ news' = <<>> /\ seen'.missed
        BY <1>2, <1>10, <1>12, <3>1
      <3>7. Len(tab'.deferred) + Len(prompts') <= 1
        BY <1>11, <3>3, <3>4
      <3> QED BY <1>11, <2>1, <3>1, <3>3, <3>5, <3>6, <3>7 DEF Alone, Pending
    <2> QED BY <1>6, <2>2, <2>3 DEF Steps
  <1>24. Fresh'
    BY <1>11, <1>13, <1>14 DEF Fresh, Goes
  <1>25. Marked'
    <2>1. Over(early) \/ tab'.state \in {"connecting", "connected"}
      BY <1>11, <1>12, <1>15
    <2> QED BY <1>10, <2>1 DEF Marked, AtRest
  <1>26. NeverStranded'
    <2>1. u.redialing => u.deferred # <<>>
      BY <1>5, <1>6, Grows DEF Steps, Quiet
    <2> QED BY <1>11, <2>1 DEF NeverStranded
  <1>27. UsedAnswersForgotten'
    BY <1>6, <1>8, <1>10, <1>11 DEF UsedAnswersForgotten, Steps, StartReady
  <1>28. NeedsInputHonest'
    <2>1. Honest(u, Range(prompts'))
      BY <1>5, <1>6, StaysHonest DEF StartReady
    <2> QED BY <1>11, <2>1 DEF NeedsInputHonest, Honest
  <1> QED BY <1>20, <1>21, <1>22, <1>23, <1>24, <1>25, <1>26, <1>27, <1>28 DEF TabInv

(* A start that is refused asks nothing: a handle still open, or a          *)
(* configuration that does not do, is no question.                         *)
Declined(t, u) ==
  /\ u \in Tabs /\ u.handle = t.handle /\ u.redialing = t.redialing
  /\ u.cancelled = t.cancelled /\ u.needsInput = t.needsInput
  /\ u.prompted = t.prompted /\ u.kept = t.kept /\ u.answers = t.answers
  /\ u.deferred = t.deferred /\ u.label = t.label
  /\ IF t.handle THEN u.overlay = "running" /\ u.state = t.state ELSE u.state = "failed"
LEMMA RefusedFacts ==
  ASSUME NEW t \in Tabs, ~t.redialing
  PROVE  Declined(t, Refused(t))
  <1>1. CASE t.handle
    <2>1. Refused(t) = [t EXCEPT !.error = "running", !.overlay = "running"]
      BY <1>1 DEF Refused, setOverlayMessage, Tabs
    <2> QED BY <1>1, <2>1 DEF Declined, Tabs, Errors
  <1>2. CASE ~t.handle
    <2> DEFINE x == [t EXCEPT !.error = "other"]
               v == [x EXCEPT !.state = "failed"]
    <2>1. /\ v \in Tabs /\ v.error = "other" /\ v.state = "failed" /\ ~v.redialing
          /\ x \in Tabs /\ x.state = t.state
      BY DEF Tabs, States, Errors, Failures
    <2>2. "other" \notin Questions
      BY TabAssumption DEF TabAssumption
    <2>3. ~OffersHostKey(v) /\ ~OffersKeyboard(v) /\ ~OffersCredential(v)
      BY <2>1, <2>2 DEF OffersHostKey, OffersKeyboard, OffersCredential, Repeats
    <2>4. \E o : SetState(x, "failed") = [x EXCEPT !.state = "failed", !.overlay = o]
      <3>1. CASE t.state = "failed"
        <4>1. SetState(x, "failed") = x
          BY <2>1, <3>1 DEF SetState
        <4>2. x = [x EXCEPT !.state = "failed", !.overlay = x.overlay]
          BY <2>1, <3>1 DEF Tabs
        <4> QED BY <4>1, <4>2
      <3>2. CASE t.state # "failed"
        <4>1. SetState(x, "failed") = OnStateChanged(v)
          BY <2>1, <3>2 DEF SetState
        <4>2. OnStateChanged(v) = OnFailed(v)
          BY <2>1 DEF OnStateChanged
        <4>3. OnFailed(v) = Settle(v)
          BY <2>3 DEF OnFailed
        <4>4. \E o : Settle(v) = [v EXCEPT !.overlay = o]
          BY DEF Settle, setOverlayMessage
        <4> QED BY <4>1, <4>2, <4>3, <4>4 DEF Tabs
      <3> QED BY <3>1, <3>2
    <2>5. PICK o : SetState(x, "failed") = [x EXCEPT !.state = "failed", !.overlay = o]
      BY <2>4
    <2>6. Refused(t) = [SetState(x, "failed") EXCEPT !.overlay = "other"]
      BY <1>2 DEF Refused, setOverlayMessage
    <2>7. Refused(t) = [t EXCEPT !.error = "other", !.state = "failed", !.overlay = "other"]
      BY <2>5, <2>6 DEF Tabs
    <2> QED BY <1>2, <2>7 DEF Declined, Tabs, States, Errors, Failures
  <1> QED BY <1>1, <1>2

LEMMA RefusedStarts ==
  ASSUME TypeOK, Channel, NEW t, NEW h, StartReady(t, h), NEW retitled \in BOOLEAN,
         StartRefused(t, h, retitled), ~retitled => t.label # "new"
  PROVE  TabInv'
  <1> DEFINE u == Refused(t)
  <1>1. /\ t \in Tabs /\ h \in Histories /\ ~t.redialing /\ t.deferred = tab.deferred
        /\ prompts' \in Seq(Ask) /\ Honest(t, Range(prompts'))
        /\ (~h.crossed => ~t.handle /\ t.deferred = <<>> /\ prompts' = <<>>)
    BY DEF StartReady
  <1>2. Declined(t, u)
    BY <1>1, RefusedFacts
  <1>3. /\ tab' = IF retitled THEN [u EXCEPT !.label = "failed"] ELSE u
        /\ dialled' = dialled
        /\ t.handle => seen' = h /\ lib' = lib /\ news' = news
        /\ ~t.handle => seen' = [h EXCEPT !.missed = TRUE] /\ lib' = "none" /\ news' = <<>>
    BY DEF StartRefused, MarkedFailed
  <1> HIDE DEF u
  <1>4. /\ tab' \in Tabs /\ tab'.handle = u.handle /\ tab'.state = u.state
        /\ tab'.redialing = u.redialing /\ tab'.needsInput = u.needsInput
        /\ tab'.prompted = u.prompted /\ tab'.kept = u.kept /\ tab'.answers = u.answers
        /\ tab'.deferred = u.deferred /\ tab'.overlay = u.overlay
        /\ tab'.label = IF retitled THEN "failed" ELSE u.label
    <2>1. u \in Tabs
      BY <1>2 DEF Declined
    <2>2. CASE retitled
      BY <1>3, <2>1, <2>2 DEF Tabs
    <2>3. CASE ~retitled
      BY <1>3, <2>1, <2>3
    <2> QED BY <2>2, <2>3
  <1>5. /\ tab'.handle = t.handle /\ ~tab'.redialing /\ tab'.needsInput = t.needsInput
        /\ tab'.prompted = t.prompted /\ tab'.kept = t.kept /\ tab'.answers = t.answers
        /\ tab'.deferred = t.deferred /\ tab'.label = IF retitled THEN "failed" ELSE t.label
        /\ IF t.handle THEN tab'.overlay = "running" /\ tab'.state = t.state ELSE tab'.state = "failed"
    BY <1>1, <1>2, <1>4 DEF Declined
  <1>6. /\ seen' \in Histories /\ seen'.asked = h.asked /\ seen'.used = h.used
        /\ seen'.crossed = h.crossed /\ (~t.handle => seen'.missed)
    <2>1. CASE t.handle
      BY <1>1, <1>3, <2>1
    <2>2. CASE ~t.handle
      BY <1>1, <1>3, <2>2 DEF Histories
    <2> QED BY <2>1, <2>2
  <1>10. TypeOK'
    <2>1. Story(<<>>)
      BY DEF Story
    <2> QED BY <1>1, <1>3, <1>4, <1>6, <2>1 DEF TypeOK
  <1>11. Channel'
    <2>1. CASE t.handle
      <3>1. tab.handle /\ t.state = tab.state
        BY <2>1 DEF StartReady
      <3>2. tab'.handle = tab.handle /\ tab'.state = tab.state /\ lib' = lib /\ news' = news
        BY <1>3, <1>5, <2>1, <3>1
      <3> QED BY <3>2 DEF Channel
    <2>2. CASE ~t.handle
      <3>1. ("connected" \notin Range(<<>>)) /\ ~Ended(<<>>) /\ Len(<<>>) = 0
        BY DEF Range, Ended
      <3>2. ~tab'.handle /\ lib' = "none" /\ news' = <<>> /\ tab'.state = "failed"
        BY <1>3, <1>5, <2>2
      <3> QED BY <3>1, <3>2 DEF Channel
    <2> QED BY <2>1, <2>2
  <1>12. Counted'
    BY <1>5, <1>6 DEF Counted, StartReady
  <1>13. Alone'
    <2> SUFFICES ASSUME ~h.crossed PROVE Alone'
      BY <1>6 DEF Alone
    <2>1. ~tab'.handle /\ tab'.deferred = <<>> /\ prompts' = <<>>
      BY <1>1, <1>5
    <2>2. Range(tab'.deferred) = {} /\ Range(prompts') = {} /\ Len(tab'.deferred) + Len(prompts') = 0
      BY <2>1 DEF Range
    <2> QED BY <1>5, <2>1, <2>2 DEF Alone, Pending
  <1>14. Fresh'
    BY <1>5 DEF Fresh
  <1>15. Marked'
    BY <1>1, <1>5, <1>6 DEF Marked, AtRest
  <1>16. NeverStranded'
    BY <1>5 DEF NeverStranded
  <1>17. UsedAnswersForgotten'
    BY <1>5, <1>6 DEF UsedAnswersForgotten, StartReady
  <1>18. NeedsInputHonest'
    BY <1>1, <1>5 DEF NeedsInputHonest, Honest
  <1> QED BY <1>10, <1>11, <1>12, <1>13, <1>14, <1>15, <1>16, <1>17, <1>18 DEF TabInv

-----------------------------------------------------------------------------
(* The library's own steps.                                                 *)
LEMMA NewsOf ==
  ASSUME Story(news), ~Ended(news), Len(news) <= 2, NEW x \in Passing \cup Ends,
         x = "connected" => "connected" \notin Range(news)
  PROVE  /\ Story(Append(news, x)) /\ Len(Append(news, x)) = Len(news) + 1 /\ Append(news, x) # <<>>
         /\ Ended(Append(news, x)) <=> x \in Ends
         /\ Range(Append(news, x)) = Range(news) \cup {x}
  <1> DEFINE n == Append(news, x)
  <1>1. /\ news \in Seq(Passing \cup Ends) /\ Len(news) \in Nat /\ DOMAIN news = 1..Len(news)
        /\ \A i \in 1..Len(news) : news[i] \in Passing \cup Ends
    BY DEF Story
  <1>2. /\ n \in Seq(Passing \cup Ends) /\ Len(n) = Len(news) + 1 /\ n # <<>>
        /\ n[Len(news) + 1] = x /\ \A i \in 1..Len(news) : n[i] = news[i]
    BY <1>1, AppendProperties
  <1>3. Range(n) = Range(news) \cup {x}
    BY <1>1, RangeAppend
  <1>4. DOMAIN n = 1..(Len(news) + 1)
    BY <1>2
  <1> HIDE DEF n
  <1>5. Last(n) = x
    BY <1>2 DEF Last
  <1>6. \A i \in 1..Len(news) : news[i] \notin Ends
    <2> SUFFICES ASSUME NEW i \in 1..Len(news), news[i] \in Ends PROVE FALSE
      OBVIOUS
    <2>1. i = Len(news) /\ news # <<>>
      <3>0. i \in DOMAIN news /\ i >= 1 /\ i \in Int
        BY <1>1
      <3>1. i = Len(news) /\ Len(news) # 0
        BY <3>0 DEF Story
      <3>2. Len(<<>>) = 0
        OBVIOUS
      <3> QED BY <3>1, <3>2
    <2>2. Last(news) = news[i]
      BY <2>1, StoryItems
    <2> QED BY <2>1, <2>2 DEF Ended
  <1>7. \A i \in DOMAIN n : n[i] \in Ends => i = Len(n)
    BY <1>1, <1>2, <1>4, <1>6
  <1>8. \A i \in DOMAIN n : n[i] = "connected" => i = 1 \/ n[i - 1] = "authenticating"
    <2> SUFFICES ASSUME NEW i \in DOMAIN n, n[i] = "connected", i # 1 PROVE n[i - 1] = "authenticating"
      OBVIOUS
    <2>1. CASE i \in 1..Len(news)
      <3>1. news[i] = "connected" /\ i \in DOMAIN news
        BY <1>1, <1>2, <2>1
      <3>2. news[i - 1] = "authenticating"
        BY <3>1 DEF Story
      <3>3. i - 1 \in 1..Len(news)
        BY <1>1, <2>1
      <3> QED BY <1>2, <3>2, <3>3
    <2>2. CASE i = Len(news) + 1
      <3>1. x = "connected"
        BY <1>2, <2>2
      <3>2. i - 1 \in 1..Len(news)
        BY <1>1, <2>2
      <3>3. news[i - 1] \in Passing /\ news[i - 1] # "connected"
        BY <1>1, <1>6, <3>1, <3>2 DEF Range
      <3> QED BY <1>2, <3>2, <3>3 DEF Passing
    <2> QED BY <1>1, <1>4, <2>1, <2>2
  <1>9. Story(n) /\ (Ended(n) <=> x \in Ends)
    BY <1>1, <1>2, <1>5, <1>7, <1>8 DEF Story, Ended
  <1> QED BY <1>2, <1>3, <1>9 DEF n

LEMMA LibrarySteps ==
  ASSUME TabInv, DialEnds \/ HangsUp
  PROVE  TabInv'
  <1>1. /\ tab' = tab /\ dialled' = dialled /\ prompts' = prompts /\ seen' = seen
    BY DEF DialEnds, Authenticates, ComesUp, Fails, HangsUp
  <1>2. PICK x \in Passing \cup Ends : news' = Append(news, x)
    <2>1. \A r \in Refusals(dialled) \cup {"other"} : r \in Ends
      BY DEF Refusals, Ends, Failures
    <2>2. "authenticating" \in Passing /\ "connected" \in Passing /\ "disconnected" \in Ends
      BY DEF Passing, Ends
    <2> QED BY <2>1, <2>2 DEF DialEnds, Authenticates, ComesUp, Fails, HangsUp
  <1>3. /\ \/ lib = "dialing" /\ lib' = "handshake" /\ x = "authenticating"
           \/ lib = "handshake" /\ lib' = "up" /\ x = "connected"
           \/ lib \in {"dialing", "handshake", "up"} /\ lib' = "over" /\ x \in Ends
    <2>1. TypeOK
      BY DEF TabInv
    <2>2. \A y : news' = Append(news, y) => y = x
      <3>1. news \in Seq(Passing \cup Ends)
        BY <2>1 DEF TypeOK, Story
      <3> SUFFICES ASSUME NEW y, Append(news, x) = Append(news, y) PROVE y = x
        BY <1>2
      <3>2. Append(news, x)[Len(news) + 1] = x /\ Append(news, y)[Len(news) + 1] = y
        BY <3>1
      <3> QED BY <3>2
    <2>3. \A r \in Refusals(dialled) \cup {"other"} : r \in Ends
      BY DEF Refusals, Ends, Failures
    <2>4. CASE Authenticates
      BY <2>2, <2>4 DEF Authenticates
    <2>5. CASE ComesUp
      BY <2>2, <2>5 DEF ComesUp
    <2>6. CASE Fails
      <3>1. PICK r \in Refusals(dialled) \cup {"other"} : news' = Append(news, r)
        BY <2>6 DEF Fails
      <3> QED BY <2>2, <2>3, <2>6, <3>1 DEF Fails
    <2>7. CASE HangsUp
      <3>1. "disconnected" \in Ends
        BY DEF Ends
      <3> QED BY <2>2, <2>7, <3>1 DEF HangsUp
    <2> QED BY <2>4, <2>5, <2>6, <2>7 DEF DialEnds
  <1>4. /\ Story(news) /\ ~Ended(news) /\ Len(news) <= 2 /\ Len(news) \in Nat
        /\ x = "connected" => "connected" \notin Range(news)
    <2>1. Story(news) /\ Len(news) \in Nat
      BY DEF TabInv, TypeOK, Story
    <2>2. ~Ended(news)
      BY <1>3 DEF TabInv, Channel, Ended
    <2>3. Len(news) <= 2
      BY <1>3, <2>1 DEF TabInv, Channel
    <2>4. x = "connected" => lib = "handshake"
      BY <1>3, Distinct DEF Passing
    <2> QED BY <2>1, <2>2, <2>3, <2>4 DEF TabInv, Channel
  <1>5. /\ Story(news') /\ Len(news') = Len(news) + 1 /\ news' # <<>>
        /\ Ended(news') <=> x \in Ends
        /\ Range(news') = Range(news) \cup {x}
    BY <1>2, <1>4, NewsOf
  <1>6. TypeOK'
    BY <1>1, <1>3, <1>5 DEF TabInv, TypeOK
  <1>7. Channel'
    <2>0. Channel
      BY DEF TabInv
    <2>1. (lib' = "none") <=> ~tab'.handle
      BY <1>1, <1>3, <2>0 DEF Channel
    <2>2. Len(news') <= (CASE lib' = "handshake" -> 1 [] lib' = "up" -> 2 [] lib' = "over" -> 3 [] OTHER -> 0)
      BY <1>3, <1>4, <1>5, <2>0 DEF Channel
    <2>3. Ended(news') <=> (lib' = "over" /\ news' # <<>>)
      BY <1>3, <1>5, Distinct DEF Passing
    <2>4. lib' \in {"dialing", "handshake"} => "connected" \notin Range(news')
      BY <1>3, <1>5, <2>0 DEF Channel
    <2>5. tab.state \in Live
      BY <1>3, <2>0 DEF Channel, Live
    <2>6. lib' \in {"dialing", "handshake"} \/ "connected" \in Range(news') => tab'.state \in Live \ {"connected"}
      <3>1. x = "connected" => lib = "handshake"
        BY <1>3, Distinct DEF Passing
      <3>2. lib' \in {"dialing", "handshake"} => lib = "dialing"
        BY <1>3
      <3>3. \/ lib \in {"dialing", "handshake"} \/ "connected" \in Range(news)
            \/ ~(lib' \in {"dialing", "handshake"} \/ "connected" \in Range(news'))
        BY <1>5, <3>1, <3>2
      <3> QED BY <1>1, <2>0, <3>3 DEF Channel
    <2>7. lib' # "none" /\ news' # <<>>
      BY <1>3, <1>5
    <2> QED BY <1>1, <2>1, <2>2, <2>3, <2>4, <2>5, <2>6, <2>7 DEF Channel
  <1>8. Alone'
    <2>1. ~seen.crossed => ~Pending
      BY <1>3 DEF TabInv, Alone
    <2> QED BY <1>1, <2>1 DEF TabInv, Alone, Pending
  <1>9. Counted' /\ Fresh' /\ Marked'
    BY <1>1 DEF TabInv, Counted, Fresh, Pending, Marked, AtRest
  <1>10. NeverStranded' /\ UsedAnswersForgotten' /\ NeedsInputHonest'
    BY <1>1 DEF TabInv, NeverStranded, UsedAnswersForgotten, NeedsInputHonest
  <1> QED BY <1>6, <1>7, <1>8, <1>9, <1>10 DEF TabInv

-----------------------------------------------------------------------------
(* Drains.                                                                  *)
LEMMA NewsReady ==
  ASSUME TypeOK, Channel, NEW t, t.state = tab.state, NEW alive \in Alive
  PROVE  /\ Story(news) /\ Ready(t, news) /\ alive \in BOOLEAN
         /\ ~alive => MayEnd(t, news) /\ lib = "over"
         /\ Ended(news) => tab.state \in Live /\ lib = "over"
  <1>1. Story(news)
    BY DEF TypeOK
  <1>2. Ready(t, news)
    BY DEF Channel, Ready
  <1>3. alive \in BOOLEAN /\ (~alive => lib = "over")
    BY DEF Alive
  <1>4. lib = "over" => MayEnd(t, news)
    BY DEF Channel, MayEnd, Down
  <1>5. Ended(news) => tab.state \in Live /\ lib = "over"
    BY DEF Channel, Ended
  <1> QED BY <1>1, <1>2, <1>3, <1>4, <1>5

LEMMA StayChannel ==
  ASSUME TypeOK, Channel, tab.handle, Stays(tab, tab', news), lib' = lib, news' = <<>>
  PROVE  Channel'
  <1>1. ("connected" \notin Range(<<>>)) /\ ~Ended(<<>>) /\ Len(<<>>) = 0
    BY DEF Range, Ended
  <1>2. lib \in {"dialing", "handshake", "up", "over"} /\ tab'.handle
    BY DEF TypeOK, Channel, Stays
  <1>3. CASE news = <<>>
    <2>1. tab' = tab
      BY <1>3 DEF Stays
    <2>2. lib \in {"dialing", "handshake"} => tab.state \in Live \ {"connected"}
      BY DEF Channel
    <2>3. lib = "up" => tab.state \in Live
      BY DEF Channel
    <2>4. lib = "over" => tab.state \in {"failed", "disconnected"}
      BY <1>3 DEF Channel
    <2> QED BY <1>1, <1>2, <2>1, <2>2, <2>3, <2>4 DEF Channel
  <1>4. CASE news # <<>> /\ Ended(news)
    <2>1. lib = "over" /\ tab'.state \in {"failed", "disconnected"}
      BY <1>4 DEF Channel, Stays, EndState
    <2> QED BY <1>1, <1>2, <2>1 DEF Channel
  <1>5. CASE news # <<>> /\ ~Ended(news)
    <2>1. lib # "over" /\ tab'.state \in Passing /\ tab'.state = Last(news)
      BY <1>5 DEF Channel, Stays
    <2>2. Last(news) \in Range(news)
      <3>1. Len(news) \in DOMAIN news /\ Last(news) = news[Len(news)]
        <4>1. Len(news) # 0 /\ Len(news) \in Nat
          BY <1>5, EmptySeq DEF TypeOK, Story
        <4> QED BY <1>5, <4>1, StoryItems DEF TypeOK
      <3> QED BY <3>1 DEF Range
    <2>3. lib \in {"dialing", "handshake"} => tab'.state # "connected"
      BY <2>1, <2>2 DEF Channel
    <2> QED BY <1>1, <1>2, <2>1, <2>3 DEF Channel, Live, Passing
  <1> QED BY <1>3, <1>4, <1>5

LEMMA GoneChannel ==
  ASSUME ~tab'.handle, tab'.state \in Down, lib' = "none", news' = <<>>
  PROVE  Channel'
  <1>1. ("connected" \notin Range(<<>>)) /\ ~Ended(<<>>) /\ Len(<<>>) = 0
    BY DEF Range, Ended
  <1> QED BY <1>1 DEF Channel, Down

(* What a drain of t keeps of the counts and of the answers.                *)
LEMMA DrainKeeps ==
  ASSUME TypeOK, Counted, UsedAnswersForgotten, NEW t \in Tabs,
         t.prompted = tab.prompted, t.answers = tab.answers, Steps(t, tab', news), NEW v,
         \A k \in Kinds : Raised(v, k) => PutsOne(t, tab', news, k),
         seen' = Observed(seen, v, dialled, news)
  PROVE  /\ Counted' /\ UsedAnswersForgotten' /\ seen' \in Histories
         /\ seen'.missed = seen.missed /\ seen'.crossed = seen.crossed
         /\ Over(news) => seen'.why = Last(news)
         /\ ~Over(news) => seen'.why = seen.why
  <1>1. seen \in Histories /\ dialled.answers \in SUBSET Questions /\ Story(news)
    BY DEF TypeOK
  <1>2. /\ seen' \in Histories /\ seen'.missed = seen.missed /\ seen'.crossed = seen.crossed
        /\ Up(news) => seen'.used = seen.used \cup dialled.answers
        /\ ~Up(news) => seen'.used = seen.used
        /\ Over(news) => seen'.why = Last(news)
        /\ ~Over(news) => seen'.why = seen.why
    BY <1>1, History
  <1>3. UsedAnswersForgotten'
    BY <1>2 DEF UsedAnswersForgotten, Steps
  <1>4. \A k \in Kinds : seen.asked[k] <= t.prompted[k] /\ t.prompted[k] <= Limit[k]
    BY DEF Counted
  <1>5. Counted'
    BY <1>1, <1>4, Counts DEF Counted
  <1> QED BY <1>2, <1>3, <1>5

(* The overlay, the text and the reason, after a drain of t.                *)
LEMMA MarkedMoves ==
  ASSUME TypeOK, Channel, Marked, NEW t \in Tabs, t.handle, t.state = tab.state,
         t.redialing = tab.redialing, t.overlay = tab.overlay, tab.cancelled => t.cancelled,
         Moves(t, tab', news), Stays(t, tab', news) \/ Goes(t, tab'),
         seen'.missed = seen.missed, seen'.crossed = seen.crossed,
         Over(news) => seen'.why = Last(news), ~Over(news) => seen'.why = seen.why
  PROVE  Marked'
  <1> SUFFICES ASSUME tab'.state \in Down, ~tab'.redialing, ~seen.missed
               PROVE  /\ tab'.overlay \notin {"dialing", "asking"}
                      /\ ~tab'.handle => tab'.label # "open"
                      /\ tab'.state = "failed" /\ ~tab'.cancelled /\ ~seen.crossed => tab'.overlay = seen'.why
    BY DEF Marked, AtRest, Down
  <1>1. Ended(news) => t.state \in Live
    BY DEF Channel, Ended
  <1>2. ~t.redialing /\ tab'.cancelled = t.cancelled
    BY DEF Moves, Quiet, Offered
  <1>3. ~tab'.handle => tab'.label # "open"
    BY DEF Stays, Goes
  <1>4. CASE ~Ended(news) /\ t.state = tab'.state /\ tab'.overlay = t.overlay
    <2>1. AtRest /\ ~Over(news)
      BY <1>2, <1>4 DEF AtRest, Down, Over
    <2> QED BY <1>2, <1>3, <1>4, <2>1 DEF Marked
  <1>5. CASE tab'.overlay = "cancelled" /\ t.cancelled
    BY <1>2, <1>3, <1>5
  <1>6. CASE tab'.overlay = "ended" /\ tab'.state = "disconnected"
    BY <1>3, <1>6
  <1>7. CASE Over(news) /\ tab'.overlay = Last(news)
    <2>1. Last(news) \notin {"dialing", "asking"}
      BY <1>7, TabAssumption DEF TabAssumption, Over, Failures, Notices
    <2> QED BY <1>3, <1>7, <2>1
  <1>8. Shows(t, tab', news)
    BY DEF Moves
  <1> QED BY <1>1, <1>4, <1>5, <1>6, <1>7, <1>8 DEF Shows

LEMMA TerminateAny ==
  ASSUME TypeOK, Channel, NEW t \in Tabs, t.state = tab.state, t.handle = tab.handle, NEW alive \in Alive
  PROVE  LET u == Terminate(t, news, alive)
         IN  /\ Moves(t, u, news) /\ ~u.handle /\ u.state \in Down
             /\ (t.handle /\ Goes(t, u)) \/ (~t.handle /\ u = t /\ news = <<>> /\ lib = "none")
  <1>1. CASE t.handle
    <2>1. /\ Story(news) /\ Ready(t, news) /\ alive \in BOOLEAN /\ (~alive => MayEnd(t, news))
      BY NewsReady
    <2>2. Moves(t, Terminate(t, news, alive), news) /\ Goes(t, Terminate(t, news, alive))
      BY <1>1, <2>1, TerminateResult
    <2> QED BY <1>1, <2>2 DEF Goes
  <1>2. CASE ~t.handle
    <2>1. Terminate(t, news, alive) = t
      BY <1>2 DEF Terminate
    <2>2. lib = "none" /\ Len(news) <= 0 /\ t.state \in Down
      BY <1>2 DEF Channel, Down
    <2>3. news = <<>>
      <3>1. news \in Seq(Passing \cup Ends) /\ Len(news) = 0
        BY <2>2 DEF TypeOK, Story
      <3> QED BY <3>1, EmptySeq
    <2>4. ~Up(news) /\ ~Ended(news)
      BY <2>3 DEF Up, Ended, Range
    <2>5. Quiet(t, t, news)
      <3>1. \A k \in Kinds : t.prompted[k] <= t.prompted[k]
        BY DEF Tabs
      <3> QED BY <3>1 DEF Quiet
    <2>6. Shows(t, t, news)
      BY <2>4 DEF Shows
    <2>7. Moves(t, t, news)
      BY <2>4, <2>5, <2>6 DEF Moves
    <2> QED BY <1>2, <2>1, <2>2, <2>3, <2>7
  <1> QED BY <1>1, <1>2

LEMMA AloneQuiet ==
  ASSUME TypeOK, Alone, NEW t \in Tabs, t.deferred = tab.deferred, t.kept = tab.kept,
         t.redialing = tab.redialing, t.label = tab.label, t.handle = tab.handle,
         Quiet(t, tab', news),
         \/ Goes(t, tab') /\ lib' = "none"
         \/ tab'.handle = t.handle /\ tab'.label = t.label /\ lib' = lib,
         news' = <<>>, prompts' = prompts, seen'.missed = seen.missed, seen'.crossed = seen.crossed,
         ~Over(news) => seen'.why = seen.why
  PROVE  Alone'
  <1> SUFFICES ASSUME ~seen.crossed PROVE Alone'
    BY DEF Alone
  <1>1. /\ tab.label = "closed" => ~tab.handle /\ ~Pending
        /\ prompts # <<>> => ~tab.handle
        /\ tab.redialing <=> Pending
        /\ Len(tab.deferred) + Len(prompts) <= 1
        /\ Pending => lib \in {"none", "over"} /\ news = <<>>
        /\ \A a \in Range(tab.deferred) \cup Range(prompts) : tab.kept[a.kind] = seen.why \/ seen.missed
    BY DEF Alone
  <1>2. tab'.deferred = tab.deferred /\ tab'.redialing = tab.redialing /\ (Pending' <=> Pending)
    BY DEF Quiet, Pending
  <1>3. tab'.label = "closed" => ~tab'.handle /\ ~Pending'
    BY <1>1, <1>2 DEF Goes
  <1>4. prompts' # <<>> => ~tab'.handle
    BY <1>1 DEF Goes
  <1>5. Pending' => lib' \in {"none", "over"} /\ news' = <<>>
    BY <1>1, <1>2
  <1>6. ASSUME NEW a \in Range(tab'.deferred) \cup Range(prompts')
        PROVE  tab'.kept[a.kind] = seen'.why \/ seen'.missed
    <2>1. a \in Range(tab.deferred) \cup Range(prompts)
      BY <1>2
    <2>2. Pending
      BY <2>1 DEF Pending, Range
    <2>3. ~Up(news) /\ ~Over(news)
      BY <1>1, <2>2 DEF Up, Over, Ended, Range
    <2>4. tab'.kept = tab.kept
      BY <2>3 DEF Quiet
    <2> QED BY <1>1, <2>1, <2>3, <2>4
  <1>7. Len(tab'.deferred) + Len(prompts') <= 1
    BY <1>1, <1>2
  <1>8. tab'.redialing <=> Pending'
    BY <1>1, <1>2
  <1> QED BY <1>3, <1>4, <1>5, <1>6, <1>7, <1>8 DEF Alone

LEMMA NotifierKeeps ==
  ASSUME TabInv, NotifierDrains
  PROVE  TabInv'
  <1>1. /\ TypeOK /\ Channel /\ Counted /\ Alone /\ Fresh /\ Marked
        /\ NeverStranded /\ UsedAnswersForgotten /\ NeedsInputHonest /\ tab \in Tabs
    BY DEF TabInv, TypeOK
  <1>2. PICK alive \in Alive : /\ news # <<>> \/ ~alive
                               /\ tab' = Drain(tab, news, alive)
                               /\ lib' = IF alive THEN lib ELSE "none"
    BY DEF NotifierDrains
  <1>3. /\ tab.handle /\ news' = <<>> /\ seen' = Observed(seen, tab', dialled, news)
        /\ dialled' = dialled /\ prompts' = prompts
    BY DEF NotifierDrains
  <1>4. /\ Story(news) /\ Ready(tab, news) /\ alive \in BOOLEAN
        /\ ~alive => MayEnd(tab, news)
        /\ Ended(news) => tab.state \in Live /\ lib = "over"
    BY <1>1, NewsReady
  <1>5. Moves(tab, tab', news) /\ (IF alive THEN Stays(tab, tab', news) ELSE Goes(tab, tab'))
    BY <1>1, <1>2, <1>4, DrainResult
  <1>6. Steps(tab, tab', news)
    BY <1>5, MovesSteps
  <1>7. \A k \in Kinds : Raised(tab', k) => PutsOne(tab, tab', news, k)
    BY <1>1, <1>6, RaisedOnce
  <1>8. /\ Counted' /\ UsedAnswersForgotten' /\ seen' \in Histories
        /\ seen'.missed = seen.missed /\ seen'.crossed = seen.crossed
        /\ Over(news) => seen'.why = Last(news)
        /\ ~Over(news) => seen'.why = seen.why
    BY <1>1, <1>3, <1>6, <1>7, DrainKeeps
  <1>9. TypeOK'
    <2>1. Story(<<>>)
      BY DEF Story
    <2> QED BY <1>1, <1>2, <1>3, <1>5, <1>8, <2>1 DEF TypeOK, Moves
  <1>10. Channel'
    <2>1. CASE alive
      BY <1>1, <1>2, <1>3, <1>5, <2>1, StayChannel
    <2>2. CASE ~alive
      BY <1>2, <1>3, <1>5, <2>2, GoneChannel DEF Goes
    <2> QED BY <2>1, <2>2
  <1>11. Marked'
    BY <1>1, <1>3, <1>5, <1>8, MarkedMoves
  <1>12. tab'.label = tab.label \/ (tab'.label = "closed" /\ ~tab'.redialing /\ ~tab'.handle)
    BY <1>5 DEF Stays, Goes
  <1>13. Fresh'
    BY <1>1, <1>3, <1>12 DEF Fresh
  <1>14. NeverStranded'
    <2>1. Asked(tab, tab', news) => tab'.deferred # <<>>
      BY <1>1, Grows
    <2> QED BY <1>1, <1>3, <1>6, <2>1 DEF NeverStranded, Steps, Quiet
  <1>15. NeedsInputHonest'
    <2>1. Honest(tab, Range(prompts))
      BY <1>1 DEF NeedsInputHonest, Honest
    <2>2. Honest(tab', Range(prompts))
      BY <1>1, <1>6, <2>1, StaysHonest
    <2> QED BY <1>3, <2>2 DEF NeedsInputHonest, Honest
  <1>16. Alone'
    <2>1. CASE Quiet(tab, tab', news)
      <3>1. \/ Goes(tab, tab') /\ lib' = "none"
            \/ tab'.handle = tab.handle /\ tab'.label = tab.label /\ lib' = lib
        BY <1>2, <1>4, <1>5 DEF Stays
      <3> QED BY <1>1, <1>3, <1>8, <2>1, <3>1, AloneQuiet
    <2>2. CASE Offered(tab, tab', news)
      <3> SUFFICES ASSUME ~seen.crossed PROVE Alone'
        BY <1>8 DEF Alone
      <3>1. Over(news) /\ ~tab.redialing /\ tab'.redialing /\ \E k \in Kinds : OffersOne(tab, tab', news, k)
        BY <2>2 DEF Offered
      <3>2. ~Pending /\ tab.label # "closed"
        BY <1>1, <1>3, <3>1 DEF Alone
      <3>3. PICK k \in Kinds : OffersOne(tab, tab', news, k)
        BY <3>1
      <3>4. PICK q \in Put(k) : tab'.deferred = <<[kind |-> k, question |-> q]>>
        <4>1. tab.deferred = <<>>
          BY <3>2 DEF Pending
        <4> QED BY <3>3, <4>1 DEF OffersOne, PutsOne
      <3>5. /\ tab'.deferred # <<>> /\ Len(tab'.deferred) = 1 /\ prompts' = <<>> /\ Len(prompts') = 0
            /\ \A a \in Range(tab'.deferred) \cup Range(prompts') : a.kind = k
        BY <1>3, <3>2, <3>4 DEF Pending, Range
      <3>6. tab'.kept[k] = seen'.why
        BY <1>8, <3>1, <3>3 DEF OffersOne
      <3>7. lib' \in {"none", "over"}
        BY <1>2, <1>4, <3>1 DEF Over
      <3>8. tab'.label # "closed"
        BY <1>12, <3>1, <3>2
      <3>9. Len(tab'.deferred) + Len(prompts') <= 1
        BY <3>5
      <3>10. \A a \in Range(tab'.deferred) \cup Range(prompts') : tab'.kept[a.kind] = seen'.why
        BY <3>5, <3>6
      <3> QED BY <1>3, <3>1, <3>5, <3>7, <3>8, <3>9, <3>10 DEF Alone, Pending
    <2> QED BY <1>5, <2>1, <2>2 DEF Moves
  <1> QED BY <1>8, <1>9, <1>10, <1>11, <1>13, <1>14, <1>15, <1>16 DEF TabInv

LEMMA CancelKeeps ==
  ASSUME TabInv, CancelConnect
  PROVE  TabInv'
  <1> DEFINE t == [tab EXCEPT !.cancelled = TRUE]
  <1>1. /\ TypeOK /\ Channel /\ Counted /\ Alone /\ Fresh /\ Marked
        /\ NeverStranded /\ UsedAnswersForgotten /\ NeedsInputHonest /\ tab \in Tabs
    BY DEF TabInv, TypeOK
  <1>2. /\ t \in Tabs /\ t.cancelled /\ t.handle = tab.handle /\ t.state = tab.state
        /\ t.redialing = tab.redialing /\ t.needsInput = tab.needsInput /\ t.prompted = tab.prompted
        /\ t.kept = tab.kept /\ t.answers = tab.answers /\ t.deferred = tab.deferred
        /\ t.overlay = tab.overlay /\ t.label = tab.label
    BY <1>1 DEF Tabs
  <1>3. PICK alive \in Alive : tab' = Terminate(t, news, alive)
    BY DEF CancelConnect
  <1>4. /\ news' = <<>> /\ seen' = Observed(seen, tab', dialled, news) /\ lib' = "none"
        /\ dialled' = dialled /\ prompts' = prompts
    BY DEF CancelConnect
  <1> HIDE DEF t
  <1>5. /\ Moves(t, tab', news) /\ ~tab'.handle /\ tab'.state \in Down
        /\ (t.handle /\ Goes(t, tab')) \/ (~t.handle /\ tab' = t /\ news = <<>> /\ lib = "none")
    BY <1>1, <1>2, <1>3, TerminateAny
  <1>6. Steps(t, tab', news) /\ Quiet(t, tab', news)
    BY <1>2, <1>5, MovesSteps DEF Moves, Offered
  <1>7. \A k \in Kinds : Raised(tab', k) => PutsOne(t, tab', news, k)
    BY <1>2, <1>6, RaisedOnce
  <1>8. /\ Counted' /\ UsedAnswersForgotten' /\ seen' \in Histories
        /\ seen'.missed = seen.missed /\ seen'.crossed = seen.crossed
        /\ Over(news) => seen'.why = Last(news)
        /\ ~Over(news) => seen'.why = seen.why
    BY <1>1, <1>2, <1>4, <1>6, <1>7, DrainKeeps
  <1>9. TypeOK'
    <2>1. Story(<<>>)
      BY DEF Story
    <2> QED BY <1>1, <1>4, <1>5, <1>8, <2>1 DEF TypeOK, Moves
  <1>10. Channel'
    BY <1>4, <1>5, GoneChannel
  <1>11. Marked'
    <2>1. CASE t.handle
      BY <1>1, <1>2, <1>5, <1>8, <2>1, MarkedMoves
    <2>2. CASE ~t.handle
      <3>1. tab' = t /\ ~Over(news)
        BY <1>5, <2>2 DEF Over, Ended
      <3> QED BY <1>1, <1>2, <1>8, <3>1 DEF Marked, AtRest
    <2> QED BY <2>1, <2>2
  <1>12. Fresh'
    <2>1. tab'.redialing = tab.redialing /\ tab'.deferred = tab.deferred /\ tab'.label \in {tab.label, "closed"}
      BY <1>2, <1>5, <1>6 DEF Quiet, Goes
    <2> QED BY <1>1, <1>4, <1>5, <2>1 DEF Fresh, Pending
  <1>13. NeverStranded'
    BY <1>1, <1>2, <1>4, <1>6 DEF NeverStranded, Quiet
  <1>14. NeedsInputHonest'
    BY <1>1, <1>2, <1>4, <1>6 DEF NeedsInputHonest, Quiet
  <1>15. Alone'
    <2>1. \/ Goes(t, tab') /\ lib' = "none"
          \/ tab'.handle = t.handle /\ tab'.label = t.label /\ lib' = lib
      BY <1>4, <1>5
    <2> QED BY <1>1, <1>2, <1>4, <1>6, <1>8, <2>1, AloneQuiet
  <1> QED BY <1>8, <1>9, <1>10, <1>11, <1>12, <1>13, <1>14, <1>15 DEF TabInv

LEMMA SplitHead ==
  ASSUME NEW T, NEW q \in Seq(T), q # <<>>
  PROVE  /\ Tail(q) \in Seq(T) /\ Head(q) \in T /\ Len(q) = Len(Tail(q)) + 1
         /\ Range(q) = Range(Tail(q)) \cup {Head(q)}
  <1>1. /\ Tail(q) \in Seq(T) /\ Head(q) = q[1] /\ Len(q) \in Nat /\ Len(q) >= 1
        /\ Len(Tail(q)) = Len(q) - 1 /\ \A i \in 1..(Len(q) - 1) : Tail(q)[i] = q[i + 1]
    BY HeadTailProperties, EmptySeq
  <1>2. DOMAIN q = 1..Len(q) /\ DOMAIN Tail(q) = 1..(Len(q) - 1)
    BY <1>1
  <1>3. \A i \in 1..Len(q) : i = 1 \/ (i - 1 \in 1..(Len(q) - 1) /\ q[i] = Tail(q)[i - 1])
    BY <1>1
  <1>4. Head(q) \in T
    BY <1>1
  <1>5. Range(q) = Range(Tail(q)) \cup {Head(q)}
    <2>1. ASSUME NEW a \in Range(q) PROVE a \in Range(Tail(q)) \cup {Head(q)}
      <3>1. PICK i \in 1..Len(q) : a = q[i]
        BY <1>2, <2>1 DEF Range
      <3>2. CASE i = 1
        BY <1>1, <3>1, <3>2
      <3>3. CASE i - 1 \in 1..(Len(q) - 1) /\ q[i] = Tail(q)[i - 1]
        BY <1>2, <3>1, <3>3 DEF Range
      <3> QED BY <1>3, <3>2, <3>3
    <2>2. ASSUME NEW a \in Range(Tail(q)) PROVE a \in Range(q)
      <3>1. PICK i \in 1..(Len(q) - 1) : a = Tail(q)[i]
        BY <1>2, <2>2 DEF Range
      <3>2. i + 1 \in 1..Len(q) /\ a = q[i + 1]
        BY <1>1, <3>1
      <3> QED BY <1>2, <3>2 DEF Range
    <2>3. Head(q) \in Range(q)
      BY <1>1, <1>2 DEF Range
    <2> QED BY <2>1, <2>2, <2>3
  <1> QED BY <1>1, <1>4, <1>5

LEMMA PromptKeeps ==
  ASSUME TabInv, DeferredPrompt
  PROVE  TabInv'
  <1> DEFINE q == Tail(tab.deferred)
             a == Head(tab.deferred)
             t == [tab EXCEPT !.deferred = q]
             v == [tab' EXCEPT !.deferred = <<a>> \o tab'.deferred]
  <1>1. /\ TypeOK /\ Channel /\ Counted /\ Alone /\ Fresh /\ Marked
        /\ NeverStranded /\ UsedAnswersForgotten /\ NeedsInputHonest /\ tab \in Tabs
    BY DEF TabInv, TypeOK
  <1>2. /\ tab.deferred \in Seq(Ask) /\ tab.deferred # <<>> /\ q \in Seq(Ask) /\ a \in Ask
        /\ Len(tab.deferred) = Len(q) + 1 /\ Range(tab.deferred) = Range(q) \cup {a}
    <2>1. tab.deferred \in Seq(Ask) /\ tab.deferred # <<>>
      BY <1>1 DEF DeferredPrompt, Tabs
    <2> QED BY <2>1, SplitHead
  <1>3. PICK alive \in Alive : tab' = Terminate(t, news, alive)
    BY DEF DeferredPrompt
  <1>4. /\ news' = <<>> /\ seen' = Observed(seen, v, dialled, news) /\ lib' = "none"
        /\ dialled' = dialled /\ prompts' = Append(prompts, a)
    BY DEF DeferredPrompt
  <1> HIDE DEF q, a
  <1>5. /\ t \in Tabs /\ t.cancelled = tab.cancelled /\ t.handle = tab.handle /\ t.state = tab.state
        /\ t.redialing = tab.redialing /\ t.needsInput = tab.needsInput /\ t.prompted = tab.prompted
        /\ t.kept = tab.kept /\ t.answers = tab.answers /\ t.deferred = q
        /\ t.overlay = tab.overlay /\ t.label = tab.label
    BY <1>1, <1>2 DEF Tabs
  <1> HIDE DEF t
  <1>6. /\ Moves(t, tab', news) /\ ~tab'.handle /\ tab'.state \in Down
        /\ (t.handle /\ Goes(t, tab')) \/ (~t.handle /\ tab' = t /\ news = <<>> /\ lib = "none")
    BY <1>1, <1>3, <1>5, TerminateAny
  <1>7. Steps(t, tab', news) /\ tab' \in Tabs
    BY <1>6, MovesSteps DEF Moves
  <1>8. \A k \in Kinds : Raised(v, k) => PutsOne(t, tab', news, k)
    <2>1. tab'.deferred \in Seq(Ask) /\ <<a>> \in Seq(Ask)
      BY <1>2, <1>7 DEF Tabs
    <2>2. v.deferred = <<a>> \o tab'.deferred
      BY <1>7 DEF Tabs
    <2>3. /\ Len(v.deferred) = Len(tab'.deferred) + 1 /\ Len(tab'.deferred) \in Nat /\ Len(q) \in Nat
          /\ \A i \in 1..Len(tab'.deferred) : v.deferred[i + 1] = tab'.deferred[i]
      <3>1. Len(<<a>>) = 1
        OBVIOUS
      <3>2. /\ Len(v.deferred) = 1 + Len(tab'.deferred) /\ Len(tab'.deferred) \in Nat /\ Len(q) \in Nat
        BY <1>2, <2>1, <2>2, <3>1, ConcatProperties
      <3>3. \A i \in 1..Len(tab'.deferred) : v.deferred[i + 1] = tab'.deferred[i]
        BY <2>1, <2>2, <3>1
      <3> QED BY <3>2, <3>3
    <2> HIDE DEF v
    <2>4. ASSUME NEW k \in Kinds, Raised(v, k)
          PROVE  Len(tab'.deferred) > Len(t.deferred) /\ Last(tab'.deferred).kind = k
      <3>1. Len(tab'.deferred) > Len(q)
        BY <1>2, <2>3, <2>4 DEF Raised
      <3>2. Last(v.deferred) = Last(tab'.deferred)
        <4>1. Len(tab'.deferred) \in 1..Len(tab'.deferred)
          BY <2>3, <3>1
        <4> QED BY <2>3, <4>1 DEF Last
      <3> QED BY <1>5, <2>4, <3>1, <3>2 DEF Raised
    <2> QED BY <1>5, <1>7, <2>4, PutsLast
  <1>9. /\ Counted' /\ UsedAnswersForgotten' /\ seen' \in Histories
        /\ seen'.missed = seen.missed /\ seen'.crossed = seen.crossed
        /\ Over(news) => seen'.why = Last(news)
        /\ ~Over(news) => seen'.why = seen.why
    <2> HIDE DEF v
    <2> QED BY <1>1, <1>4, <1>5, <1>7, <1>8, DrainKeeps
  <1>10. prompts' \in Seq(Ask) /\ prompts' # <<>> /\ Range(prompts') = Range(prompts) \cup {a}
    BY <1>1, <1>2, <1>4, RangeAppend, AppendProperties DEF TypeOK
  <1>11. TypeOK'
    <2>1. Story(<<>>)
      BY DEF Story
    <2> QED BY <1>1, <1>4, <1>7, <1>9, <1>10, <2>1 DEF TypeOK
  <1>12. Channel'
    BY <1>4, <1>6, GoneChannel
  <1>13. Marked'
    <2>1. CASE t.handle
      BY <1>1, <1>5, <1>6, <1>9, <2>1, MarkedMoves
    <2>2. CASE ~t.handle
      <3>1. tab' = t /\ ~Over(news)
        BY <1>6, <2>2 DEF Over, Ended
      <3> QED BY <1>1, <1>5, <1>9, <3>1 DEF Marked, AtRest
    <2> QED BY <2>1, <2>2
  <1>14. Fresh'
    <2>1. tab.label # "new"
      BY <1>1, <1>2 DEF Fresh, Pending
    <2> QED BY <1>5, <1>6, <2>1 DEF Fresh, Goes
  <1>15. NeverStranded'
    BY <1>10 DEF NeverStranded
  <1>16. NeedsInputHonest'
    <2>1. Honest(t, Range(prompts'))
      BY <1>1, <1>2, <1>5, <1>10 DEF NeedsInputHonest, Honest
    <2>2. Honest(tab', Range(prompts'))
      BY <1>5, <1>7, <2>1, StaysHonest
    <2> QED BY <2>2 DEF NeedsInputHonest, Honest
  <1>17. Alone'
    <2> SUFFICES ASSUME ~seen.crossed PROVE Alone'
      BY <1>9 DEF Alone
    <2>1. /\ tab.redialing /\ tab.label # "closed" /\ news = <<>>
          /\ Len(tab.deferred) + Len(prompts) <= 1
          /\ tab.kept[a.kind] = seen.why \/ seen.missed
      BY <1>1, <1>2 DEF Alone, Pending
    <2>2. q = <<>> /\ prompts = <<>>
      <3>1. Len(q) \in Nat /\ Len(prompts) \in Nat /\ prompts \in Seq(Ask)
        BY <1>1, <1>2 DEF TypeOK
      <3>2. Len(q) = 0 /\ Len(prompts) = 0
        BY <1>2, <2>1, <3>1
      <3> QED BY <1>2, <3>1, <3>2, EmptySeq
    <2>3. ~Up(news) /\ ~Over(news)
      BY <2>1 DEF Up, Over, Ended, Range
    <2>4. Quiet(t, tab', news)
      BY <1>7, <2>3 DEF Steps, Asked
    <2>5. tab'.deferred = <<>> /\ tab'.redialing /\ tab'.kept = tab.kept
      BY <1>5, <2>1, <2>2, <2>3, <2>4 DEF Quiet
    <2>6. tab'.label # "closed"
      BY <1>5, <1>6, <2>1, <2>5 DEF Goes
    <2>7. prompts' = <<a>> /\ Len(prompts') = 1 /\ Len(tab'.deferred) = 0
      BY <1>4, <2>2, <2>5
    <2>8. Range(tab'.deferred) \cup Range(prompts') = {a}
      BY <2>5, <2>7 DEF Range
    <2>9. tab'.kept[a.kind] = seen'.why \/ seen'.missed
      BY <1>9, <2>1, <2>3, <2>5
    <2> QED BY <1>4, <1>6, <1>10, <2>5, <2>6, <2>7, <2>8, <2>9 DEF Alone, Pending
  <1> QED BY <1>9, <1>11, <1>12, <1>13, <1>14, <1>15, <1>16, <1>17 DEF TabInv

-----------------------------------------------------------------------------
(* Dials.                                                                   *)
LEMMA OpenKeeps ==
  ASSUME TabInv, OpenTab
  PROVE  TabInv'
  <1> DEFINE t == setOverlayMessage(tab, "dialing")
  <1>1. /\ TypeOK /\ Channel /\ Counted /\ Fresh /\ UsedAnswersForgotten /\ NeedsInputHonest
        /\ tab \in Tabs /\ seen \in Histories /\ prompts \in Seq(Ask)
    BY DEF TabInv, TypeOK
  <1>2. ~tab.handle /\ ~tab.redialing /\ tab.deferred = <<>> /\ prompts = <<>> /\ prompts' = prompts
    BY <1>1 DEF OpenTab, Fresh, Pending
  <1>3. /\ t \in Tabs /\ ~t.handle /\ ~t.redialing /\ t.state = tab.state /\ t.deferred = tab.deferred
        /\ t.prompted = tab.prompted /\ t.answers = tab.answers /\ t.needsInput = tab.needsInput
    BY <1>1, <1>2 DEF setOverlayMessage, Tabs, Notices
  <1>4. StartsDial(t, FALSE, seen, TRUE) \/ StartRefused(t, seen, TRUE)
    BY DEF OpenTab
  <1> HIDE DEF t
  <1>5. StartReady(t, seen)
    <2>1. t.state \in Down
      BY <1>1, <1>2, <1>3 DEF Channel, Down
    <2>2. Honest(t, Range(prompts'))
      BY <1>1, <1>2, <1>3 DEF NeedsInputHonest, Honest
    <2>3. t.answers \cap seen.used = {}
      BY <1>1, <1>3 DEF UsedAnswersForgotten
    <2> QED BY <1>1, <1>2, <1>3, <2>1, <2>2, <2>3 DEF StartReady, Counted
  <1>6. CASE StartsDial(t, FALSE, seen, TRUE)
    BY <1>1, <1>5, <1>6, DialStarts
  <1>7. CASE StartRefused(t, seen, TRUE)
    BY <1>1, <1>5, <1>7, RefusedStarts
  <1> QED BY <1>4, <1>6, <1>7

LEMMA Zeroed ==
  ASSUME NEW f \in [Kinds -> Nat], NEW g \in [Kinds -> Errors], NEW i, NEW j
  PROVE  /\ [f EXCEPT ![i] = 0, ![j] = 0] \in [Kinds -> Nat]
         /\ [g EXCEPT ![i] = None, ![j] = None] \in [Kinds -> Errors]
         /\ \A k \in Kinds : [f EXCEPT ![i] = 0, ![j] = 0][k] <= f[k]
  <1> DEFINE p == [f EXCEPT ![i] = 0, ![j] = 0]
  <1>1. p \in [Kinds -> Nat]
    OBVIOUS
  <1>2. [g EXCEPT ![i] = None, ![j] = None] \in [Kinds -> Errors]
    BY DEF Errors
  <1>3. \A k \in Kinds : p[k] = 0 \/ p[k] = f[k]
    OBVIOUS
  <1>4. \A k \in Kinds : p[k] <= f[k]
    <2> HIDE DEF p
    <2> QED BY <1>3
  <1> QED BY <1>1, <1>2, <1>4

LEMMA ReconnectKeeps ==
  ASSUME TabInv, Reconnect
  PROVE  TabInv'
  <1> DEFINE c == [Cleared(tab) EXCEPT !.redialing = TRUE]
  <1>1. /\ TypeOK /\ Channel /\ Counted /\ Fresh /\ UsedAnswersForgotten /\ NeedsInputHonest
        /\ tab \in Tabs /\ seen \in Histories /\ prompts \in Seq(Ask) /\ Story(news)
        /\ dialled.answers \in SUBSET Questions
    BY DEF TabInv, TypeOK
  <1>2. tab.label # "new" /\ prompts = <<>> /\ prompts' = prompts
    BY DEF Reconnect, CanReconnect
  <1>3. PICK alive \in Alive :
          LET over == Terminate(c, news, alive)
              t    == setOverlayMessage([over EXCEPT !.redialing = FALSE], "dialing")
              h    == [Observed(seen, over, dialled, news) EXCEPT
                         !.asked = Zero, !.crossed = tab.deferred # <<>>]
          IN  StartsDial(t, FALSE, h, TRUE) \/ StartRefused(t, h, FALSE)
    BY DEF Reconnect
  <1> DEFINE over == Terminate(c, news, alive)
             t    == setOverlayMessage([over EXCEPT !.redialing = FALSE], "dialing")
             o    == Observed(seen, over, dialled, news)
             h    == [o EXCEPT !.asked = Zero, !.crossed = tab.deferred # <<>>]
  <1>4. StartsDial(t, FALSE, h, TRUE) \/ StartRefused(t, h, FALSE)
    BY <1>3
  <1>5. /\ c \in Tabs /\ c.handle = tab.handle /\ c.state = tab.state /\ c.redialing
        /\ c.needsInput = tab.needsInput /\ c.answers = tab.answers /\ c.deferred = tab.deferred
        /\ c.label = tab.label /\ \A k \in Kinds : c.prompted[k] <= tab.prompted[k]
    <2> DEFINE p == [tab.prompted EXCEPT !["hostkey"] = 0, !["credential"] = 0]
               e == [tab.kept EXCEPT !["hostkey"] = None, !["credential"] = None]
    <2>0. tab.prompted \in [Kinds -> Nat] /\ tab.kept \in [Kinds -> Errors] /\ None \in Errors
      BY <1>1 DEF Tabs, Errors
    <2>1. /\ p \in [Kinds -> Nat] /\ e \in [Kinds -> Errors]
          /\ \A k \in Kinds : p[k] <= tab.prompted[k]
      BY <2>0, Zeroed
    <2>3. Cleared(tab) = [tab EXCEPT !.error = None, !.cancelled = FALSE, !.prompted = p, !.kept = e]
      BY <1>1 DEF Cleared, Tabs
    <2>2. c = [tab EXCEPT !.error = None, !.cancelled = FALSE, !.prompted = p, !.kept = e, !.redialing = TRUE]
      <3> HIDE DEF p, e
      <3> QED BY <1>1, <2>3 DEF Tabs
    <2> HIDE DEF p, e, c
    <2> QED BY <1>1, <2>1, <2>2 DEF Tabs, Errors
  <1> HIDE DEF c
  <1>6. Moves(c, over, news) /\ ~over.handle /\ over.state \in Down /\ over.label = tab.label
    <2>1. /\ Moves(c, over, news) /\ ~over.handle /\ over.state \in Down
          /\ (c.handle /\ Goes(c, over)) \/ (~c.handle /\ over = c /\ news = <<>> /\ lib = "none")
      BY <1>1, <1>5, TerminateAny
    <2>2. over.redialing
      BY <1>5, <2>1 DEF Moves, Quiet, Offered
    <2> QED BY <1>5, <2>1, <2>2 DEF Goes
  <1> HIDE DEF over
  <1>7. /\ over \in Tabs /\ Quiet(c, over, news) /\ over.answers \subseteq c.answers
        /\ (Up(news) => over.answers = {})
    BY <1>5, <1>6 DEF Moves, Offered
  <1>8. /\ t \in Tabs /\ ~t.handle /\ ~t.redialing /\ t.state = over.state /\ t.deferred = over.deferred
        /\ t.prompted = over.prompted /\ t.answers = over.answers /\ t.needsInput = over.needsInput
        /\ t.label = over.label
    BY <1>6, <1>7 DEF setOverlayMessage, Tabs, Notices
  <1>9. /\ o \in Histories /\ (Up(news) => o.used = seen.used \cup dialled.answers)
        /\ (~Up(news) => o.used = seen.used)
    BY <1>1, History
  <1> HIDE DEF t, o
  <1>10. /\ h \in Histories /\ h.used = o.used /\ h.asked = Zero /\ (h.crossed <=> tab.deferred # <<>>)
    <2> DEFINE b == tab.deferred # <<>>
    <2>1. b \in BOOLEAN /\ Zero \in [Kinds -> Nat]
      BY DEF Zero
    <2>2. h = [o EXCEPT !.asked = Zero, !.crossed = b]
      OBVIOUS
    <2> HIDE DEF b, h
    <2>3. h \in Histories /\ h.used = o.used /\ h.asked = Zero /\ h.crossed = b
      BY <1>9, <2>1, <2>2 DEF Histories
    <2> QED BY <2>3 DEF b
  <1> HIDE DEF h
  <1>11. StartReady(t, h)
    <2>1. t.deferred = tab.deferred /\ t.needsInput = tab.needsInput
      BY <1>5, <1>7, <1>8 DEF Quiet
    <2>2. Honest(t, Range(prompts'))
      BY <1>1, <1>2, <2>1 DEF NeedsInputHonest, Honest
    <2>3. t.answers \cap h.used = {}
      BY <1>1, <1>5, <1>7, <1>8, <1>9, <1>10 DEF UsedAnswersForgotten
    <2>4. ASSUME NEW k \in Kinds PROVE h.asked[k] <= t.prompted[k] /\ t.prompted[k] <= Limit[k]
      <3>1. /\ over.prompted[k] \in Nat /\ c.prompted[k] \in Nat /\ tab.prompted[k] \in Nat /\ Limit[k] \in Nat
            /\ h.asked[k] = 0
        BY <1>1, <1>5, <1>7, <1>10, LimitType DEF Tabs, Zero
      <3>2. over.prompted[k] <= c.prompted[k] /\ c.prompted[k] <= tab.prompted[k] /\ tab.prompted[k] <= Limit[k]
        BY <1>1, <1>5, <1>7 DEF Quiet, Counted
      <3> QED BY <1>8, <3>1, <3>2
    <2>5. prompts' = <<>> /\ prompts' \in Seq(Ask)
      BY <1>1, <1>2
    <2> QED BY <1>6, <1>8, <1>10, <2>1, <2>2, <2>3, <2>4, <2>5 DEF StartReady
  <1>12. CASE StartsDial(t, FALSE, h, TRUE)
    BY <1>1, <1>11, <1>12, DialStarts
  <1>13. CASE StartRefused(t, h, FALSE)
    <2>1. t.label # "new"
      BY <1>2, <1>6, <1>8
    <2> QED BY <1>1, <1>11, <1>13, <2>1, RefusedStarts
  <1> QED BY <1>4, <1>12, <1>13

LEMMA SplitLast ==
  ASSUME NEW T, NEW q \in Seq(T), q # <<>>
  PROVE  /\ Front(q) \in Seq(T) /\ Last(q) \in T /\ Len(q) = Len(Front(q)) + 1
         /\ Range(q) = Range(Front(q)) \cup {Last(q)}
         /\ Len(q) <= 1 => Front(q) = <<>>
  <1>1. Len(q) \in Nat /\ Len(q) # 0 /\ DOMAIN q = 1..Len(q)
    BY EmptySeq
  <1>2. /\ Front(q) \in Seq(T) /\ Len(Front(q)) = Len(q) - 1 /\ Last(q) = q[Len(q)]
        /\ \A i \in 1..(Len(q) - 1) : Front(q)[i] = q[i]
    BY <1>1 DEF Front, Last
  <1>3. DOMAIN Front(q) = 1..(Len(q) - 1)
    BY <1>1, <1>2
  <1>4. 1..Len(q) = (1..(Len(q) - 1)) \cup {Len(q)}
    BY <1>1
  <1>5. Range(q) = Range(Front(q)) \cup {Last(q)}
    <2> DEFINE f == Front(q)
               n == Len(q)
    <2> HIDE DEF f, n
    <2>1. /\ DOMAIN q = 1..n /\ DOMAIN f = 1..(n - 1) /\ 1..n = (1..(n - 1)) \cup {n}
          /\ \A i \in 1..(n - 1) : f[i] = q[i]
      BY <1>1, <1>2, <1>3, <1>4 DEF f, n
    <2>2. Range(q) = Range(f) \cup {q[n]}
      BY <2>1 DEF Range
    <2> QED BY <1>2, <2>2 DEF f, n
  <1>6. Len(q) <= 1 => Front(q) = <<>>
    <2> SUFFICES ASSUME Len(q) <= 1 PROVE Front(q) = <<>>
      OBVIOUS
    <2>1. Len(Front(q)) = 0
      BY <1>1, <1>2
    <2> QED BY <1>2, <2>1, EmptySeq
  <1>7. Last(q) \in T /\ Len(q) = Len(Front(q)) + 1
    BY <1>1, <1>2
  <1> QED BY <1>2, <1>5, <1>6, <1>7

(* The dial a person takes up again, or gives up.                           *)
LEMMA Popped ==
  ASSUME TabInv, NEW k, Asking(k), prompts' = Front(prompts)
  PROVE  /\ prompts' \in Seq(Ask) /\ Last(prompts) \in Ask /\ Last(prompts).kind = k
         /\ Range(prompts) = Range(prompts') \cup {Last(prompts)}
         /\ tab.label # "new"
         /\ ~seen.crossed => /\ ~tab.handle /\ tab.deferred = <<>> /\ prompts' = <<>>
                             /\ tab.label # "closed"
                             /\ tab.kept[k] = seen.why \/ seen.missed
  <1>1. prompts \in Seq(Ask) /\ prompts # <<>> /\ Last(prompts).kind = k /\ tab.deferred \in Seq(Ask)
    BY DEF TabInv, TypeOK, Asking, Tabs
  <1>2. /\ prompts' \in Seq(Ask) /\ Last(prompts) \in Ask /\ Len(prompts) = Len(prompts') + 1
        /\ Range(prompts) = Range(prompts') \cup {Last(prompts)}
        /\ Len(prompts) <= 1 => prompts' = <<>>
    BY <1>1, SplitLast
  <1>3. Pending
    BY <1>1 DEF Pending
  <1>4. ASSUME ~seen.crossed
        PROVE  /\ ~tab.handle /\ tab.deferred = <<>> /\ prompts' = <<>> /\ tab.label # "closed"
               /\ tab.kept[k] = seen.why \/ seen.missed
    <2>1. /\ ~tab.handle /\ tab.label # "closed" /\ Len(tab.deferred) + Len(prompts) <= 1
          /\ tab.kept[k] = seen.why \/ seen.missed
      BY <1>1, <1>2, <1>3, <1>4 DEF TabInv, Alone
    <2>2. Len(tab.deferred) \in Nat /\ Len(prompts') \in Nat
      BY <1>1, <1>2
    <2>3. Len(tab.deferred) = 0 /\ Len(prompts) <= 1
      <3>1. Len(prompts) = Len(prompts') + 1 /\ Len(tab.deferred) + Len(prompts) <= 1
        BY <1>2, <2>1
      <3> DEFINE m == Len(tab.deferred)
                 n == Len(prompts')
                 l == Len(prompts)
      <3>2. m \in Nat /\ n \in Nat /\ l = n + 1 /\ m + l <= 1
        BY <2>2, <3>1
      <3> HIDE DEF m, n, l
      <3>3. m = 0 /\ l <= 1
        BY <3>2
      <3> QED BY <3>3 DEF m, l
    <2>4. tab.deferred = <<>>
      BY <1>1, <2>3, EmptySeq
    <2> QED BY <1>2, <2>1, <2>3, <2>4
  <1> QED BY <1>1, <1>2, <1>3, <1>4 DEF TabInv, Fresh

LEMMA RetryKeeps ==
  ASSUME TabInv, NEW k, Asking(k), NEW t \in Tabs, NEW h \in Histories, NEW tofu \in BOOLEAN,
         Retries(t, tofu, h),
         ~t.redialing /\ t.handle = tab.handle /\ t.state = tab.state /\ t.deferred = tab.deferred
           /\ t.prompted = tab.prompted /\ t.label = tab.label,
         h.asked = seen.asked, h.crossed = seen.crossed, t.answers \cap h.used = {},
         t.needsInput => k = "hostkey" /\ tab.needsInput
  PROVE  TabInv'
  <1>1. TypeOK /\ Channel /\ Counted /\ NeedsInputHonest /\ tab \in Tabs
    BY DEF TabInv, TypeOK
  <1>2. prompts' = Front(prompts)
    BY DEF Retries
  <1>3. /\ prompts' \in Seq(Ask) /\ Last(prompts) \in Ask /\ Last(prompts).kind = k
        /\ Range(prompts) = Range(prompts') \cup {Last(prompts)}
        /\ tab.label # "new"
        /\ ~seen.crossed => /\ ~tab.handle /\ tab.deferred = <<>> /\ prompts' = <<>>
                            /\ tab.label # "closed"
    BY <1>2, Popped
  <1>4. StartReady(t, h)
    <2>1. Honest(t, Range(prompts'))
      BY <1>1, <1>3 DEF NeedsInputHonest, Honest
    <2>2. ~t.handle => t.state \in Down
      BY <1>1 DEF Channel, Down
    <2> QED BY <1>1, <1>3, <2>1, <2>2 DEF StartReady, Counted
  <1>5. CASE StartsDial(t, tofu, h, FALSE)
    BY <1>1, <1>3, <1>4, <1>5, DialStarts
  <1>6. CASE StartRefused(t, h, FALSE)
    BY <1>1, <1>3, <1>4, <1>6, RefusedStarts
  <1> QED BY <1>5, <1>6 DEF Retries

LEMMA AbandonKeeps ==
  ASSUME TabInv, NEW k \in Kinds, Asking(k), GivesUp(tab'),
         tab' \in Tabs, tab'.handle = tab.handle, tab'.state = tab.state, ~tab'.redialing,
         tab'.cancelled = tab.cancelled, tab'.prompted = tab.prompted, tab'.deferred = tab.deferred,
         tab'.answers \subseteq tab.answers, tab'.overlay = tab.kept[k], tab'.label = "closed",
         tab'.needsInput => k = "hostkey" /\ tab.needsInput
  PROVE  TabInv'
  <1>1. /\ TypeOK /\ Channel /\ Counted /\ Alone /\ UsedAnswersForgotten /\ NeedsInputHonest
        /\ tab \in Tabs
    BY DEF TabInv, TypeOK
  <1>2. prompts' = Front(prompts) /\ lib' = lib /\ news' = news /\ dialled' = dialled /\ seen' = seen
    BY DEF GivesUp
  <1>3. /\ prompts' \in Seq(Ask) /\ Last(prompts) \in Ask /\ Last(prompts).kind = k
        /\ Range(prompts) = Range(prompts') \cup {Last(prompts)}
        /\ ~seen.crossed => /\ ~tab.handle /\ tab.deferred = <<>> /\ prompts' = <<>>
                            /\ tab.kept[k] = seen.why \/ seen.missed
    BY <1>2, Popped
  <1>4. TypeOK'
    BY <1>1, <1>2, <1>3 DEF TypeOK
  <1>5. Channel'
    BY <1>1, <1>2 DEF Channel
  <1>6. Counted'
    BY <1>1, <1>2 DEF Counted
  <1>7. Alone'
    <2> SUFFICES ASSUME ~seen.crossed PROVE Alone'
      BY <1>2 DEF Alone
    <2>1. ~tab'.handle /\ tab'.deferred = <<>> /\ prompts' = <<>>
      BY <1>3
    <2>2. Range(tab'.deferred) = {} /\ Range(prompts') = {} /\ Len(tab'.deferred) + Len(prompts') = 0
      BY <2>1 DEF Range
    <2> QED BY <2>1, <2>2 DEF Alone, Pending
  <1>8. Fresh'
    BY DEF Fresh
  <1>9. Marked'
    <2>1. tab.kept[k] \notin {"dialing", "asking"}
      <3>1. tab.kept[k] \in Errors
        BY <1>1 DEF Tabs
      <3> QED BY <3>1, TabAssumption DEF TabAssumption, Errors, Failures, Notices, None
    <2> QED BY <1>2, <1>3, <2>1 DEF Marked, AtRest
  <1>10. NeverStranded'
    BY DEF NeverStranded
  <1>11. UsedAnswersForgotten'
    BY <1>1, <1>2 DEF UsedAnswersForgotten
  <1>12. NeedsInputHonest'
    BY <1>1, <1>3 DEF NeedsInputHonest
  <1> QED BY <1>4, <1>5, <1>6, <1>7, <1>8, <1>9, <1>10, <1>11, <1>12 DEF TabInv

LEMMA AnswerKeeps ==
  ASSUME TabInv, Answers
  PROVE  TabInv'
  <1>1. tab \in Tabs /\ seen \in Histories /\ prompts \in Seq(Ask) /\ tab.answers \cap seen.used = {}
    BY DEF TabInv, TypeOK, UsedAnswersForgotten
  <1>2. LET r == Resumed(tab)
        IN  /\ r \in Tabs /\ ~r.redialing /\ ~r.needsInput /\ r.handle = tab.handle /\ r.state = tab.state
            /\ r.deferred = tab.deferred /\ r.prompted = tab.prompted /\ r.label = tab.label
            /\ r.answers = tab.answers
    BY <1>1 DEF Resumed, setOverlayMessage, setNeedsInput, Tabs, Errors, Notices
  <1>3. CASE AcceptHostKey
    <2> DEFINE t == [Resumed(tab) EXCEPT !.needsInput = tab.needsInput]
    <2>1. /\ t \in Tabs /\ ~t.redialing /\ t.needsInput = tab.needsInput /\ t.handle = tab.handle
          /\ t.state = tab.state /\ t.deferred = tab.deferred /\ t.prompted = tab.prompted
          /\ t.label = tab.label /\ t.answers = tab.answers
      BY <1>1, <1>2 DEF Tabs
    <2>2. Asking("hostkey") /\ Retries(t, TRUE, seen)
      BY <1>3 DEF AcceptHostKey
    <2> HIDE DEF t
    <2> QED BY <1>1, <2>1, <2>2, RetryKeeps
  <1>4. CASE RetryWithKeyboardAnswer
    <2> DEFINE t == [Resumed(tab) EXCEPT !.answers = @ \cup {Question}]
               h == [seen EXCEPT !.used = @ \ {Question}]
    <2>0. Question \in Questions
      <3>1. Last(prompts) \in Ask /\ Last(prompts).kind = "keyboard"
        BY <1>1, <1>4, SplitLast DEF RetryWithKeyboardAnswer, Asking
      <3> QED BY <3>1 DEF Ask, Put, Question
    <2>1. /\ t \in Tabs /\ ~t.redialing /\ ~t.needsInput /\ t.handle = tab.handle
          /\ t.state = tab.state /\ t.deferred = tab.deferred /\ t.prompted = tab.prompted
          /\ t.label = tab.label /\ t.answers = tab.answers \cup {Question}
      BY <1>1, <1>2, <2>0 DEF Tabs
    <2>2. /\ h \in Histories /\ h.asked = seen.asked /\ h.crossed = seen.crossed
          /\ h.used = seen.used \ {Question}
      BY <1>1 DEF Histories
    <2>3. Asking("keyboard") /\ Retries(t, FALSE, h)
      BY <1>4 DEF RetryWithKeyboardAnswer
    <2> HIDE DEF t, h
    <2>4. t.answers \cap h.used = {}
      BY <1>1, <2>1, <2>2
    <2> QED BY <1>1, <2>1, <2>2, <2>3, <2>4, RetryKeeps
  <1>5. CASE RetryWithCredentials
    <2>1. Asking("credential") /\ Retries(Resumed(tab), FALSE, seen)
      BY <1>5 DEF RetryWithCredentials
    <2> QED BY <1>1, <1>2, <2>1, RetryKeeps
  <1>6. ASSUME NEW k \in Kinds
        PROVE  LET a == Abandoned(tab, k)
               IN  /\ a \in Tabs /\ a.handle = tab.handle /\ a.state = tab.state /\ ~a.redialing
                   /\ a.cancelled = tab.cancelled /\ a.prompted = tab.prompted /\ a.deferred = tab.deferred
                   /\ a.answers = tab.answers /\ a.overlay = tab.kept[k] /\ a.label = "closed"
                   /\ a.needsInput => k = "hostkey" /\ tab.needsInput
    <2> DEFINE n == k = "hostkey" /\ tab.needsInput
               e == tab.kept[k]
               a == Abandoned(tab, k)
    <2>1. n \in BOOLEAN /\ e \in Errors
      BY <1>1 DEF Tabs
    <2>2. a = [tab EXCEPT !.error = e, !.overlay = e, !.needsInput = n, !.redialing = FALSE, !.label = "closed"]
      BY <1>1 DEF Abandoned, setOverlayMessage, setNeedsInput, Tabs
    <2> HIDE DEF n, e, a
    <2>3. /\ a \in Tabs /\ a.handle = tab.handle /\ a.state = tab.state /\ ~a.redialing
          /\ a.cancelled = tab.cancelled /\ a.prompted = tab.prompted /\ a.deferred = tab.deferred
          /\ a.answers = tab.answers /\ a.overlay = e /\ a.label = "closed" /\ a.needsInput = n
      BY <1>1, <2>1, <2>2 DEF Tabs
    <2> QED BY <2>3 DEF n, e, a
  <1>7. "hostkey" \in Kinds /\ "keyboard" \in Kinds /\ "credential" \in Kinds
    BY DEF Kinds
  <1>8. CASE RejectHostKey
    <2>1. Asking("hostkey") /\ tab' = Abandoned(tab, "hostkey") /\ GivesUp(tab')
      BY <1>8 DEF RejectHostKey, GivesUp
    <2> QED BY <1>6, <1>7, <2>1, AbandonKeeps
  <1>9. CASE AbandonCredentialRetry
    <2>1. Asking("credential") /\ tab' = Abandoned(tab, "credential") /\ GivesUp(tab')
      BY <1>9 DEF AbandonCredentialRetry, GivesUp
    <2> QED BY <1>6, <1>7, <2>1, AbandonKeeps
  <1>10. CASE AbandonKeyboardRetry
    <2> DEFINE a == Abandoned(tab, "keyboard")
    <2>1. /\ Asking("keyboard") /\ GivesUp(tab')
          /\ tab' = [a EXCEPT !.answers = {}, !.lastQuestion = None]
      BY <1>10 DEF AbandonKeyboardRetry, GivesUp
    <2>2. /\ a \in Tabs /\ a.handle = tab.handle /\ a.state = tab.state /\ ~a.redialing
          /\ a.cancelled = tab.cancelled /\ a.prompted = tab.prompted /\ a.deferred = tab.deferred
          /\ a.answers = tab.answers /\ a.overlay = tab.kept["keyboard"] /\ a.label = "closed"
          /\ ~a.needsInput
      BY <1>6, <1>7
    <2> HIDE DEF a
    <2>3. /\ tab' \in Tabs /\ tab'.handle = tab.handle /\ tab'.state = tab.state /\ ~tab'.redialing
          /\ tab'.cancelled = tab.cancelled /\ tab'.prompted = tab.prompted /\ tab'.deferred = tab.deferred
          /\ tab'.answers = {} /\ tab'.overlay = tab.kept["keyboard"] /\ tab'.label = "closed"
          /\ ~tab'.needsInput
      BY <2>1, <2>2 DEF Tabs
    <2> QED BY <1>7, <2>1, <2>3, AbandonKeeps
  <1> QED BY <1>3, <1>4, <1>5, <1>8, <1>9, <1>10 DEF Answers

-----------------------------------------------------------------------------
LEMMA TabInitially == ASSUME Init PROVE TabInv
  <1> DEFINE n == [k \in Kinds |-> None]
  <1>1. Zero \in [Kinds -> Nat] /\ n \in [Kinds -> Errors] /\ <<>> \in Seq(Ask)
    BY DEF Zero, Errors
  <1>2. tab = [handle |-> FALSE, state |-> "disconnected", error |-> None,
               redialing |-> FALSE, cancelled |-> FALSE, needsInput |-> FALSE,
               prompted |-> Zero, kept |-> n, lastQuestion |-> None,
               answers |-> {}, deferred |-> <<>>, overlay |-> "hidden", label |-> "new"]
    BY DEF Init
  <1>3. /\ seen = [asked |-> Zero, used |-> {}, why |-> None, missed |-> FALSE, crossed |-> FALSE]
        /\ dialled = [tofu |-> FALSE, answers |-> {}]
        /\ lib = "none" /\ news = <<>> /\ prompts = <<>>
    BY DEF Init
  <1> HIDE DEF n
  <1>4. /\ tab \in Tabs /\ ~tab.handle /\ tab.state = "disconnected" /\ ~tab.redialing /\ ~tab.needsInput
        /\ tab.prompted = Zero /\ tab.answers = {} /\ tab.deferred = <<>> /\ tab.overlay = "hidden"
        /\ tab.label = "new"
    BY <1>1, <1>2 DEF Tabs, Errors, States, Notices
  <1>5. seen \in Histories /\ seen.asked = Zero /\ seen.used = {} /\ ~seen.crossed
    BY <1>1, <1>3 DEF Histories
  <1>6. Story(<<>>) /\ "connected" \notin Range(<<>>) /\ ~Ended(<<>>) /\ Len(<<>>) = 0 /\ Range(<<>>) = {}
    BY DEF Story, Range, Ended
  <1>7. TypeOK
    BY <1>1, <1>3, <1>4, <1>5, <1>6 DEF TypeOK
  <1>8. Channel
    BY <1>3, <1>4, <1>6 DEF Channel
  <1>9. Counted
    <2>1. \A k \in Kinds : Zero[k] = 0 /\ Limit[k] \in Nat
      BY LimitType DEF Zero
    <2> QED BY <1>4, <1>5, <2>1 DEF Counted
  <1>10. Alone /\ Fresh
    BY <1>3, <1>4, <1>6 DEF Alone, Fresh, Pending
  <1>11. Marked
    BY <1>4 DEF Marked, AtRest
  <1>12. NeverStranded /\ UsedAnswersForgotten /\ NeedsInputHonest
    BY <1>4, <1>5 DEF NeverStranded, UsedAnswersForgotten, NeedsInputHonest
  <1> QED BY <1>7, <1>8, <1>9, <1>10, <1>11, <1>12 DEF TabInv

LEMMA TabStep == ASSUME TabInv, [Next]_vars PROVE TabInv'
  <1>1. CASE DialEnds \/ HangsUp
    BY <1>1, LibrarySteps
  <1>2. CASE NotifierDrains
    BY <1>2, NotifierKeeps
  <1>3. CASE DeferredPrompt
    BY <1>3, PromptKeeps
  <1>4. CASE OpenTab
    BY <1>4, OpenKeeps
  <1>5. CASE Reconnect
    BY <1>5, ReconnectKeeps
  <1>6. CASE CancelConnect
    BY <1>6, CancelKeeps
  <1>7. CASE Answers
    BY <1>7, AnswerKeeps
  <1>8. CASE UNCHANGED vars
    <2>1. tab' = tab /\ lib' = lib /\ news' = news /\ dialled' = dialled /\ prompts' = prompts /\ seen' = seen
      BY <1>8 DEF vars
    <2>2. TypeOK' /\ Channel' /\ Counted'
      BY <2>1 DEF TabInv, TypeOK, Channel, Counted
    <2>3. Alone' /\ Fresh' /\ Marked'
      BY <2>1 DEF TabInv, Alone, Fresh, Pending, Marked, AtRest
    <2>4. NeverStranded' /\ UsedAnswersForgotten' /\ NeedsInputHonest'
      BY <2>1 DEF TabInv, NeverStranded, UsedAnswersForgotten, NeedsInputHonest
    <2> QED BY <2>2, <2>3, <2>4 DEF TabInv
  <1> QED BY <1>1, <1>2, <1>3, <1>4, <1>5, <1>6, <1>7, <1>8 DEF Next

LEMMA TabHolds == Spec => []TabInv
  <1>1. Init => TabInv
    BY TabInitially
  <1>2. TabInv /\ [Next]_vars => TabInv'
    BY TabStep
  <1> QED BY <1>1, <1>2, PTL DEF Spec

(* The fields of a tab keep their types, and what the library has recorded  *)
(* is always the story of one dial.                                        *)
THEOREM TabTypes == Spec => []TypeOK
  <1>1. TabInv => TypeOK
    BY DEF TabInv
  <1> QED BY <1>1, TabHolds, PTL

(* A tab that hides its own end has a question on its way to a person:      *)
(* whatever is drained, crossed, refused or abandoned, none is left         *)
(* spinning (onStateChanged, the offers and the retries).                   *)
THEOREM TabNeverStranded == Spec => []NeverStranded
  <1>1. TabInv => NeverStranded
    BY DEF TabInv
  <1> QED BY <1>1, TabHolds, PTL

(* The counters bound the re-dialling: since a person last dialled or got   *)
(* in, no kind of question was put more often than its limit (the offers).  *)
THEOREM TabPromptsBounded == Spec => []PromptsBounded
  <1>1. TabInv => PromptsBounded
    <2> SUFFICES ASSUME TabInv, NEW k \in Kinds PROVE seen.asked[k] <= Limit[k]
      BY DEF PromptsBounded
    <2>1. seen.asked[k] \in Nat /\ tab.prompted[k] \in Nat /\ Limit[k] \in Nat
      BY LimitType DEF TabInv, TypeOK, Tabs, Histories
    <2>2. seen.asked[k] <= tab.prompted[k] /\ tab.prompted[k] <= Limit[k]
      BY DEF TabInv, Counted
    <2> QED BY <2>1, <2>2
  <1> QED BY <1>1, TabHolds, PTL

(* An answer that got in is not held for a later dial, a one-time code      *)
(* above all (onStateChanged, retryWithKeyboardAnswer).                     *)
THEOREM TabUsedAnswersForgotten == Spec => []UsedAnswersForgotten
  <1>1. TabInv => UsedAnswersForgotten
    BY DEF TabInv
  <1> QED BY <1>1, TabHolds, PTL

(* What a person reads of a tab is true: never "(closed)" over a session    *)
(* that runs, never an overlay that waits for nothing, the reason of the    *)
(* dial that failed last, and "needs input" only with a question behind it. *)
THEOREM TabTellsTheTruth == Spec => []TellsTheTruth
  <1>1. TabInv => TellsTheTruth
    <2> SUFFICES ASSUME TabInv PROVE TellsTheTruth
      OBVIOUS
    <2>1. LabelHonest
      BY DEF TabInv, Alone, LabelHonest
    <2>2. NeedsInputHonest
      BY DEF TabInv
    <2>3. Idle /\ ~seen.missed => AtRest
      <3> SUFFICES ASSUME Idle, ~seen.missed PROVE AtRest
        OBVIOUS
      <3>1. tab.state \in {"failed", "disconnected"}
        BY DEF Idle, TabInv, Channel
      <3>2. ~tab.redialing
        BY DEF Idle, TabInv, NeverStranded, TypeOK, Tabs
      <3> QED BY <3>1, <3>2 DEF AtRest
    <2>4. DeadTabIsMarked
      BY <2>3 DEF TabInv, Marked, DeadTabIsMarked, Idle
    <2>5. ReasonOnScreen
      BY <2>3 DEF TabInv, Marked, ReasonOnScreen, Idle
    <2> QED BY <2>1, <2>2, <2>4, <2>5 DEF TellsTheTruth
  <1> QED BY <1>1, TabHolds, PTL
===============================================================================
