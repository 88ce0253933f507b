------------------------- MODULE SessionHandle_proofs -------------------------
(***************************************************************************)
(* Theorems of SessionHandle and of QtSession, for every value of their    *)
(* constants.  First the handle alone: the types, the invariant of its     *)
(* locks and phases (HandleInv), of its story (StoryInv) and of what it    *)
(* must not forget (ForgetInv).  Then the handle under the Qt object: its  *)
(* invariants are kept by the object's calls, the object adds its own      *)
(* (QtInv), and the steps of both are steps of SessionPromise.             *)
(***************************************************************************)
EXTENDS QtSession, TLAPS

USE HandleAssumption DEF HandleAssumption, Threads

(* The variables keep their types, and the event queue its capacity,       *)
(* whatever the threads of a handle do (capi, transport, sshcore).         *)
LEMMA InitType == Init => TypeOK
  <1> SUFFICES ASSUME Init PROVE TypeOK
    OBVIOUS
  <1>1. events \in Seq(Events) /\ Len(events) <= MaxQueuedEvents
    <2>1. <<>> \in Seq(Events) /\ Len(<<>>) = 0
      OBVIOUS
    <2>2. <<"connecting">> \in Seq(Events) /\ Len(<<"connecting">>) = 1
      BY DEF Events, States
    <2>3. events = <<>> \/ events = <<"connecting">>
      BY Zenon DEF Init
    <2>4. 0 <= MaxQueuedEvents /\ 1 <= MaxQueuedEvents
      OBVIOUS
    <2>5. CASE events = <<>>
      BY <2>1, <2>4, <2>5
    <2>6. CASE events = <<"connecting">>
      BY <2>2, <2>4, <2>6
    <2> QED BY <2>3, <2>5, <2>6
  <1>2. pc \in [Threads -> Labels] /\ poke \in [Threads -> {"no", "want", "held"}]
    BY DEF Init, Labels
  <1>3. buf \in Seq(Nat)
    BY DEF Init
  <1>4. fin \in [by : Threads \cup {"none"}, failed : BOOLEAN,
                 step : {"none", "error", "state", "emit", "close"}]
    BY DEF Init, NoFinish
  <1>5. kind \in {"ssh", "telnet", "serial"} /\ state \in States
    BY DEF Init, States
  <1> QED BY <1>1, <1>2, <1>3, <1>4, <1>5 DEF Init, TypeOK, States, Errors

LEMMA QueueType ==
  ASSUME NEW q \in Seq(Events), Len(q) <= MaxQueuedEvents, NEW ev \in Events
  PROVE  /\ QueueLocked(q, ev) \in Seq(Events)
         /\ Len(QueueLocked(q, ev)) <= MaxQueuedEvents
  BY DEF QueueLocked

(* Recording an event, on either path, keeps what it touches typed.        *)
Recorded == /\ state' \in States /\ ended' \in BOOLEAN /\ err' \in Errors \cup {"none"}
            /\ events' \in Seq(Events) /\ Len(events') <= MaxQueuedEvents
            /\ poke' \in [Threads -> {"no", "want", "held"}]

LEMMA OnEventType ==
  ASSUME TypeOK, NEW t, NEW ev \in Events, OnEvent(t, ev)
  PROVE  Recorded
  <1>1. CASE closed \/ state = ev
    BY <1>1 DEF Recorded, OnEvent, TypeOK
  <1>2. CASE ~(closed \/ state = ev)
    <2>1. events' \in Seq(Events) /\ Len(events') <= MaxQueuedEvents
      BY <1>2, QueueType DEF OnEvent, TypeOK
    <2>2. state' \in States /\ err' \in Errors \cup {"none"}
      BY <1>2 DEF OnEvent, TypeOK, Events
    <2>3. ended' \in BOOLEAN
      BY <1>2 DEF OnEvent, TypeOK
    <2>4. poke' \in [Threads -> {"no", "want", "held"}]
      BY <1>2 DEF OnEvent, TypeOK
    <2> QED BY <2>1, <2>2, <2>3, <2>4 DEF Recorded
  <1> QED BY <1>1, <1>2

LEMMA PublishType ==
  ASSUME TypeOK, NEW t, NEW s \in States, Publish(t, s), UNCHANGED <<ended, err>>
  PROVE  Recorded
  <1>1. CASE closed \/ ended \/ state = s
    BY <1>1 DEF Recorded, Publish, TypeOK
  <1>2. CASE ~(closed \/ ended \/ state = s)
    <2>1. events' \in Seq(Events) /\ Len(events') <= MaxQueuedEvents
      BY <1>2, QueueType DEF Publish, TypeOK, Events
    <2>2. poke' \in [Threads -> {"no", "want", "held"}]
      BY <1>2 DEF Publish, TypeOK
    <2> QED BY <1>2, <2>1, <2>2 DEF Publish, Recorded, TypeOK
  <1> QED BY <1>1, <1>2

LEMMA WakingType == TypeOK /\ Waking => TypeOK'
  <1> SUFFICES ASSUME TypeOK, Waking PROVE TypeOK'
    OBVIOUS
  <1> USE DEF TypeOK, handleVars, bufVars, baseVars, logVars, linkVars, farVars,
              callVars, localVars, wakeVars
  <1>1. ASSUME NEW t \in Threads, PokeLock(t) PROVE TypeOK'
    BY <1>1 DEF PokeLock
  <1>2. ASSUME NEW t \in Threads, PokeWake(t) PROVE TypeOK'
    BY <1>2 DEF PokeWake
  <1>3. CASE NotifyLock
    BY <1>3 DEF NotifyLock
  <1>4. CASE NotifyWake
    BY <1>4 DEF NotifyWake
  <1> QED BY <1>1, <1>2, <1>3, <1>4 DEF Waking

LEMMA FinishingType == TypeOK /\ Finishing => TypeOK'
  <1> SUFFICES ASSUME TypeOK, Finishing PROVE TypeOK'
    OBVIOUS
  <1> USE DEF TypeOK, handleVars, bufVars, baseVars, logVars, linkVars, farVars,
              callVars, localVars, wakeVars
  <1>1. ASSUME NEW t \in Threads, BeginFinish(t) PROVE TypeOK'
    BY <1>1 DEF BeginFinish
  <1>2. ASSUME NEW t \in Threads, FinishReturns(t) PROVE TypeOK'
    BY <1>2 DEF FinishReturns, Goto, AfterFinish, Labels
  <1>3. CASE FinishError
    <2>1. Recorded
      BY <1>3, OnEventType DEF FinishError, Events, Errors
    <2>2. fin' \in [by : Threads \cup {"none"}, failed : BOOLEAN,
                   step : {"none", "error", "state", "emit", "close"}]
      BY <1>3 DEF FinishError
    <2> QED BY <2>1, <2>2, <1>3 DEF FinishError, Recorded
  <1>4. CASE FinishState
    <2>1. sessState' \in States
      BY <1>4 DEF FinishState, Verdict, States
    <2>2. fin' \in [by : Threads \cup {"none"}, failed : BOOLEAN,
                   step : {"none", "error", "state", "emit", "close"}]
      BY <1>4 DEF FinishState
    <2> QED BY <2>1, <2>2, <1>4 DEF FinishState
  <1>5. CASE FinishEmit
    <2>1. Recorded
      BY <1>5, OnEventType DEF FinishEmit, Verdict, Events, States
    <2>2. fin' \in [by : Threads \cup {"none"}, failed : BOOLEAN,
                   step : {"none", "error", "state", "emit", "close"}]
      BY <1>5 DEF FinishEmit
    <2> QED BY <2>1, <2>2, <1>5 DEF FinishEmit, Recorded
  <1>6. CASE FinishClose
    <2>1. fin' \in [by : Threads \cup {"none"}, failed : BOOLEAN,
                   step : {"none", "error", "state", "emit", "close"}]
      BY <1>6 DEF FinishClose, NoFinish
    <2>2. logOpen' \in BOOLEAN /\ logged' \subseteq Nat
      BY <1>6 DEF FinishClose
    <2> QED BY <2>1, <2>2, <1>6 DEF FinishClose
  <1> QED BY <1>1, <1>2, <1>3, <1>4, <1>5, <1>6 DEF Finishing

LEMMA ShutType ==
  ASSUME TypeOK, NEW t \in {"dial", "caller"}, MarkClosing(t) \/ CloseLink(t)
  PROVE  TypeOK'
  <1> USE DEF TypeOK, handleVars, bufVars, baseVars, logVars, linkVars, farVars,
              callVars, localVars, wakeVars
  <1>1. CASE MarkClosing(t)
    <2>1. pc' \in [Threads -> Labels]
      BY <1>1 DEF MarkClosing, Goto, Labels
    <2>2. built' \in BOOLEAN /\ handler' \in BOOLEAN /\ closing' \in BOOLEAN
      BY <1>1 DEF MarkClosing
    <2> QED BY <2>1, <2>2, <1>1 DEF MarkClosing
  <1>2. CASE CloseLink(t)
    <2>1. pc' \in [Threads -> Labels]
      BY <1>2 DEF CloseLink, Goto, Labels
    <2>2. backendEnd' \in {"open", "nil", "eof", "error"} /\ linkUp' \in BOOLEAN
      BY <1>2 DEF CloseLink
    <2> QED BY <2>1, <2>2, <1>2 DEF CloseLink
  <1> QED BY <1>1, <1>2

LEMMA AdoptPlaces ==
  ASSUME pc \in [Threads -> Labels], Adopt
  PROVE  pc' \in [Threads -> Labels]
  <1>1. {"mark", "pending", "read"} \subseteq Labels
    BY DEF Labels
  <1>2. \/ pc' = [pc EXCEPT !["dial"] = "mark"]
        \/ pc' = [pc EXCEPT !["dial"] = "pending", !["pump"] = "read"]
    BY DEF Adopt, Goto
  <1> QED BY <1>1, <1>2

LEMMA DialingType == TypeOK /\ Dialing => TypeOK'
  <1> SUFFICES ASSUME TypeOK, Dialing PROVE TypeOK'
    OBVIOUS
  <1> USE DEF TypeOK, handleVars, bufVars, baseVars, logVars, linkVars, farVars,
              callVars, localVars, wakeVars
  <1>1. CASE DialAuthenticating
    BY PublishType, <1>1 DEF DialAuthenticating, Goto, States, Labels, Recorded
  <1>2. CASE DialFails
    <2>1. pc' \in [Threads -> Labels]
      BY <1>2 DEF DialFails, Goto, Labels
    <2>2. logOpen' \in BOOLEAN /\ logged' \subseteq Nat
      BY <1>2 DEF DialFails
    <2> QED BY <2>1, <2>2, <1>2 DEF DialFails
  <1>3. CASE FailDial
    <2>1. pc' \in [Threads -> Labels]
      BY <1>3 DEF FailDial, Goto, Labels
    <2>2. events' \in Seq(Events) /\ Len(events') <= MaxQueuedEvents
      BY <1>3, QueueType DEF FailDial, Events, Errors, States
    <2>3. /\ state' \in States /\ err' \in Errors \cup {"none"}
         /\ ended' \in BOOLEAN /\ dialFailed' \in BOOLEAN
      BY <1>3 DEF FailDial, Errors, States
    <2>4. poke' \in [Threads -> {"no", "want", "held"}]
      BY <1>3 DEF FailDial
    <2> QED BY <2>1, <2>2, <2>3, <2>4, <1>3 DEF FailDial
  <1>4. CASE DialConnects
    BY <1>4 DEF DialConnects, Labels
  <1>5. CASE Adopt
    <2>1. pc' \in [Threads -> Labels]
      BY <1>5, AdoptPlaces
    <2>2. filed' \in BOOLEAN /\ handler' \in BOOLEAN
      BY <1>5 DEF Adopt
    <2> QED BY <2>1, <2>2, <1>5 DEF Adopt
  <1>6. CASE ApplyPending
    BY <1>6 DEF ApplyPending, FarSizeAfter, Goto, Labels
  <1>7. CASE ReadState
    BY <1>7 DEF ReadState, Goto, Labels
  <1>8. CASE PublishSeen
    BY PublishType, <1>8 DEF PublishSeen, Goto, Labels, Recorded
  <1>9. CASE MarkClosing("dial") \/ CloseLink("dial")
    BY ShutType, <1>9 DEF Labels
  <1> QED BY <1>1, <1>2, <1>3, <1>4, <1>5, <1>6, <1>7, <1>8, <1>9 DEF Dialing

LEMMA PumpingType == TypeOK /\ Pumping => TypeOK'
  <1> SUFFICES ASSUME TypeOK, Pumping PROVE TypeOK'
    OBVIOUS
  <1> USE DEF TypeOK, handleVars, bufVars, baseVars, logVars, linkVars, farVars,
              callVars, localVars, wakeVars
  <1>1. CASE PumpRead
    BY <1>1 DEF PumpRead, ReadReturns, Goto, Labels
  <1>2. CASE PumpTap
    BY <1>2 DEF PumpTap, Goto, Labels
  <1>3. CASE PumpAppend
    <2>1. pc' \in [Threads -> Labels]
      BY <1>3 DEF PumpAppend, Goto, Labels
    <2>2. Append(buf, chunk) \in Seq(Nat)
      OBVIOUS
    <2>3. buf' = buf \/ buf' = Append(buf, chunk)
      BY <1>3 DEF PumpAppend
    <2>4. buf' \in Seq(Nat)
      BY <2>2, <2>3
    <2>5. wake' \in {"no", "want", "held"}
      BY <1>3 DEF PumpAppend
    <2> QED BY <2>1, <2>4, <2>5, <1>3 DEF PumpAppend
  <1>4. CASE PumpEof
    BY <1>4 DEF PumpEof, Goto, Labels
  <1>5. CASE PumpCheck
    BY <1>5 DEF PumpCheck, Goto, Labels
  <1>6. CASE PumpReap
    BY <1>6 DEF PumpReap, Goto, Labels
  <1> QED BY <1>1, <1>2, <1>3, <1>4, <1>5, <1>6 DEF Pumping

LEMMA FarEndType == TypeOK /\ (FarEnd \/ Bridge) => TypeOK'
  <1> SUFFICES ASSUME TypeOK, (FarEnd \/ Bridge) PROVE TypeOK'
    OBVIOUS
  <1> USE DEF TypeOK, handleVars, bufVars, baseVars, logVars, linkVars, farVars,
              callVars, localVars, wakeVars
  <1>1. CASE FarSends
    BY <1>1 DEF FarSends
  <1>2. CASE FarEnds
    BY <1>2 DEF FarEnds
  <1>3. CASE FarExits
    BY <1>3 DEF FarExits
  <1>4. CASE Bridge
    BY <1>4 DEF Bridge, Goto, Labels
  <1> QED BY <1>1, <1>2, <1>3, <1>4 DEF FarEnd

LEMMA CallingType == TypeOK /\ Calling => TypeOK'
  <1> SUFFICES ASSUME TypeOK, Calling PROVE TypeOK'
    OBVIOUS
  <1> USE DEF TypeOK, handleVars, bufVars, baseVars, logVars, linkVars, farVars,
              callVars, localVars, wakeVars
  <1>1. CASE NextEvent
    BY <1>1 DEF NextEvent
  <1>2. CASE \E n \in 1..MaxChunks : Read(n)
    BY <1>2 DEF Read, CallerIdle
  <1>3. CASE Resize
    BY <1>3 DEF Resize, FarSizeAfter
  <1>4. CASE WriteFails
    BY <1>4 DEF WriteFails, Goto, Labels
  <1>5. CASE EmitWriteError
    BY OnEventType, <1>5 DEF EmitWriteError, Goto, Errors, Events, Labels, Recorded
  <1>6. CASE Close
    BY <1>6 DEF Close, Goto, Labels
  <1> QED BY <1>1, <1>2, <1>3, <1>4, <1>5, <1>6 DEF Calling

LEMMA ClosingType == TypeOK /\ Closing => TypeOK'
  <1> SUFFICES ASSUME TypeOK, Closing PROVE TypeOK'
    OBVIOUS
  <1> USE DEF TypeOK, handleVars, bufVars, baseVars, logVars, linkVars, farVars,
              callVars, localVars, wakeVars
  <1>1. CASE CloseHandler
    <2>1. pc' \in [Threads -> Labels]
      BY <1>1 DEF CloseHandler, Goto, Labels
    <2>2. built' \in BOOLEAN /\ handler' \in BOOLEAN /\ closing' \in BOOLEAN
      BY <1>1 DEF CloseHandler
    <2> QED BY <2>1, <2>2, <1>1 DEF CloseHandler
  <1>2. CASE CloseBuffer
    BY <1>2 DEF CloseBuffer, Goto, Labels
  <1>3. CASE CloseNotifier
    <2>1. pc' \in [Threads -> Labels]
      BY <1>3 DEF CloseNotifier, Goto, Labels
    <2>2. readable' \in BOOLEAN /\ notifyGone' \in BOOLEAN
      BY <1>3 DEF CloseNotifier
    <2>3. poke' \in [Threads -> {"no", "want", "held"}]
      BY <1>3 DEF CloseNotifier
    <2> QED BY <2>1, <2>2, <2>3, <1>3 DEF CloseNotifier
  <1>4. CASE MarkClosing("caller") \/ CloseLink("caller")
    BY ShutType, <1>4 DEF Labels
  <1> QED BY <1>1, <1>2, <1>3, <1>4 DEF Closing

LEMMA NextType == TypeOK /\ [Next]_vars => TypeOK'
  <1>1. TypeOK /\ UNCHANGED vars => TypeOK'
    BY DEF TypeOK, vars, handleVars, bufVars, baseVars, logVars, linkVars, farVars,
           callVars, localVars, wakeVars
  <1> QED BY <1>1, WakingType, FinishingType, DialingType, PumpingType, FarEndType,
             CallingType, ClosingType DEF Next, Library

(* Every variable of the handle keeps its type in every behaviour: in      *)
(* particular the event queue never holds more than the newest             *)
(* MaxQueuedEvents (capi/events.go, queueLocked).                          *)
THEOREM TypeInvariant == Spec => []TypeOK
  BY InitType, NextType, PTL DEF Spec

-----------------------------------------------------------------------------
(* The invariant the safety theorems rest on.  HandleInv reads few of the  *)
(* variables; a step that leaves those alone preserves it.                 *)
invVars == <<pc, closed, filed, bufClosed, linkUp, wake, notifyGone, poke, built,
             ended, dialFailed, once, fin>>

LEMMA Frame == HandleInv /\ UNCHANGED invVars => HandleInv'
  BY DEF HandleInv, CloseInv, WakeInv, DialInv, FinishInv, invVars

LEMMA InitInv == Init => HandleInv
  BY DEF Init, HandleInv, CloseInv, WakeInv, DialInv, FinishInv, NoFinish

(* What TypeOK gives the steps of the induction.                           *)
Shape == /\ pc \in [Threads -> Labels] /\ poke \in [Threads -> {"no", "want", "held"}]
         /\ fin \in [by : Threads \cup {"none"}, failed : BOOLEAN,
                     step : {"none", "error", "state", "emit", "close"}]

LEMMA TypeShape == TypeOK => Shape
  BY DEF TypeOK, Shape

LEMMA WakingInv == Shape /\ HandleInv /\ Waking => HandleInv'
  <1> SUFFICES ASSUME Shape, HandleInv, Waking PROVE HandleInv'
    OBVIOUS
  <1> USE DEF Shape, HandleInv, CloseInv, WakeInv, DialInv, FinishInv,
              handleVars, bufVars, baseVars, logVars, linkVars, farVars,
              callVars, localVars, wakeVars
  <1>1. ASSUME NEW t \in Threads, PokeLock(t) PROVE HandleInv'
    BY <1>1 DEF PokeLock
  <1>2. ASSUME NEW t \in Threads, PokeWake(t) PROVE HandleInv'
    BY <1>2 DEF PokeWake
  <1>3. CASE NotifyLock
    BY <1>3 DEF NotifyLock
  <1>4. CASE NotifyWake
    BY <1>4 DEF NotifyWake
  <1> QED BY <1>1, <1>2, <1>3, <1>4 DEF Waking

LEMMA FinishingInv == Shape /\ HandleInv /\ Finishing => HandleInv'
  <1> SUFFICES ASSUME Shape, HandleInv, Finishing PROVE HandleInv'
    OBVIOUS
  <1> USE DEF Shape, HandleInv, CloseInv, WakeInv, DialInv, FinishInv,
              handleVars, bufVars, baseVars, logVars, linkVars, farVars,
              callVars, localVars, wakeVars
  <1>1. ASSUME NEW t \in Threads, BeginFinish(t) PROVE HandleInv'
    BY <1>1 DEF BeginFinish
  <1>2. ASSUME NEW t \in Threads, FinishReturns(t) PROVE HandleInv'
    BY <1>2 DEF FinishReturns, Goto, AfterFinish
  <1>3. CASE FinishError
    BY <1>3 DEF FinishError, OnEvent, Terminal
  <1>4. CASE FinishState
    BY <1>4 DEF FinishState
  <1>5. CASE FinishEmit
    BY <1>5 DEF FinishEmit, OnEvent
  <1>6. CASE FinishClose
    BY <1>6 DEF FinishClose, NoFinish
  <1> QED BY <1>1, <1>2, <1>3, <1>4, <1>5, <1>6 DEF Finishing

LEMMA DialingInv == Shape /\ HandleInv /\ Dialing => HandleInv'
  <1> SUFFICES ASSUME Shape, HandleInv, Dialing PROVE HandleInv'
    OBVIOUS
  <1> USE DEF Shape, HandleInv, CloseInv, WakeInv, DialInv, FinishInv,
              handleVars, bufVars, baseVars, logVars, linkVars, farVars,
              callVars, localVars, wakeVars
  <1>1. CASE DialAuthenticating
    BY <1>1 DEF DialAuthenticating, Publish, Goto
  <1>2. CASE DialFails
    BY <1>2 DEF DialFails, Goto
  <1>3. CASE FailDial
    BY <1>3 DEF FailDial, Goto
  <1>4. CASE DialConnects
    <2>1. /\ pc["dial"] \in {"connect", "login"} /\ pc'["dial"] = "adopt"
          /\ pc'["pump"] = pc["pump"] /\ pc'["caller"] = pc["caller"]
      BY <1>4 DEF DialConnects
    <2>2. built' /\ UNCHANGED <<closed, filed, bufClosed, wake, notifyGone, poke, ended,
                                dialFailed, once, fin>>
      BY <1>4 DEF DialConnects
    <2> QED BY <2>1, <2>2
  <1>5. CASE Adopt
    BY <1>5 DEF Adopt, Goto
  <1>6. CASE ApplyPending
    BY <1>6 DEF ApplyPending, Goto
  <1>7. CASE ReadState
    BY <1>7 DEF ReadState, Goto
  <1>8. CASE PublishSeen
    BY <1>8 DEF PublishSeen, Publish, Goto
  <1>9. CASE MarkClosing("dial")
    BY <1>9 DEF MarkClosing, Goto
  <1>10. CASE CloseLink("dial")
    BY <1>10 DEF CloseLink, Goto
  <1> QED BY <1>1, <1>2, <1>3, <1>4, <1>5, <1>6, <1>7, <1>8, <1>9, <1>10 DEF Dialing

LEMMA PumpingInv == Shape /\ HandleInv /\ Pumping => HandleInv'
  <1> SUFFICES ASSUME Shape, HandleInv, Pumping PROVE HandleInv'
    OBVIOUS
  <1> USE DEF Shape, HandleInv, CloseInv, WakeInv, DialInv, FinishInv,
              handleVars, bufVars, baseVars, logVars, linkVars, farVars,
              callVars, localVars, wakeVars
  <1>1. CASE PumpRead
    BY <1>1 DEF PumpRead, ReadReturns, Goto
  <1>2. CASE PumpTap
    BY <1>2 DEF PumpTap, Goto
  <1>3. CASE PumpAppend
    BY <1>3 DEF PumpAppend, Goto
  <1>4. CASE PumpEof
    BY <1>4 DEF PumpEof, Goto
  <1>5. CASE PumpCheck
    BY <1>5 DEF PumpCheck, Goto
  <1>6. CASE PumpReap
    BY <1>6 DEF PumpReap, Goto
  <1> QED BY <1>1, <1>2, <1>3, <1>4, <1>5, <1>6 DEF Pumping

LEMMA CallingInv == Shape /\ HandleInv /\ Calling => HandleInv'
  <1> SUFFICES ASSUME Shape, HandleInv, Calling PROVE HandleInv'
    OBVIOUS
  <1> USE DEF Shape, HandleInv, CloseInv, WakeInv, DialInv, FinishInv,
              handleVars, bufVars, baseVars, logVars, linkVars, farVars,
              callVars, localVars, wakeVars
  <1>1. CASE NextEvent
    BY <1>1 DEF NextEvent
  <1>2. CASE \E n \in 1..MaxChunks : Read(n)
    BY <1>2 DEF Read, CallerIdle
  <1>3. CASE Resize
    BY <1>3 DEF Resize
  <1>4. CASE WriteFails
    BY <1>4 DEF WriteFails, CallerIdle, Goto
  <1>5. CASE EmitWriteError
    BY <1>5 DEF EmitWriteError, OnEvent, Terminal, States, Goto
  <1>6. CASE Close
    BY <1>6 DEF Close, CallerIdle, Goto
  <1> QED BY <1>1, <1>2, <1>3, <1>4, <1>5, <1>6 DEF Calling

LEMMA ClosingInv == Shape /\ HandleInv /\ Closing => HandleInv'
  <1> SUFFICES ASSUME Shape, HandleInv, Closing PROVE HandleInv'
    OBVIOUS
  <1> USE DEF Shape, HandleInv, CloseInv, WakeInv, DialInv, FinishInv,
              handleVars, bufVars, baseVars, logVars, linkVars, farVars,
              callVars, localVars, wakeVars
  <1>1. CASE CloseHandler
    BY <1>1 DEF CloseHandler, Goto
  <1>2. CASE CloseBuffer
    BY <1>2 DEF CloseBuffer, Goto
  <1>3. CASE CloseNotifier
    BY <1>3 DEF CloseNotifier, Goto
  <1>4. CASE MarkClosing("caller")
    BY <1>4 DEF MarkClosing, Goto
  <1>5. CASE CloseLink("caller")
    BY <1>5 DEF CloseLink, Goto
  <1> QED BY <1>1, <1>2, <1>3, <1>4, <1>5 DEF Closing

LEMMA FarEndInv == Shape /\ HandleInv /\ FarEnd => HandleInv'
  <1> SUFFICES ASSUME Shape, HandleInv, FarEnd PROVE HandleInv'
    OBVIOUS
  <1> USE DEF Shape, HandleInv, CloseInv, WakeInv, DialInv, FinishInv,
              handleVars, bufVars, baseVars, logVars, linkVars, farVars,
              callVars, localVars, wakeVars
  <1>1. CASE FarSends
    BY <1>1 DEF FarSends
  <1>2. CASE FarEnds
    BY <1>2 DEF FarEnds
  <1>3. CASE FarExits
    BY <1>3 DEF FarExits
  <1> QED BY <1>1, <1>2, <1>3 DEF FarEnd

LEMMA BridgeInv == Shape /\ HandleInv /\ Bridge => HandleInv'
  BY DEF Shape, HandleInv, CloseInv, WakeInv, DialInv, FinishInv, Bridge, Goto,
         handleVars, bufVars, baseVars, linkVars, wakeVars

LEMMA NextInv == TypeOK /\ HandleInv /\ [Next]_vars => HandleInv'
  <1>1. HandleInv /\ UNCHANGED vars => HandleInv'
    BY Frame DEF invVars, vars, handleVars, bufVars, baseVars, linkVars, wakeVars
  <1> QED BY <1>1, TypeShape, WakingInv, FinishingInv, DialingInv, PumpingInv, BridgeInv,
             FarEndInv, CallingInv, ClosingInv DEF Next, Library

LEMMA Invariance == Spec => [](TypeOK /\ HandleInv)
  BY InitType, NextType, InitInv, NextInv, PTL DEF Spec

(* No wake reaches a notifier omegassh_close has closed, for any number of *)
(* events, reads and writes: what notifyMu (capi.go poke, omegassh_close)  *)
(* and wakeMu (sshcore/buffer.go notify, Close) are for.                   *)
THEOREM NoStrayWakeHolds == Spec => []NoStrayWake
  <1>1. HandleInv => NoStrayWake
    BY DEF HandleInv, WakeInv, NoStrayWake
  <1> QED BY <1>1, Invariance, PTL

(* adopt and omegassh_close never both leave a session open to the other:  *)
(* what running the handoff under st.mu is for (capi/dial.go adopt).       *)
THEOREM AdoptedOrShutHolds == Spec => []AdoptedOrShut
  <1>1. HandleInv => AdoptedOrShut
    BY DEF HandleInv, CloseInv, DialInv, AdoptedOrShut
  <1> QED BY <1>1, Invariance, PTL

(* A terminal verdict stands: no late publish of the dial goroutine, and   *)
(* no second verdict of the session, overrides it (capi/events.go).        *)
THEOREM VerdictStands == Spec => VerdictIsFinal
  <1>1. TypeOK /\ HandleInv /\ [Next]_vars => (ended => state' = state)
    <2> SUFFICES ASSUME Shape, HandleInv, ended, [Next]_vars PROVE state' = state
      BY TypeShape
    <2> USE DEF handleVars
    <2>1. CASE Waking
      BY <2>1 DEF Waking, PokeLock, PokeWake, NotifyLock, NotifyWake
    <2>2. CASE Finishing
      <3>1. CASE FinishEmit
        <4>1. once = "running" /\ built /\ ~dialFailed /\ fin.step = "emit"
          BY <3>1 DEF FinishEmit, HandleInv, DialInv, FinishInv, Shape
        <4> QED BY <4>1 DEF HandleInv, FinishInv
      <3>2. CASE FinishError
        BY <3>2 DEF FinishError, OnEvent, States
      <3> QED BY <2>2, <3>1, <3>2 DEF Finishing, BeginFinish, FinishReturns, FinishState,
                                      FinishClose
    <2>3. CASE Dialing
      <3>1. ~FailDial
        BY DEF FailDial, HandleInv, DialInv
      <3> QED BY <2>3, <3>1 DEF Dialing, DialAuthenticating, DialFails, DialConnects, Adopt,
                    ApplyPending, ReadState, PublishSeen, Publish, MarkClosing, CloseLink
    <2>4. CASE Pumping \/ Bridge \/ FarEnd
      BY <2>4 DEF Pumping, PumpRead, PumpTap, PumpAppend, PumpEof, PumpCheck, PumpReap,
                  Bridge, FarEnd, FarSends, FarEnds, FarExits
    <2>5. CASE Calling
      BY <2>5 DEF Calling, NextEvent, Read, Resize, WriteFails, EmitWriteError, OnEvent,
                  States, Close
    <2>6. CASE Closing
      BY <2>6 DEF Closing, CloseHandler, CloseBuffer, CloseNotifier, MarkClosing, CloseLink
    <2>7. CASE UNCHANGED vars
      BY <2>7 DEF vars
    <2> QED BY <2>1, <2>2, <2>3, <2>4, <2>5, <2>6, <2>7 DEF Next, Library
  <1> QED BY <1>1, Invariance, PTL DEF Spec, VerdictIsFinal

(* A retired handle: a step only drains its queue.                         *)
LEMMA FrozenStep ==
  ASSUME TypeOK, closed, [Next]_vars
  PROVE  state' = state /\ err' = err /\ Len(events') <= Len(events)
  <1> DEFINE Still == state' = state /\ err' = err /\ Len(events') <= Len(events)
  <1> SUFFICES Still
    OBVIOUS
  <1> USE DEF handleVars
  <1>1. events \in Seq(Events)
    BY DEF TypeOK
  <1>2. UNCHANGED <<state, err, events>> => Still
    BY <1>1
  <1>3. CASE Waking
    BY <1>2, <1>3 DEF Waking, PokeLock, PokeWake, NotifyLock, NotifyWake
  <1>4. CASE Finishing
    BY <1>2, <1>4 DEF Finishing, BeginFinish, FinishReturns, FinishError, FinishState,
                      FinishEmit, FinishClose, OnEvent
  <1>5. CASE Dialing
    BY <1>2, <1>5 DEF Dialing, DialAuthenticating, DialFails, FailDial, DialConnects, Adopt,
                      ApplyPending, ReadState, PublishSeen, Publish, MarkClosing, CloseLink
  <1>6. CASE Pumping \/ Bridge \/ FarEnd
    BY <1>2, <1>6 DEF Pumping, PumpRead, PumpTap, PumpAppend, PumpEof, PumpCheck, PumpReap,
                      Bridge, FarEnd, FarSends, FarEnds, FarExits
  <1>7. CASE NextEvent
    <2>1. events # <<>> /\ events' = Tail(events) /\ UNCHANGED <<state, err>>
      BY <1>7 DEF NextEvent
    <2> QED BY <1>1, <2>1
  <1>8. CASE Calling /\ ~NextEvent
    BY <1>2, <1>8 DEF Calling, Read, Resize, WriteFails, EmitWriteError, OnEvent, Close
  <1>9. CASE Closing
    BY <1>2, <1>9 DEF Closing, CloseHandler, CloseBuffer, CloseNotifier, MarkClosing,
                      CloseLink
  <1>10. CASE UNCHANGED vars
    BY <1>2, <1>10 DEF vars
  <1> QED BY <1>3, <1>4, <1>5, <1>6, <1>7, <1>8, <1>9, <1>10 DEF Next, Library

(* A retired handle is told nothing more: after omegassh_close has marked  *)
(* it, no dial, session or write moves its state, its error or its queue,  *)
(* which the caller can only drain (the closed tests of capi/events.go).   *)
THEOREM FrozenAfterCloseHolds == Spec => FrozenAfterClose
  <1> DEFINE Still == state' = state /\ err' = err /\ Len(events') <= Len(events)
  <1>1. TypeOK /\ HandleInv /\ [Next]_vars => (closed => Still)
    BY FrozenStep
  <1> QED BY <1>1, Invariance, PTL DEF Spec, FrozenAfterClose

-----------------------------------------------------------------------------
(* The story of the end.  Nothing ends before the session is filed, unless *)
(* the handle has been retired, and a filed session has its event handler. *)
FiledInv ==
  /\ closing => closed
  /\ pc["dial"] \in {"mark", "unlink", "finish"} => closed
  /\ handler => filed
  /\ filed /\ ~closed => handler
  /\ backendEnd # "open" => filed \/ closed
  /\ pc["bridge"] = "finish" => backendEnd # "open"
  /\ pc["pump"] # "none" => filed
  /\ pc["dial"] = "adopt" => ~filed
  /\ once # "fresh" => filed \/ closed

(* A serial line under an open handle only ends in failure, which is why   *)
(* the disconnected its handle starts in is never mistaken for an end.     *)
EndInv ==
  /\ pc["pump"] = "finish" => readErr # "none"
  /\ kind = "serial" => /\ wireEnd # "eof" /\ readErr # "eof"
                        /\ backendEnd \in {"nil", "eof"} => closed
                        /\ ~closed /\ fin.step # "none" => fin.failed
                        /\ ~closed => sessState # "disconnected"

(* The session is connected until finish settles its state, once.          *)
VerdictInv ==
  /\ once = "running" <=> fin.step # "none"
  /\ fin.step # "none" => fin.by # "none"
  /\ once = "fresh" \/ fin.step \in {"error", "state"} => sessState = "connected"
  /\ fin.step \in {"emit", "close"} => sessState = Verdict
  /\ once = "done" => sessState \in Terminal

(* A failure has its reason before anybody can read the failure.           *)
ReasonInv ==
  /\ state = "failed" => err # "none"
  /\ ~closed /\ fin.step \in {"state", "emit", "close"} /\ fin.failed => err # "none"
  /\ ~closed /\ sessState = "failed" => err # "none"

(* What the dial goroutine is about to publish is either overtaken by the  *)
(* end, which publish then leaves standing, or is the end itself.          *)
ToldInv ==
  /\ pc["dial"] = "publish" => seen \in {"connected", sessState}
  /\ ~closed /\ ~ended /\ pc["dial"] # "done"
       => \/ state \in {"connecting", "authenticating"}
          \/ kind = "serial" /\ state = "disconnected"
  /\ ~closed /\ filed /\ ended => state = sessState
  /\ ~closed /\ filed /\ (once = "done" \/ fin.step = "close")
       => /\ pc["dial"] = "publish" => ended \/ seen = sessState
          /\ pc["dial"] = "done" => state = sessState

Sorts == /\ kind \in {"ssh", "telnet", "serial"}
         /\ backendEnd \in {"open", "nil", "eof", "error"}
         /\ readErr \in {"none", "eof", "error"} /\ wireEnd \in {"up", "eof", "error"}

(* What the two steps that move more than one thread do.                   *)
LEMMA ConnectMoves ==
  ASSUME Shape, DialConnects
  PROVE  /\ pc["dial"] \in {"connect", "login"} /\ pc'["dial"] = "adopt"
         /\ pc'["pump"] = pc["pump"] /\ pc'["caller"] = pc["caller"]
         /\ pc'["bridge"] \in {pc["bridge"], "wait"}
  <1>1. pc["dial"] \in {"connect", "login"}
    BY DEF DialConnects
  <1>2. PICK b \in {pc["bridge"], "wait"} : pc' = [pc EXCEPT !["dial"] = "adopt", !["bridge"] = b]
    BY DEF DialConnects, Shape
  <1> QED BY <1>1, <1>2 DEF Shape

LEMMA ConnectKeeps ==
  ASSUME DialConnects
  PROVE  /\ built' /\ linkUp'
         /\ UNCHANGED <<kind, handleVars, bufVars, sessState, handler, closing, once, fin,
                        logVars, backendEnd, farVars, callVars, localVars, wakeVars>>
  BY DEF DialConnects

LEMMA AdoptMoves ==
  ASSUME Shape, Adopt
  PROVE  /\ pc["dial"] = "adopt"
         /\ pc'["caller"] = pc["caller"] /\ pc'["bridge"] = pc["bridge"]
         /\ closed => pc'["dial"] = "mark" /\ pc'["pump"] = pc["pump"]
         /\ ~closed => pc'["dial"] = "pending" /\ pc'["pump"] = "read"
  <1>1. pc["dial"] = "adopt"
    BY DEF Adopt
  <1>2. CASE closed
    <2>1. pc' = [pc EXCEPT !["dial"] = "mark"]
      BY <1>2 DEF Adopt, Goto
    <2> QED BY <1>1, <1>2, <2>1 DEF Shape
  <1>3. CASE ~closed
    <2>1. pc' = [pc EXCEPT !["dial"] = "pending", !["pump"] = "read"]
      BY <1>3 DEF Adopt
    <2> QED BY <1>1, <1>3, <2>1 DEF Shape
  <1> QED BY <1>2, <1>3

LEMMA AdoptKeeps ==
  ASSUME Adopt
  PROVE  /\ closed => UNCHANGED <<filed, handler>>
         /\ ~closed => filed' = TRUE /\ handler' = TRUE
         /\ UNCHANGED <<kind, state, ended, dialFailed, err, resize, closed, reaped,
                        exitCode, events, bufVars, built, sessState, closing, once, fin,
                        logVars, linkVars, farVars, callVars, localVars, wakeVars>>
  BY DEF Adopt

(* A thread that goes on moves nobody else.                                *)
LEMMA OnlyMover ==
  ASSUME Shape, NEW t \in Threads, NEW l, pc' = [pc EXCEPT ![t] = l]
  PROVE  pc'[t] = l /\ \A u \in Threads : u # t => pc'[u] = pc[u]
  BY DEF Shape

(* The reason of an end or of a failed write goes out on its own.          *)
LEMMA ReasonRecorded ==
  ASSUME state \in States, ended \in BOOLEAN, NEW t, NEW ev \in Errors, OnEvent(t, ev)
  PROVE  ended' = ended /\ state' = state /\ (closed => err' = err) /\ (~closed => err' = ev)
  <1>1. state # ev /\ ev \notin States /\ ev \notin Terminal
    BY DEF States, Errors, Terminal
  <1>2. CASE closed
    BY <1>1, <1>2 DEF OnEvent
  <1>3. CASE ~closed
    BY <1>1, <1>3 DEF OnEvent
  <1> QED BY <1>2, <1>3

LEMMA FiledStep ==
  ASSUME Shape, HandleInv, FiledInv, [Next]_vars
  PROVE  FiledInv'
  <1> USE DEF Shape, HandleInv, CloseInv, DialInv, FinishInv, FiledInv,
         handleVars, bufVars, baseVars, logVars, linkVars, farVars, callVars,
         localVars, wakeVars
  <1>1. CASE Waking
    BY <1>1 DEF Waking, PokeLock, PokeWake, NotifyLock, NotifyWake
  <1>2. CASE Finishing
    <2>1. ASSUME NEW t \in Threads, BeginFinish(t) PROVE FiledInv'
      <3>1. filed \/ closed
        <4>1. pc[t] = "finish"
          BY <2>1 DEF BeginFinish
        <4>2. t \in {"dial", "pump", "bridge", "caller"}
          OBVIOUS
        <4> QED BY <4>1, <4>2
      <3>2. UNCHANGED <<filed, closed, closing, handler, backendEnd, pc>>
        BY <2>1 DEF BeginFinish
      <3> QED BY <3>1, <3>2
    <2>2. ASSUME NEW t \in Threads, FinishReturns(t) PROVE FiledInv'
      BY <2>2 DEF FinishReturns, AfterFinish, Goto
    <2>3. CASE FinishError
      BY <2>3 DEF FinishError, OnEvent
    <2>4. CASE FinishState
      BY <2>4 DEF FinishState, Verdict
    <2>5. CASE FinishEmit
      BY <2>5 DEF FinishEmit, OnEvent, Verdict
    <2>6. CASE FinishClose
      BY <2>6 DEF FinishClose, NoFinish
    <2> QED BY <1>2, <2>1, <2>2, <2>3, <2>4, <2>5, <2>6 DEF Finishing
  <1>3. CASE Dialing
    <2>1. CASE DialAuthenticating
      BY <2>1 DEF DialAuthenticating, Publish, Goto
    <2>2. CASE DialFails
      BY <2>2 DEF DialFails, Goto
    <2>3. CASE FailDial
      BY <2>3 DEF FailDial, Goto
    <2>4. CASE DialConnects
      BY <2>4, ConnectMoves, ConnectKeeps
    <2>5. CASE Adopt
      <3>1. CASE closed
        BY <2>5, <3>1, AdoptMoves, AdoptKeeps
      <3>2. CASE ~closed
        BY <2>5, <3>2, AdoptMoves, AdoptKeeps
      <3> QED BY <3>1, <3>2
    <2>6. CASE ApplyPending
      BY <2>6 DEF ApplyPending, FarSizeAfter, Goto
    <2>7. CASE ReadState
      BY <2>7 DEF ReadState, Goto
    <2>8. CASE PublishSeen
      BY <2>8 DEF PublishSeen, Publish, Goto
    <2>9. CASE MarkClosing("dial")
      BY <2>9 DEF MarkClosing, Goto
    <2>10. CASE CloseLink("dial")
      BY <2>10 DEF CloseLink, Goto
    <2> QED BY <1>3, <2>1, <2>2, <2>3, <2>4, <2>5, <2>6, <2>7, <2>8, <2>9,
           <2>10 DEF Dialing
  <1>4. CASE Pumping
    <2>1. CASE PumpRead
      BY <2>1 DEF PumpRead, ReadReturns, Goto
    <2>2. CASE PumpTap
      BY <2>2 DEF PumpTap, Goto
    <2>3. CASE PumpAppend
      <3>1. pc'["dial"] = pc["dial"] /\ pc'["bridge"] = pc["bridge"] /\ filed
        <4>1. \E l \in Labels : pc' = [pc EXCEPT !["pump"] = l]
          BY <2>3 DEF PumpAppend, Goto, Labels
        <4>2. pc["pump"] = "append"
          BY <2>3 DEF PumpAppend
        <4> QED BY <4>1, <4>2, OnlyMover
      <3>2. UNCHANGED <<filed, closed, closing, handler, backendEnd, fin>>
        BY <2>3 DEF PumpAppend
      <3> QED BY <3>1, <3>2
    <2>4. CASE PumpEof
      BY <2>4 DEF PumpEof, Goto
    <2>5. CASE PumpCheck
      BY <2>5 DEF PumpCheck, Goto
    <2>6. CASE PumpReap
      BY <2>6 DEF PumpReap, Goto
    <2> QED BY <1>4, <2>1, <2>2, <2>3, <2>4, <2>5, <2>6 DEF Pumping
  <1>5. CASE Bridge
    BY <1>5 DEF Bridge, Goto
  <1>6. CASE FarEnd
    BY <1>6 DEF FarEnd, FarSends, FarEnds, FarExits
  <1>7. CASE Calling
    <2>1. CASE NextEvent
      BY <2>1 DEF NextEvent, CallerIdle
    <2>2. CASE \E n \in 1..MaxChunks : Read(n)
      BY <2>2 DEF Read, CallerIdle
    <2>3. CASE Resize
      BY <2>3 DEF Resize, CallerIdle, FarSizeAfter
    <2>4. CASE WriteFails
      BY <2>4 DEF WriteFails, CallerIdle, Goto
    <2>5. CASE EmitWriteError
      BY <2>5 DEF EmitWriteError, OnEvent, Goto
    <2>6. CASE Close
      BY <2>6 DEF Close, CallerIdle, Goto
    <2> QED BY <1>7, <2>1, <2>2, <2>3, <2>4, <2>5, <2>6 DEF Calling
  <1>8. CASE Closing
    <2>1. CASE CloseHandler
      BY <2>1 DEF CloseHandler, Goto
    <2>2. CASE CloseBuffer
      BY <2>2 DEF CloseBuffer, Goto
    <2>3. CASE CloseNotifier
      BY <2>3 DEF CloseNotifier, Goto
    <2>4. CASE MarkClosing("caller")
      BY <2>4 DEF MarkClosing, Goto
    <2>5. CASE CloseLink("caller")
      BY <2>5 DEF CloseLink, Goto
    <2> QED BY <1>8, <2>1, <2>2, <2>3, <2>4, <2>5 DEF Closing
  <1>9. CASE UNCHANGED vars
    BY <1>9 DEF vars
  <1> QED BY <1>1, <1>2, <1>3, <1>4, <1>5, <1>6, <1>7, <1>8, <1>9 DEF Next,
         Library

LEMMA EndStep ==
  ASSUME Shape, Sorts, HandleInv, FiledInv, EndInv, [Next]_vars
  PROVE  EndInv'
  <1> USE DEF Shape, Sorts, HandleInv, CloseInv, DialInv, FinishInv, FiledInv,
         EndInv, handleVars, bufVars, baseVars, logVars, linkVars, farVars,
         callVars, localVars, wakeVars
  <1>1. CASE Waking
    BY <1>1 DEF Waking, PokeLock, PokeWake, NotifyLock, NotifyWake
  <1>2. CASE Finishing
    <2>1. ASSUME NEW t \in Threads, BeginFinish(t) PROVE EndInv'
      <3>1. UNCHANGED <<kind, closed, closing, pc, readErr, wireEnd, backendEnd, sessState>>
        BY <2>1 DEF BeginFinish
      <3>2. fin'.failed = (FinishArg(t) = "error" /\ ~closing)
        BY <2>1 DEF BeginFinish
      <3>3. kind = "serial" /\ ~closed => FinishArg(t) = "error" /\ ~closing
        <4>1. pc[t] = "finish"
          BY <2>1 DEF BeginFinish
        <4>2. t \in {"dial", "caller"} => closed
          BY <4>1
        <4>3. t = "pump" => FinishArg(t) = readErr /\ readErr # "none"
          BY <4>1 DEF FinishArg
        <4>4. t = "bridge" => FinishArg(t) = backendEnd /\ backendEnd # "open"
          BY <4>1 DEF FinishArg
        <4> QED BY <4>2, <4>3, <4>4
      <3> QED BY <3>1, <3>2, <3>3
    <2>2. ASSUME NEW t \in Threads, FinishReturns(t) PROVE EndInv'
      BY <2>2 DEF FinishReturns, AfterFinish, Goto
    <2>3. CASE FinishError
      BY <2>3 DEF FinishError, OnEvent
    <2>4. CASE FinishState
      BY <2>4 DEF FinishState, Verdict
    <2>5. CASE FinishEmit
      BY <2>5 DEF FinishEmit, OnEvent, Verdict
    <2>6. CASE FinishClose
      BY <2>6 DEF FinishClose, NoFinish
    <2> QED BY <1>2, <2>1, <2>2, <2>3, <2>4, <2>5, <2>6 DEF Finishing
  <1>3. CASE Dialing
    <2>1. CASE DialAuthenticating
      BY <2>1 DEF DialAuthenticating, Publish, Goto
    <2>2. CASE DialFails
      BY <2>2 DEF DialFails, Goto
    <2>3. CASE FailDial
      BY <2>3 DEF FailDial, Goto
    <2>4. CASE DialConnects
      BY <2>4, ConnectMoves, ConnectKeeps
    <2>5. CASE Adopt
      <3>1. CASE closed
        BY <2>5, <3>1, AdoptMoves, AdoptKeeps
      <3>2. CASE ~closed
        BY <2>5, <3>2, AdoptMoves, AdoptKeeps
      <3> QED BY <3>1, <3>2
    <2>6. CASE ApplyPending
      BY <2>6 DEF ApplyPending, FarSizeAfter, Goto
    <2>7. CASE ReadState
      BY <2>7 DEF ReadState, Goto
    <2>8. CASE PublishSeen
      BY <2>8 DEF PublishSeen, Publish, Goto
    <2>9. CASE MarkClosing("dial")
      BY <2>9 DEF MarkClosing, Goto
    <2>10. CASE CloseLink("dial")
      BY <2>10 DEF CloseLink, Goto
    <2> QED BY <1>3, <2>1, <2>2, <2>3, <2>4, <2>5, <2>6, <2>7, <2>8, <2>9,
           <2>10 DEF Dialing
  <1>4. CASE Pumping
    <2>1. CASE PumpRead
      BY <2>1 DEF PumpRead, ReadReturns, Goto
    <2>2. CASE PumpTap
      BY <2>2 DEF PumpTap, Goto
    <2>3. CASE PumpAppend
      BY <2>3 DEF PumpAppend, Goto
    <2>4. CASE PumpEof
      BY <2>4 DEF PumpEof, Goto
    <2>5. CASE PumpCheck
      BY <2>5 DEF PumpCheck, Goto
    <2>6. CASE PumpReap
      BY <2>6 DEF PumpReap, Goto
    <2> QED BY <1>4, <2>1, <2>2, <2>3, <2>4, <2>5, <2>6 DEF Pumping
  <1>5. CASE Bridge
    BY <1>5 DEF Bridge, Goto
  <1>6. CASE FarEnd
    <2>1. CASE FarSends
      BY <2>1 DEF FarSends
    <2>2. CASE FarEnds
      BY <2>2 DEF FarEnds
    <2>3. CASE FarExits
      BY <2>3 DEF FarExits
    <2> QED BY <1>6, <2>1, <2>2, <2>3 DEF FarEnd
  <1>7. CASE Calling
    <2>1. CASE NextEvent
      BY <2>1 DEF NextEvent, CallerIdle
    <2>2. CASE \E n \in 1..MaxChunks : Read(n)
      BY <2>2 DEF Read, CallerIdle
    <2>3. CASE Resize
      BY <2>3 DEF Resize, CallerIdle, FarSizeAfter
    <2>4. CASE WriteFails
      BY <2>4 DEF WriteFails, CallerIdle, Goto
    <2>5. CASE EmitWriteError
      BY <2>5 DEF EmitWriteError, OnEvent, Goto
    <2>6. CASE Close
      BY <2>6 DEF Close, CallerIdle, Goto
    <2> QED BY <1>7, <2>1, <2>2, <2>3, <2>4, <2>5, <2>6 DEF Calling
  <1>8. CASE Closing
    <2>1. CASE CloseHandler
      BY <2>1 DEF CloseHandler, Goto
    <2>2. CASE CloseBuffer
      BY <2>2 DEF CloseBuffer, Goto
    <2>3. CASE CloseNotifier
      BY <2>3 DEF CloseNotifier, Goto
    <2>4. CASE MarkClosing("caller")
      BY <2>4 DEF MarkClosing, Goto
    <2>5. CASE CloseLink("caller")
      BY <2>5 DEF CloseLink, Goto
    <2> QED BY <1>8, <2>1, <2>2, <2>3, <2>4, <2>5 DEF Closing
  <1>9. CASE UNCHANGED vars
    BY <1>9 DEF vars
  <1> QED BY <1>1, <1>2, <1>3, <1>4, <1>5, <1>6, <1>7, <1>8, <1>9 DEF Next,
         Library

LEMMA VerdictStep ==
  ASSUME Shape, HandleInv, VerdictInv, [Next]_vars
  PROVE  VerdictInv'
  <1> USE DEF Shape, HandleInv, FinishInv, VerdictInv, Verdict, Terminal,
         handleVars, bufVars, baseVars, logVars, linkVars, farVars, callVars,
         localVars, wakeVars
  <1>1. CASE Waking
    BY <1>1 DEF Waking, PokeLock, PokeWake, NotifyLock, NotifyWake
  <1>2. CASE Finishing
    <2>1. ASSUME NEW t \in Threads, BeginFinish(t) PROVE VerdictInv'
      BY <2>1 DEF BeginFinish, FinishArg, Verdict
    <2>2. ASSUME NEW t \in Threads, FinishReturns(t) PROVE VerdictInv'
      BY <2>2 DEF FinishReturns, AfterFinish, Goto
    <2>3. CASE FinishError
      BY <2>3 DEF FinishError, OnEvent
    <2>4. CASE FinishState
      BY <2>4 DEF FinishState, Verdict
    <2>5. CASE FinishEmit
      BY <2>5 DEF FinishEmit, OnEvent, Verdict
    <2>6. CASE FinishClose
      BY <2>6 DEF FinishClose, NoFinish
    <2> QED BY <1>2, <2>1, <2>2, <2>3, <2>4, <2>5, <2>6 DEF Finishing
  <1>3. CASE Dialing
    <2>1. CASE DialAuthenticating
      BY <2>1 DEF DialAuthenticating, Publish, Goto
    <2>2. CASE DialFails
      BY <2>2 DEF DialFails, Goto
    <2>3. CASE FailDial
      BY <2>3 DEF FailDial, Goto
    <2>4. CASE DialConnects
      BY <2>4 DEF DialConnects
    <2>5. CASE Adopt
      BY <2>5 DEF Adopt, Goto
    <2>6. CASE ApplyPending
      BY <2>6 DEF ApplyPending, FarSizeAfter, Goto
    <2>7. CASE ReadState
      BY <2>7 DEF ReadState, Goto
    <2>8. CASE PublishSeen
      BY <2>8 DEF PublishSeen, Publish, Goto
    <2>9. CASE MarkClosing("dial")
      BY <2>9 DEF MarkClosing, Goto
    <2>10. CASE CloseLink("dial")
      BY <2>10 DEF CloseLink, Goto
    <2> QED BY <1>3, <2>1, <2>2, <2>3, <2>4, <2>5, <2>6, <2>7, <2>8, <2>9,
           <2>10 DEF Dialing
  <1>4. CASE Pumping
    BY <1>4 DEF Pumping, PumpRead, ReadReturns, Goto, PumpTap, PumpAppend,
           PumpEof, PumpCheck, PumpReap
  <1>5. CASE Bridge
    BY <1>5 DEF Bridge, Goto
  <1>6. CASE FarEnd
    BY <1>6 DEF FarEnd, FarSends, FarEnds, FarExits
  <1>7. CASE Calling
    BY <1>7 DEF Calling, NextEvent, CallerIdle, Read, Resize, FarSizeAfter,
           WriteFails, Goto, EmitWriteError, OnEvent, Close
  <1>8. CASE Closing
    BY <1>8 DEF Closing, CloseHandler, Goto, CloseBuffer, CloseNotifier,
           MarkClosing, CloseLink
  <1>9. CASE UNCHANGED vars
    BY <1>9 DEF vars
  <1> QED BY <1>1, <1>2, <1>3, <1>4, <1>5, <1>6, <1>7, <1>8, <1>9 DEF Next,
         Library

LEMMA ReasonStep ==
  ASSUME Shape, state \in States, ended \in BOOLEAN, HandleInv, FiledInv, VerdictInv, ToldInv, ReasonInv, [Next]_vars
  PROVE  ReasonInv'
  <1> USE DEF Shape, HandleInv, CloseInv, DialInv, FinishInv, FiledInv,
         VerdictInv, ToldInv, ReasonInv, Verdict, Terminal, handleVars,
         bufVars, baseVars, logVars, linkVars, farVars, callVars, localVars,
         wakeVars
  <1>1. CASE Waking
    BY <1>1 DEF Waking, PokeLock, PokeWake, NotifyLock, NotifyWake
  <1>2. CASE Finishing
    <2>1. ASSUME NEW t \in Threads, BeginFinish(t) PROVE ReasonInv'
      BY <2>1 DEF BeginFinish, FinishArg, Verdict
    <2>2. ASSUME NEW t \in Threads, FinishReturns(t) PROVE ReasonInv'
      BY <2>2 DEF FinishReturns, AfterFinish, Goto
    <2>3. CASE FinishError
      <3>1. UNCHANGED <<closed, sessState>>
        BY <2>3 DEF FinishError
      <3>2. ended' = ended /\ state' = state /\ (closed => err' = err)
            /\ (~closed => err' # "none")
        BY <2>3, ReasonRecorded DEF FinishError, Errors
      <3>3. fin.step = "error" /\ fin'.failed = fin.failed
        BY <2>3 DEF FinishError
      <3>4. sessState = "connected"
        BY <3>3
      <3> QED BY <3>1, <3>2, <3>3, <3>4
    <2>4. CASE FinishState
      BY <2>4 DEF FinishState, Verdict
    <2>5. CASE FinishEmit
      BY <2>5 DEF FinishEmit, OnEvent, Verdict
    <2>6. CASE FinishClose
      BY <2>6 DEF FinishClose, NoFinish
    <2> QED BY <1>2, <2>1, <2>2, <2>3, <2>4, <2>5, <2>6 DEF Finishing
  <1>3. CASE Dialing
    <2>1. CASE DialAuthenticating
      BY <2>1 DEF DialAuthenticating, Publish, Goto
    <2>2. CASE DialFails
      BY <2>2 DEF DialFails, Goto
    <2>3. CASE FailDial
      BY <2>3 DEF FailDial, Goto
    <2>4. CASE DialConnects
      BY <2>4, ConnectMoves, ConnectKeeps
    <2>5. CASE Adopt
      <3>1. CASE closed
        BY <2>5, <3>1, AdoptMoves, AdoptKeeps
      <3>2. CASE ~closed
        BY <2>5, <3>2, AdoptMoves, AdoptKeeps
      <3> QED BY <3>1, <3>2
    <2>6. CASE ApplyPending
      BY <2>6 DEF ApplyPending, FarSizeAfter, Goto
    <2>7. CASE ReadState
      BY <2>7 DEF ReadState, Goto
    <2>8. CASE PublishSeen
      BY <2>8 DEF PublishSeen, Publish, Goto
    <2>9. CASE MarkClosing("dial")
      BY <2>9 DEF MarkClosing, Goto
    <2>10. CASE CloseLink("dial")
      BY <2>10 DEF CloseLink, Goto
    <2> QED BY <1>3, <2>1, <2>2, <2>3, <2>4, <2>5, <2>6, <2>7, <2>8, <2>9,
           <2>10 DEF Dialing
  <1>4. CASE Pumping
    BY <1>4 DEF Pumping, PumpRead, ReadReturns, Goto, PumpTap, PumpAppend,
           PumpEof, PumpCheck, PumpReap
  <1>5. CASE Bridge
    BY <1>5 DEF Bridge, Goto
  <1>6. CASE FarEnd
    BY <1>6 DEF FarEnd, FarSends, FarEnds, FarExits
  <1>7. CASE Calling
    <2>1. CASE NextEvent
      BY <2>1 DEF NextEvent, CallerIdle
    <2>2. CASE \E n \in 1..MaxChunks : Read(n)
      BY <2>2 DEF Read, CallerIdle
    <2>3. CASE Resize
      BY <2>3 DEF Resize, CallerIdle, FarSizeAfter
    <2>4. CASE WriteFails
      BY <2>4 DEF WriteFails, CallerIdle, Goto
    <2>5. CASE EmitWriteError
      <3>1. UNCHANGED <<closed, sessState, fin>>
        BY <2>5 DEF EmitWriteError
      <3>2. ended' = ended /\ state' = state /\ (closed => err' = err)
            /\ (~closed => err' # "none")
        BY <2>5, ReasonRecorded DEF EmitWriteError, Errors
      <3> QED BY <3>1, <3>2
    <2>6. CASE Close
      BY <2>6 DEF Close, CallerIdle, Goto
    <2> QED BY <1>7, <2>1, <2>2, <2>3, <2>4, <2>5, <2>6 DEF Calling
  <1>8. CASE Closing
    BY <1>8 DEF Closing, CloseHandler, Goto, CloseBuffer, CloseNotifier,
           MarkClosing, CloseLink
  <1>9. CASE UNCHANGED vars
    BY <1>9 DEF vars
  <1> QED BY <1>1, <1>2, <1>3, <1>4, <1>5, <1>6, <1>7, <1>8, <1>9 DEF Next,
         Library

LEMMA ToldStep ==
  ASSUME Shape, Sorts, state \in States, ended \in BOOLEAN, HandleInv, FiledInv, EndInv, VerdictInv, ToldInv, [Next]_vars
  PROVE  ToldInv'
  <1> USE DEF Shape, Sorts, HandleInv, CloseInv, DialInv, FinishInv, FiledInv,
         EndInv, VerdictInv, ToldInv, Verdict, Terminal, handleVars, bufVars,
         baseVars, logVars, linkVars, farVars, callVars, localVars, wakeVars
  <1>1. CASE Waking
    BY <1>1 DEF Waking, PokeLock, PokeWake, NotifyLock, NotifyWake
  <1>2. CASE Finishing
    <2>1. ASSUME NEW t \in Threads, BeginFinish(t) PROVE ToldInv'
      BY <2>1 DEF BeginFinish, FinishArg, Verdict
    <2>2. ASSUME NEW t \in Threads, FinishReturns(t) PROVE ToldInv'
      BY <2>2 DEF FinishReturns, AfterFinish, Goto
    <2>3. CASE FinishError
      BY <2>3 DEF FinishError, OnEvent, States, Errors
    <2>4. CASE FinishState
      BY <2>4 DEF FinishState, Verdict
    <2>5. CASE FinishEmit
      <3>1. UNCHANGED <<closed, filed, kind, seen, sessState, pc, once, built, dialFailed>>
        BY <2>5 DEF FinishEmit
      <3>2. fin.step = "emit" /\ sessState = Verdict /\ once = "running" /\ built /\ fin'.step = "close"
        BY <2>5 DEF FinishEmit
      <3>3. CASE closed
        BY <3>1, <3>3
      <3>4. CASE ~closed /\ state = Verdict
        <4>1. state' = state /\ ended' = ended
          BY <2>5, <3>4 DEF FinishEmit, OnEvent
        <4>2. pc["dial"] = "done" \/ ended
          <5>1. sessState \in Terminal /\ (kind = "serial" => sessState # "disconnected")
            BY <3>2, <3>4
          <5> QED BY <5>1, <3>2, <3>4
        <4> QED BY <3>1, <3>2, <3>4, <4>1, <4>2
      <3>5. CASE ~closed /\ state # Verdict
        <4>1. state' = Verdict /\ ended'
          BY <2>5, <3>5 DEF FinishEmit, OnEvent, States
        <4> QED BY <3>1, <3>2, <3>5, <4>1
      <3> QED BY <3>3, <3>4, <3>5
    <2>6. CASE FinishClose
      BY <2>6 DEF FinishClose, NoFinish
    <2> QED BY <1>2, <2>1, <2>2, <2>3, <2>4, <2>5, <2>6 DEF Finishing
  <1>3. CASE Dialing
    <2>1. CASE DialAuthenticating
      BY <2>1 DEF DialAuthenticating, Publish, Goto
    <2>2. CASE DialFails
      BY <2>2 DEF DialFails, Goto
    <2>3. CASE FailDial
      BY <2>3 DEF FailDial, Goto
    <2>4. CASE DialConnects
      BY <2>4, ConnectMoves, ConnectKeeps
    <2>5. CASE Adopt
      <3>1. CASE closed
        BY <2>5, <3>1, AdoptMoves, AdoptKeeps
      <3>2. CASE ~closed
        BY <2>5, <3>2, AdoptMoves, AdoptKeeps
      <3> QED BY <3>1, <3>2
    <2>6. CASE ApplyPending
      BY <2>6 DEF ApplyPending, FarSizeAfter, Goto
    <2>7. CASE ReadState
      BY <2>7 DEF ReadState, Goto
    <2>8. CASE PublishSeen
      <3>1. UNCHANGED <<closed, filed, kind, seen, sessState, once, fin, ended>>
        BY <2>8 DEF PublishSeen
      <3>2. pc["dial"] = "publish" /\ pc'["dial"] = "done"
        BY <2>8, OnlyMover DEF PublishSeen, Goto
      <3>3. ~closed => IF ended THEN state' = state ELSE state' = seen
        BY <2>8 DEF PublishSeen, Publish
      <3>4. ~closed /\ filed /\ ended => state' = sessState
        BY <3>3
      <3>5. ~closed /\ filed /\ ~ended /\ (once = "done" \/ fin.step = "close")
            => state' = sessState
        BY <3>2, <3>3
      <3> QED BY <3>1, <3>2, <3>4, <3>5
    <2>9. CASE MarkClosing("dial")
      BY <2>9 DEF MarkClosing, Goto
    <2>10. CASE CloseLink("dial")
      BY <2>10 DEF CloseLink, Goto
    <2> QED BY <1>3, <2>1, <2>2, <2>3, <2>4, <2>5, <2>6, <2>7, <2>8, <2>9,
           <2>10 DEF Dialing
  <1>4. CASE Pumping
    <2>1. CASE PumpRead
      BY <2>1 DEF PumpRead, ReadReturns, Goto
    <2>2. CASE PumpTap
      BY <2>2 DEF PumpTap, Goto
    <2>3. CASE PumpAppend
      <3>1. UNCHANGED <<closed, filed, kind, seen, sessState, state, fin, once, ended>>
        BY <2>3 DEF PumpAppend
      <3>2. pc'["dial"] = pc["dial"]
        <4>1. \E l \in Labels : pc' = [pc EXCEPT !["pump"] = l]
          BY <2>3 DEF PumpAppend, Goto, Labels
        <4> QED BY <4>1, OnlyMover
      <3> QED BY <3>1, <3>2
    <2>4. CASE PumpEof
      BY <2>4 DEF PumpEof, Goto
    <2>5. CASE PumpCheck
      BY <2>5 DEF PumpCheck, Goto
    <2>6. CASE PumpReap
      BY <2>6 DEF PumpReap, Goto
    <2> QED BY <1>4, <2>1, <2>2, <2>3, <2>4, <2>5, <2>6 DEF Pumping
  <1>5. CASE Bridge
    BY <1>5 DEF Bridge, Goto
  <1>6. CASE FarEnd
    BY <1>6 DEF FarEnd, FarSends, FarEnds, FarExits
  <1>7. CASE Calling
    <2>1. CASE NextEvent
      BY <2>1 DEF NextEvent, CallerIdle
    <2>2. CASE \E n \in 1..MaxChunks : Read(n)
      BY <2>2 DEF Read, CallerIdle
    <2>3. CASE Resize
      BY <2>3 DEF Resize, CallerIdle, FarSizeAfter
    <2>4. CASE WriteFails
      BY <2>4 DEF WriteFails, CallerIdle, Goto
    <2>5. CASE EmitWriteError
      <3>1. UNCHANGED <<closed, filed, kind, seen, sessState, fin, once>>
        BY <2>5 DEF EmitWriteError
      <3>2. ended' = ended /\ state' = state /\ (closed => err' = err)
            /\ (~closed => err' # "none")
        BY <2>5, ReasonRecorded DEF EmitWriteError, Errors
      <3>3. pc'["dial"] = pc["dial"]
        BY <2>5 DEF EmitWriteError, Goto
      <3> QED BY <3>1, <3>2, <3>3
    <2>6. CASE Close
      BY <2>6 DEF Close, CallerIdle, Goto
    <2> QED BY <1>7, <2>1, <2>2, <2>3, <2>4, <2>5, <2>6 DEF Calling
  <1>8. CASE Closing
    <2>1. CASE CloseHandler
      BY <2>1 DEF CloseHandler, Goto
    <2>2. CASE CloseBuffer
      BY <2>2 DEF CloseBuffer, Goto
    <2>3. CASE CloseNotifier
      BY <2>3 DEF CloseNotifier, Goto
    <2>4. CASE MarkClosing("caller")
      BY <2>4 DEF MarkClosing, Goto
    <2>5. CASE CloseLink("caller")
      BY <2>5 DEF CloseLink, Goto
    <2> QED BY <1>8, <2>1, <2>2, <2>3, <2>4, <2>5 DEF Closing
  <1>9. CASE UNCHANGED vars
    BY <1>9 DEF vars
  <1> QED BY <1>1, <1>2, <1>3, <1>4, <1>5, <1>6, <1>7, <1>8, <1>9 DEF Next,
         Library

(* The five together, with the handle's own invariant, are inductive.      *)
StoryInv == FiledInv /\ EndInv /\ VerdictInv /\ ReasonInv /\ ToldInv

LEMMA InitStory == Init => StoryInv
  <1> SUFFICES ASSUME Init PROVE StoryInv
    OBVIOUS
  <1>1. FiledInv /\ VerdictInv
    BY DEF Init, NoFinish, FiledInv, VerdictInv
  <1>2. EndInv /\ ReasonInv
    BY DEF Init, NoFinish, EndInv, ReasonInv
  <1>3. ToldInv
    BY DEF Init, NoFinish, ToldInv
  <1> QED BY <1>1, <1>2, <1>3 DEF StoryInv

LEMMA StoryStep == TypeOK /\ HandleInv /\ StoryInv /\ [Next]_vars => StoryInv'
  <1> SUFFICES ASSUME TypeOK, HandleInv, StoryInv, [Next]_vars PROVE StoryInv'
    OBVIOUS
  <1>1. Shape /\ Sorts /\ state \in States /\ ended \in BOOLEAN
    BY TypeShape DEF TypeOK, Sorts
  <1> QED BY <1>1, FiledStep, EndStep, VerdictStep, ReasonStep, ToldStep DEF StoryInv

LEMMA StoryInvariance == Spec => [](TypeOK /\ HandleInv /\ StoryInv)
  BY Invariance, InitStory, StoryStep, PTL DEF Spec

(* However the dial, the pump, the bridge and the callers interleave, a    *)
(* handle that shows failed can say why, and once the session is over and  *)
(* the dial goroutine has gone it shows the state the session came to      *)
(* (capi/dial.go adopt, transport/session.go finish).                      *)
THEOREM StoryHolds == Spec => []StoryIsTrue
  <1>1. StoryInv => StoryIsTrue
    BY DEF StoryInv, FiledInv, ReasonInv, ToldInv, StoryIsTrue, ReasonBeforeVerdict,
           StoryIsSettled
  <1> QED BY <1>1, StoryInvariance, PTL

-----------------------------------------------------------------------------
(* What arrives before there is anybody to take it.  Once the remembered   *)
(* geometry has been applied no older one replaces it.                     *)
SizeInv ==
  filed /\ pc["dial"] # "pending" /\ linkUp /\ kind # "serial" => farSize >= resize

(* The log stays open as long as the read loop may still feed it: without  *)
(* a failed write, only the loop's own last read or a close ends it.       *)
LogInv ==
  /\ pc["dial"] \in {"unlink", "finish"} => closing
  /\ pc["caller"] \in {"unlink", "finish"} => closing
  /\ pc["dial"] \in {"connect", "login"} => logOpen
  /\ pc["pump"] \in {"read", "append"} => readErr = "none"
  /\ readErr # "none" => chunk = 0
  /\ pc["pump"] = "none" => taken = 0 /\ logged = {} /\ readErr = "none"

FedInv ==
  writeFailures = 0 /\ ~closing =>
    /\ built /\ ~logOpen => once = "done"
    /\ once # "fresh" \/ backendEnd # "open" => readErr # "none"
    /\ IF pc["pump"] = "tap" /\ chunk # 0
       THEN taken = chunk /\ logged = 1..(chunk - 1)
       ELSE logged = 1..taken

Counts == /\ taken \in Nat /\ chunk \in Nat /\ farSize \in Nat /\ resize \in Nat
          /\ asked \in Nat /\ resize <= asked /\ writeFailures \in Nat

LEMMA SizeStep ==
  ASSUME Shape, Counts, HandleInv, SizeInv, [Next]_vars
  PROVE  SizeInv'
  <1> USE DEF Shape, Counts, HandleInv, CloseInv, DialInv, SizeInv, handleVars,
         bufVars, baseVars, logVars, linkVars, farVars, callVars, localVars,
         wakeVars
  <1>1. CASE Waking
    BY <1>1 DEF Waking, PokeLock, PokeWake, NotifyLock, NotifyWake
  <1>2. CASE Finishing
    <2>1. ASSUME NEW t \in Threads, BeginFinish(t) PROVE SizeInv'
      BY <2>1 DEF BeginFinish, FinishArg, Verdict
    <2>2. ASSUME NEW t \in Threads, FinishReturns(t) PROVE SizeInv'
      BY <2>2 DEF FinishReturns, AfterFinish, Goto
    <2>3. CASE FinishError
      BY <2>3 DEF FinishError, OnEvent
    <2>4. CASE FinishState
      BY <2>4 DEF FinishState, Verdict
    <2>5. CASE FinishEmit
      BY <2>5 DEF FinishEmit, OnEvent, Verdict
    <2>6. CASE FinishClose
      BY <2>6 DEF FinishClose, NoFinish
    <2> QED BY <1>2, <2>1, <2>2, <2>3, <2>4, <2>5, <2>6 DEF Finishing
  <1>3. CASE Dialing
    <2>1. CASE DialAuthenticating
      BY <2>1 DEF DialAuthenticating, Publish, Goto
    <2>2. CASE DialFails
      BY <2>2 DEF DialFails, Goto
    <2>3. CASE FailDial
      BY <2>3 DEF FailDial, Goto
    <2>4. CASE DialConnects
      BY <2>4, ConnectMoves, ConnectKeeps
    <2>5. CASE Adopt
      <3>1. CASE closed
        BY <2>5, <3>1, AdoptMoves, AdoptKeeps
      <3>2. CASE ~closed
        BY <2>5, <3>2, AdoptMoves, AdoptKeeps
      <3> QED BY <3>1, <3>2
    <2>6. CASE ApplyPending
      BY <2>6 DEF ApplyPending, FarSizeAfter, Goto
    <2>7. CASE ReadState
      BY <2>7 DEF ReadState, Goto
    <2>8. CASE PublishSeen
      BY <2>8 DEF PublishSeen, Publish, Goto
    <2>9. CASE MarkClosing("dial")
      BY <2>9 DEF MarkClosing, Goto
    <2>10. CASE CloseLink("dial")
      BY <2>10 DEF CloseLink, Goto
    <2> QED BY <1>3, <2>1, <2>2, <2>3, <2>4, <2>5, <2>6, <2>7, <2>8, <2>9,
           <2>10 DEF Dialing
  <1>4. CASE Pumping
    <2>1. CASE PumpRead
      BY <2>1 DEF PumpRead, ReadReturns, Goto
    <2>2. CASE PumpTap
      BY <2>2 DEF PumpTap, Goto
    <2>3. CASE PumpAppend
      <3>1. pc["pump"] = "append" /\ pc'["pump"] \in {"read", "check"}
        BY <2>3 DEF PumpAppend, Goto
      <3>2. pc'["dial"] = pc["dial"] /\ pc'["caller"] = pc["caller"] /\ pc'["bridge"] = pc["bridge"]
        <4>1. \E l \in Labels : pc' = [pc EXCEPT !["pump"] = l]
          BY <2>3 DEF PumpAppend, Goto, Labels
        <4> QED BY <4>1, OnlyMover
      <3>3. UNCHANGED <<kind, closing, closed, filed, built, logOpen, logged, once, fin, readErr,
                        chunk, taken, backendEnd, linkUp, farSize, resize, writeFailures>>
        BY <2>3 DEF PumpAppend
      <3> QED BY <3>1, <3>2, <3>3
    <2>4. CASE PumpEof
      BY <2>4 DEF PumpEof, Goto
    <2>5. CASE PumpCheck
      BY <2>5 DEF PumpCheck, Goto
    <2>6. CASE PumpReap
      BY <2>6 DEF PumpReap, Goto
    <2> QED BY <1>4, <2>1, <2>2, <2>3, <2>4, <2>5, <2>6 DEF Pumping
  <1>5. CASE Bridge
    BY <1>5 DEF Bridge, Goto
  <1>6. CASE FarEnd
    BY <1>6 DEF FarEnd, FarSends, FarEnds, FarExits
  <1>7. CASE Calling
    <2>1. CASE NextEvent
      BY <2>1 DEF NextEvent, CallerIdle
    <2>2. CASE \E n \in 1..MaxChunks : Read(n)
      BY <2>2 DEF Read, CallerIdle
    <2>3. CASE Resize
      BY <2>3 DEF Resize, CallerIdle, FarSizeAfter
    <2>4. CASE WriteFails
      BY <2>4 DEF WriteFails, CallerIdle, Goto
    <2>5. CASE EmitWriteError
      BY <2>5 DEF EmitWriteError, OnEvent, Goto
    <2>6. CASE Close
      BY <2>6 DEF Close, CallerIdle, Goto
    <2> QED BY <1>7, <2>1, <2>2, <2>3, <2>4, <2>5, <2>6 DEF Calling
  <1>8. CASE Closing
    BY <1>8 DEF Closing, CloseHandler, Goto, CloseBuffer, CloseNotifier,
           MarkClosing, CloseLink
  <1>9. CASE UNCHANGED vars
    BY <1>9 DEF vars
  <1> QED BY <1>1, <1>2, <1>3, <1>4, <1>5, <1>6, <1>7, <1>8, <1>9 DEF Next,
         Library

LEMMA LogStep ==
  ASSUME Shape, Counts, HandleInv, FiledInv, LogInv, [Next]_vars
  PROVE  LogInv'
  <1> USE DEF Shape, Counts, HandleInv, DialInv, CloseInv, FinishInv, FiledInv,
         LogInv, handleVars, bufVars, baseVars, logVars, linkVars, farVars,
         callVars, localVars, wakeVars
  <1>1. CASE Waking
    BY <1>1 DEF Waking, PokeLock, PokeWake, NotifyLock, NotifyWake
  <1>2. CASE Finishing
    <2>1. ASSUME NEW t \in Threads, BeginFinish(t) PROVE LogInv'
      BY <2>1 DEF BeginFinish, FinishArg, Verdict
    <2>2. ASSUME NEW t \in Threads, FinishReturns(t) PROVE LogInv'
      BY <2>2 DEF FinishReturns, AfterFinish, Goto
    <2>3. CASE FinishError
      BY <2>3 DEF FinishError, OnEvent
    <2>4. CASE FinishState
      BY <2>4 DEF FinishState, Verdict
    <2>5. CASE FinishEmit
      BY <2>5 DEF FinishEmit, OnEvent, Verdict
    <2>6. CASE FinishClose
      BY <2>6 DEF FinishClose, NoFinish
    <2> QED BY <1>2, <2>1, <2>2, <2>3, <2>4, <2>5, <2>6 DEF Finishing
  <1>3. CASE Dialing
    <2>1. CASE DialAuthenticating
      BY <2>1 DEF DialAuthenticating, Publish, Goto
    <2>2. CASE DialFails
      BY <2>2 DEF DialFails, Goto
    <2>3. CASE FailDial
      BY <2>3 DEF FailDial, Goto
    <2>4. CASE DialConnects
      BY <2>4, ConnectMoves, ConnectKeeps
    <2>5. CASE Adopt
      <3>1. CASE closed
        BY <2>5, <3>1, AdoptMoves, AdoptKeeps
      <3>2. CASE ~closed
        BY <2>5, <3>2, AdoptMoves, AdoptKeeps
      <3> QED BY <3>1, <3>2
    <2>6. CASE ApplyPending
      BY <2>6 DEF ApplyPending, FarSizeAfter, Goto
    <2>7. CASE ReadState
      BY <2>7 DEF ReadState, Goto
    <2>8. CASE PublishSeen
      BY <2>8 DEF PublishSeen, Publish, Goto
    <2>9. CASE MarkClosing("dial")
      BY <2>9 DEF MarkClosing, Goto
    <2>10. CASE CloseLink("dial")
      BY <2>10 DEF CloseLink, Goto
    <2> QED BY <1>3, <2>1, <2>2, <2>3, <2>4, <2>5, <2>6, <2>7, <2>8, <2>9,
           <2>10 DEF Dialing
  <1>4. CASE Pumping
    <2>1. CASE PumpRead
      BY <2>1 DEF PumpRead, ReadReturns, Goto
    <2>2. CASE PumpTap
      BY <2>2 DEF PumpTap, Goto
    <2>3. CASE PumpAppend
      <3>1. pc["pump"] = "append" /\ pc'["pump"] \in {"read", "check"}
        BY <2>3 DEF PumpAppend, Goto
      <3>2. pc'["dial"] = pc["dial"] /\ pc'["caller"] = pc["caller"] /\ pc'["bridge"] = pc["bridge"]
        <4>1. \E l \in Labels : pc' = [pc EXCEPT !["pump"] = l]
          BY <2>3 DEF PumpAppend, Goto, Labels
        <4> QED BY <4>1, OnlyMover
      <3>3. UNCHANGED <<kind, closing, closed, filed, built, logOpen, logged, once, fin, readErr,
                        chunk, taken, backendEnd, linkUp, farSize, resize, writeFailures>>
        BY <2>3 DEF PumpAppend
      <3> QED BY <3>1, <3>2, <3>3
    <2>4. CASE PumpEof
      BY <2>4 DEF PumpEof, Goto
    <2>5. CASE PumpCheck
      BY <2>5 DEF PumpCheck, Goto
    <2>6. CASE PumpReap
      BY <2>6 DEF PumpReap, Goto
    <2> QED BY <1>4, <2>1, <2>2, <2>3, <2>4, <2>5, <2>6 DEF Pumping
  <1>5. CASE Bridge
    BY <1>5 DEF Bridge, Goto
  <1>6. CASE FarEnd
    BY <1>6 DEF FarEnd, FarSends, FarEnds, FarExits
  <1>7. CASE Calling
    <2>1. CASE NextEvent
      BY <2>1 DEF NextEvent, CallerIdle
    <2>2. CASE \E n \in 1..MaxChunks : Read(n)
      BY <2>2 DEF Read, CallerIdle
    <2>3. CASE Resize
      BY <2>3 DEF Resize, CallerIdle, FarSizeAfter
    <2>4. CASE WriteFails
      BY <2>4 DEF WriteFails, CallerIdle, Goto
    <2>5. CASE EmitWriteError
      BY <2>5 DEF EmitWriteError, OnEvent, Goto
    <2>6. CASE Close
      BY <2>6 DEF Close, CallerIdle, Goto
    <2> QED BY <1>7, <2>1, <2>2, <2>3, <2>4, <2>5, <2>6 DEF Calling
  <1>8. CASE Closing
    <2>1. CASE CloseHandler
      BY <2>1 DEF CloseHandler, Goto
    <2>2. CASE CloseBuffer
      BY <2>2 DEF CloseBuffer, Goto
    <2>3. CASE CloseNotifier
      BY <2>3 DEF CloseNotifier, Goto
    <2>4. CASE MarkClosing("caller")
      BY <2>4 DEF MarkClosing, Goto
    <2>5. CASE CloseLink("caller")
      BY <2>5 DEF CloseLink, Goto
    <2> QED BY <1>8, <2>1, <2>2, <2>3, <2>4, <2>5 DEF Closing
  <1>9. CASE UNCHANGED vars
    BY <1>9 DEF vars
  <1> QED BY <1>1, <1>2, <1>3, <1>4, <1>5, <1>6, <1>7, <1>8, <1>9 DEF Next,
         Library

LEMMA FedStep ==
  ASSUME Shape, Sorts, Counts, HandleInv, FiledInv, EndInv, LogInv, FedInv, [Next]_vars
  PROVE  FedInv'
  <1> USE DEF Shape, Sorts, Counts, HandleInv, DialInv, FinishInv, CloseInv,
         FiledInv, EndInv, LogInv, FedInv, handleVars, bufVars, baseVars,
         logVars, linkVars, farVars, callVars, localVars, wakeVars
  <1>1. CASE Waking
    BY <1>1 DEF Waking, PokeLock, PokeWake, NotifyLock, NotifyWake
  <1>2. CASE Finishing
    <2>1. ASSUME NEW t \in Threads, BeginFinish(t) PROVE FedInv'
      BY <2>1 DEF BeginFinish, FinishArg, Verdict
    <2>2. ASSUME NEW t \in Threads, FinishReturns(t) PROVE FedInv'
      BY <2>2 DEF FinishReturns, AfterFinish, Goto
    <2>3. CASE FinishError
      BY <2>3 DEF FinishError, OnEvent
    <2>4. CASE FinishState
      BY <2>4 DEF FinishState, Verdict
    <2>5. CASE FinishEmit
      BY <2>5 DEF FinishEmit, OnEvent, Verdict
    <2>6. CASE FinishClose
      BY <2>6 DEF FinishClose, NoFinish
    <2> QED BY <1>2, <2>1, <2>2, <2>3, <2>4, <2>5, <2>6 DEF Finishing
  <1>3. CASE Dialing
    <2>1. CASE DialAuthenticating
      BY <2>1 DEF DialAuthenticating, Publish, Goto
    <2>2. CASE DialFails
      BY <2>2 DEF DialFails, Goto
    <2>3. CASE FailDial
      BY <2>3 DEF FailDial, Goto
    <2>4. CASE DialConnects
      BY <2>4, ConnectMoves, ConnectKeeps
    <2>5. CASE Adopt
      <3>1. CASE closed
        BY <2>5, <3>1, AdoptMoves, AdoptKeeps
      <3>2. CASE ~closed
        BY <2>5, <3>2, AdoptMoves, AdoptKeeps
      <3> QED BY <3>1, <3>2
    <2>6. CASE ApplyPending
      BY <2>6 DEF ApplyPending, FarSizeAfter, Goto
    <2>7. CASE ReadState
      BY <2>7 DEF ReadState, Goto
    <2>8. CASE PublishSeen
      BY <2>8 DEF PublishSeen, Publish, Goto
    <2>9. CASE MarkClosing("dial")
      BY <2>9 DEF MarkClosing, Goto
    <2>10. CASE CloseLink("dial")
      BY <2>10 DEF CloseLink, Goto
    <2> QED BY <1>3, <2>1, <2>2, <2>3, <2>4, <2>5, <2>6, <2>7, <2>8, <2>9,
           <2>10 DEF Dialing
  <1>4. CASE Pumping
    <2>1. CASE PumpRead
      BY <2>1 DEF PumpRead, ReadReturns, Goto
    <2>2. CASE PumpTap
      <3>1. UNCHANGED <<writeFailures, closing, built, logOpen, once, backendEnd, readErr,
                        chunk, taken>>
        BY <2>2 DEF PumpTap
      <3>2. pc["pump"] = "tap" /\ pc'["pump"] = (IF readErr = "none" THEN "append" ELSE "finish")
        BY <2>2 DEF PumpTap, Goto
      <3>3. CASE ~(writeFailures = 0 /\ ~closing)
        BY <3>1, <3>3
      <3>4. CASE writeFailures = 0 /\ ~closing /\ chunk = 0
        <4>1. logged' = logged
          BY <2>2, <3>4 DEF PumpTap
        <4> QED BY <3>1, <3>2, <3>4, <4>1
      <3>5. CASE writeFailures = 0 /\ ~closing /\ chunk # 0
        <4>1. readErr = "none" /\ built /\ logOpen
          BY <3>2, <3>5
        <4>2. logged' = (1..(chunk - 1)) \cup {chunk}
          BY <2>2, <3>2, <3>5, <4>1 DEF PumpTap
        <4>3. (1..(chunk - 1)) \cup {chunk} = 1..chunk
          BY <3>5
        <4> QED BY <3>1, <3>2, <3>5, <4>1, <4>2, <4>3
      <3> QED BY <3>3, <3>4, <3>5
    <2>3. CASE PumpAppend
      <3>1. pc["pump"] = "append" /\ pc'["pump"] \in {"read", "check"}
        BY <2>3 DEF PumpAppend, Goto
      <3>2. pc'["dial"] = pc["dial"] /\ pc'["caller"] = pc["caller"] /\ pc'["bridge"] = pc["bridge"]
        <4>1. \E l \in Labels : pc' = [pc EXCEPT !["pump"] = l]
          BY <2>3 DEF PumpAppend, Goto, Labels
        <4> QED BY <4>1, OnlyMover
      <3>3. UNCHANGED <<kind, closing, closed, filed, built, logOpen, logged, once, fin, readErr,
                        chunk, taken, backendEnd, linkUp, farSize, resize, writeFailures>>
        BY <2>3 DEF PumpAppend
      <3> QED BY <3>1, <3>2, <3>3
    <2>4. CASE PumpEof
      BY <2>4 DEF PumpEof, Goto
    <2>5. CASE PumpCheck
      BY <2>5 DEF PumpCheck, Goto
    <2>6. CASE PumpReap
      BY <2>6 DEF PumpReap, Goto
    <2> QED BY <1>4, <2>1, <2>2, <2>3, <2>4, <2>5, <2>6 DEF Pumping
  <1>5. CASE Bridge
    BY <1>5 DEF Bridge, Goto
  <1>6. CASE FarEnd
    BY <1>6 DEF FarEnd, FarSends, FarEnds, FarExits
  <1>7. CASE Calling
    <2>1. CASE NextEvent
      BY <2>1 DEF NextEvent, CallerIdle
    <2>2. CASE \E n \in 1..MaxChunks : Read(n)
      BY <2>2 DEF Read, CallerIdle
    <2>3. CASE Resize
      BY <2>3 DEF Resize, CallerIdle, FarSizeAfter
    <2>4. CASE WriteFails
      BY <2>4 DEF WriteFails, CallerIdle, Goto
    <2>5. CASE EmitWriteError
      BY <2>5 DEF EmitWriteError, OnEvent, Goto
    <2>6. CASE Close
      BY <2>6 DEF Close, CallerIdle, Goto
    <2> QED BY <1>7, <2>1, <2>2, <2>3, <2>4, <2>5, <2>6 DEF Calling
  <1>8. CASE Closing
    <2>1. CASE CloseHandler
      BY <2>1 DEF CloseHandler, Goto
    <2>2. CASE CloseBuffer
      BY <2>2 DEF CloseBuffer, Goto
    <2>3. CASE CloseNotifier
      BY <2>3 DEF CloseNotifier, Goto
    <2>4. CASE MarkClosing("caller")
      BY <2>4 DEF MarkClosing, Goto
    <2>5. CASE CloseLink("caller")
      BY <2>5 DEF CloseLink, Goto
    <2> QED BY <1>8, <2>1, <2>2, <2>3, <2>4, <2>5 DEF Closing
  <1>9. CASE UNCHANGED vars
    BY <1>9 DEF vars
  <1> QED BY <1>1, <1>2, <1>3, <1>4, <1>5, <1>6, <1>7, <1>8, <1>9 DEF Next,
         Library

LEMMA CountsStep == TypeOK /\ Counts /\ [Next]_vars => Counts'
  <1> SUFFICES ASSUME TypeOK, Counts, [Next]_vars PROVE Counts'
    OBVIOUS
  <1>1. taken' \in Nat /\ chunk' \in Nat /\ farSize' \in Nat /\ writeFailures' \in Nat
    BY NextType DEF TypeOK
  <1>2. resize' \in Nat /\ asked' \in Nat /\ resize' <= asked'
    <2>1. CASE Resize
      BY <2>1 DEF Resize, Counts
    <2>2. CASE ~Resize
      <3>1. UNCHANGED <<resize, asked>>
        BY <2>2 DEF Next, Library, vars, handleVars, callVars, Waking, PokeLock, PokeWake,
           NotifyLock, NotifyWake, Finishing, BeginFinish, FinishReturns, FinishError,
           FinishState, FinishEmit, FinishClose, Dialing, DialAuthenticating, DialFails,
           FailDial, DialConnects, Adopt, ApplyPending, ReadState, PublishSeen, MarkClosing,
           CloseLink, Pumping, PumpRead, PumpTap, PumpAppend, PumpEof, PumpCheck, PumpReap,
           Bridge, FarEnd, FarSends, FarEnds, FarExits, Calling, NextEvent, Read, WriteFails,
           EmitWriteError, Close, Closing, CloseHandler, CloseBuffer, CloseNotifier
      <3> QED BY <3>1 DEF Counts
    <2> QED BY <2>1, <2>2
  <1> QED BY <1>1, <1>2 DEF Counts

ForgetInv == Counts /\ SizeInv /\ LogInv /\ FedInv

LEMMA InitForget == Init => ForgetInv
  BY DEF Init, NoFinish, ForgetInv, Counts, SizeInv, LogInv, FedInv

LEMMA ForgetStep ==
  TypeOK /\ HandleInv /\ StoryInv /\ ForgetInv /\ [Next]_vars => ForgetInv'
  <1> SUFFICES ASSUME TypeOK, HandleInv, StoryInv, ForgetInv, [Next]_vars PROVE ForgetInv'
    OBVIOUS
  <1>1. Shape /\ Sorts
    BY TypeShape DEF TypeOK, Sorts
  <1> QED BY <1>1, CountsStep, SizeStep, LogStep, FedStep DEF StoryInv, ForgetInv

LEMMA ForgetInvariance == Spec => [](TypeOK /\ HandleInv /\ StoryInv /\ ForgetInv)
  BY StoryInvariance, InitForget, ForgetStep, PTL DEF Spec

(* A size asked for while the dial is still on is applied: once the dial   *)
(* goroutine has gone, the far end of a live session has the size that was *)
(* remembered or one asked for later (capi/dial.go adopt).                 *)
THEOREM SizeIsApplied == Spec => []RememberedSizeApplied
  <1>1. ForgetInv => RememberedSizeApplied
    BY DEF ForgetInv, SizeInv, RememberedSizeApplied
  <1> QED BY <1>1, ForgetInvariance, PTL

(* What was sent to a handle before anybody could take it is not lost: the *)
(* size is applied and, as long as no write has failed and nobody closes,  *)
(* whatever the pump has read is in the log (transport/session.go Read,    *)
(* finish).                                                                *)
THEOREM NothingIsForgotten == Spec => [](writeFailures = 0 => NothingForgotten)
  <1>1. ForgetInv => (writeFailures = 0 => NothingForgotten)
    BY DEF ForgetInv, SizeInv, FedInv, NothingForgotten, RememberedSizeApplied, LogIsComplete
  <1> QED BY <1>1, ForgetInvariance, PTL
-----------------------------------------------------------------------------
(* The far end as the pump has seen it: it reads to the end before it      *)
(* reports one, and a session in use has its link.                         *)
ReadInv ==
  /\ filed /\ ~closed => linkUp
  /\ pc["dial"] = "adopt" => linkUp
  /\ bufClosed => closed
  /\ ~built => wireEnd = "up" /\ sent = 0 /\ taken = 0
  /\ taken <= sent
  /\ eof => pc["pump"] \in {"check", "reap", "done"}
  /\ reaped => pc["pump"] = "done"
  /\ pc["pump"] \in {"none", "read", "append"} => readErr = "none"
  /\ pc["pump"] \in {"tap", "append"} /\ chunk # 0 => chunk = taken
  /\ pc["pump"] \in {"tap", "append"} => (readErr = "none" <=> chunk # 0)
  /\ ~closed /\ pc["pump"] \in {"finish", "eof", "check", "reap", "done"} => readErr # "none"
  /\ ~closed /\ readErr # "none" => wireEnd # "up" /\ taken = sent

(* The exit code the pump reaped is the channel's final word.              *)
ExitInv ==
  /\ exitStatus # "pending" => kind = "ssh" /\ wireEnd # "up"
  /\ reaped /\ ~closed => /\ kind = "ssh" => exitStatus # "pending"
                          /\ exitStatus = "status" => exitCode = "status"

Tallies == sent \in Nat /\ taken \in Nat /\ chunk \in Nat
Exits   == exitStatus \in {"pending", "status", "missing"} /\ kind \in {"ssh", "telnet", "serial"}

LEMMA ReadStep ==
  ASSUME Shape, Sorts, Tallies, HandleInv, FiledInv, ReadInv, [Next]_vars
  PROVE  ReadInv'
  <1> USE DEF Shape, Sorts, Tallies, HandleInv, CloseInv, DialInv, FiledInv,
         ReadInv, handleVars, bufVars, baseVars, logVars, linkVars, farVars,
         callVars, localVars, wakeVars
  <1>1. CASE Waking
    BY <1>1 DEF Waking, PokeLock, PokeWake, NotifyLock, NotifyWake
  <1>2. CASE Finishing
    <2>1. ASSUME NEW t \in Threads, BeginFinish(t) PROVE ReadInv'
      BY <2>1 DEF BeginFinish, FinishArg, Verdict
    <2>2. ASSUME NEW t \in Threads, FinishReturns(t) PROVE ReadInv'
      BY <2>2 DEF FinishReturns, AfterFinish, Goto
    <2>3. CASE FinishError
      BY <2>3 DEF FinishError, OnEvent
    <2>4. CASE FinishState
      BY <2>4 DEF FinishState, Verdict
    <2>5. CASE FinishEmit
      BY <2>5 DEF FinishEmit, OnEvent, Verdict
    <2>6. CASE FinishClose
      BY <2>6 DEF FinishClose, NoFinish
    <2> QED BY <1>2, <2>1, <2>2, <2>3, <2>4, <2>5, <2>6 DEF Finishing
  <1>3. CASE Dialing
    <2>1. CASE DialAuthenticating
      BY <2>1 DEF DialAuthenticating, Publish, Goto
    <2>2. CASE DialFails
      BY <2>2 DEF DialFails, Goto
    <2>3. CASE FailDial
      BY <2>3 DEF FailDial, Goto
    <2>4. CASE DialConnects
      BY <2>4, ConnectMoves, ConnectKeeps
    <2>5. CASE Adopt
      <3>1. CASE closed
        BY <2>5, <3>1, AdoptMoves, AdoptKeeps
      <3>2. CASE ~closed
        BY <2>5, <3>2, AdoptMoves, AdoptKeeps
      <3> QED BY <3>1, <3>2
    <2>6. CASE ApplyPending
      BY <2>6 DEF ApplyPending, FarSizeAfter, Goto
    <2>7. CASE ReadState
      BY <2>7 DEF ReadState, Goto
    <2>8. CASE PublishSeen
      BY <2>8 DEF PublishSeen, Publish, Goto
    <2>9. CASE MarkClosing("dial")
      BY <2>9 DEF MarkClosing, Goto
    <2>10. CASE CloseLink("dial")
      BY <2>10 DEF CloseLink, Goto
    <2> QED BY <1>3, <2>1, <2>2, <2>3, <2>4, <2>5, <2>6, <2>7, <2>8, <2>9,
           <2>10 DEF Dialing
  <1>4. CASE Pumping
    <2>1. CASE PumpRead
      BY <2>1 DEF PumpRead, ReadReturns, Goto
    <2>2. CASE PumpTap
      BY <2>2 DEF PumpTap, Goto
    <2>3. CASE PumpAppend
      <3>1. pc["pump"] = "append" /\ pc'["pump"] \in {"read", "check"}
            /\ (pc'["pump"] = "check" => bufClosed)
        BY <2>3 DEF PumpAppend, Goto
      <3>2. pc'["dial"] = pc["dial"]
        <4>1. \E l \in Labels : pc' = [pc EXCEPT !["pump"] = l]
          BY <2>3 DEF PumpAppend, Goto, Labels
        <4> QED BY <4>1, OnlyMover
      <3>3. UNCHANGED <<kind, closed, filed, built, reaped, eof, bufClosed, linkUp, wireEnd,
                        sent, taken, readErr, chunk, exitStatus, exitCode>>
        BY <2>3 DEF PumpAppend
      <3> QED BY <3>1, <3>2, <3>3
    <2>4. CASE PumpEof
      BY <2>4 DEF PumpEof, Goto
    <2>5. CASE PumpCheck
      BY <2>5 DEF PumpCheck, Goto
    <2>6. CASE PumpReap
      BY <2>6 DEF PumpReap, Goto
    <2> QED BY <1>4, <2>1, <2>2, <2>3, <2>4, <2>5, <2>6 DEF Pumping
  <1>5. CASE Bridge
    BY <1>5 DEF Bridge, Goto
  <1>6. CASE FarEnd
    <2>1. CASE FarSends
      BY <2>1 DEF FarSends
    <2>2. CASE FarEnds
      BY <2>2 DEF FarEnds
    <2>3. CASE FarExits
      BY <2>3 DEF FarExits
    <2> QED BY <1>6, <2>1, <2>2, <2>3 DEF FarEnd
  <1>7. CASE Calling
    <2>1. CASE NextEvent
      BY <2>1 DEF NextEvent, CallerIdle
    <2>2. CASE \E n \in 1..MaxChunks : Read(n)
      BY <2>2 DEF Read, CallerIdle
    <2>3. CASE Resize
      BY <2>3 DEF Resize, CallerIdle, FarSizeAfter
    <2>4. CASE WriteFails
      BY <2>4 DEF WriteFails, CallerIdle, Goto
    <2>5. CASE EmitWriteError
      BY <2>5 DEF EmitWriteError, OnEvent, Goto
    <2>6. CASE Close
      BY <2>6 DEF Close, CallerIdle, Goto
    <2> QED BY <1>7, <2>1, <2>2, <2>3, <2>4, <2>5, <2>6 DEF Calling
  <1>8. CASE Closing
    <2>1. CASE CloseHandler
      BY <2>1 DEF CloseHandler, Goto
    <2>2. CASE CloseBuffer
      BY <2>2 DEF CloseBuffer, Goto
    <2>3. CASE CloseNotifier
      BY <2>3 DEF CloseNotifier, Goto
    <2>4. CASE MarkClosing("caller")
      BY <2>4 DEF MarkClosing, Goto
    <2>5. CASE CloseLink("caller")
      BY <2>5 DEF CloseLink, Goto
    <2> QED BY <1>8, <2>1, <2>2, <2>3, <2>4, <2>5 DEF Closing
  <1>9. CASE UNCHANGED vars
    BY <1>9 DEF vars
  <1> QED BY <1>1, <1>2, <1>3, <1>4, <1>5, <1>6, <1>7, <1>8, <1>9 DEF Next,
         Library

LEMMA ExitStep ==
  ASSUME Shape, Exits, HandleInv, FiledInv, ReadInv, ExitInv, [Next]_vars
  PROVE  ExitInv'
  <1> USE DEF Shape, Exits, HandleInv, DialInv, FiledInv, ReadInv, ExitInv,
         handleVars, bufVars, baseVars, logVars, linkVars, farVars, callVars,
         localVars, wakeVars
  <1>1. CASE Waking
    BY <1>1 DEF Waking, PokeLock, PokeWake, NotifyLock, NotifyWake
  <1>2. CASE Finishing
    <2>1. ASSUME NEW t \in Threads, BeginFinish(t) PROVE ExitInv'
      BY <2>1 DEF BeginFinish, FinishArg, Verdict
    <2>2. ASSUME NEW t \in Threads, FinishReturns(t) PROVE ExitInv'
      BY <2>2 DEF FinishReturns, AfterFinish, Goto
    <2>3. CASE FinishError
      BY <2>3 DEF FinishError, OnEvent
    <2>4. CASE FinishState
      BY <2>4 DEF FinishState, Verdict
    <2>5. CASE FinishEmit
      BY <2>5 DEF FinishEmit, OnEvent, Verdict
    <2>6. CASE FinishClose
      BY <2>6 DEF FinishClose, NoFinish
    <2> QED BY <1>2, <2>1, <2>2, <2>3, <2>4, <2>5, <2>6 DEF Finishing
  <1>3. CASE Dialing
    <2>1. CASE DialAuthenticating
      BY <2>1 DEF DialAuthenticating, Publish, Goto
    <2>2. CASE DialFails
      BY <2>2 DEF DialFails, Goto
    <2>3. CASE FailDial
      BY <2>3 DEF FailDial, Goto
    <2>4. CASE DialConnects
      BY <2>4, ConnectMoves, ConnectKeeps
    <2>5. CASE Adopt
      <3>1. CASE closed
        BY <2>5, <3>1, AdoptMoves, AdoptKeeps
      <3>2. CASE ~closed
        BY <2>5, <3>2, AdoptMoves, AdoptKeeps
      <3> QED BY <3>1, <3>2
    <2>6. CASE ApplyPending
      BY <2>6 DEF ApplyPending, FarSizeAfter, Goto
    <2>7. CASE ReadState
      BY <2>7 DEF ReadState, Goto
    <2>8. CASE PublishSeen
      BY <2>8 DEF PublishSeen, Publish, Goto
    <2>9. CASE MarkClosing("dial")
      BY <2>9 DEF MarkClosing, Goto
    <2>10. CASE CloseLink("dial")
      BY <2>10 DEF CloseLink, Goto
    <2> QED BY <1>3, <2>1, <2>2, <2>3, <2>4, <2>5, <2>6, <2>7, <2>8, <2>9,
           <2>10 DEF Dialing
  <1>4. CASE Pumping
    <2>1. CASE PumpRead
      BY <2>1 DEF PumpRead, ReadReturns, Goto
    <2>2. CASE PumpTap
      BY <2>2 DEF PumpTap, Goto
    <2>3. CASE PumpAppend
      <3>1. pc["pump"] = "append" /\ pc'["pump"] \in {"read", "check"}
            /\ (pc'["pump"] = "check" => bufClosed)
        BY <2>3 DEF PumpAppend, Goto
      <3>2. pc'["dial"] = pc["dial"]
        <4>1. \E l \in Labels : pc' = [pc EXCEPT !["pump"] = l]
          BY <2>3 DEF PumpAppend, Goto, Labels
        <4> QED BY <4>1, OnlyMover
      <3>3. UNCHANGED <<kind, closed, filed, built, reaped, eof, bufClosed, linkUp, wireEnd,
                        sent, taken, readErr, chunk, exitStatus, exitCode>>
        BY <2>3 DEF PumpAppend
      <3> QED BY <3>1, <3>2, <3>3
    <2>4. CASE PumpEof
      BY <2>4 DEF PumpEof, Goto
    <2>5. CASE PumpCheck
      BY <2>5 DEF PumpCheck, Goto
    <2>6. CASE PumpReap
      BY <2>6 DEF PumpReap, Goto, ExitIsKnown
    <2> QED BY <1>4, <2>1, <2>2, <2>3, <2>4, <2>5, <2>6 DEF Pumping
  <1>5. CASE Bridge
    BY <1>5 DEF Bridge, Goto
  <1>6. CASE FarEnd
    <2>1. CASE FarSends
      BY <2>1 DEF FarSends
    <2>2. CASE FarEnds
      BY <2>2 DEF FarEnds
    <2>3. CASE FarExits
      BY <2>3 DEF FarExits
    <2> QED BY <1>6, <2>1, <2>2, <2>3 DEF FarEnd
  <1>7. CASE Calling
    <2>1. CASE NextEvent
      BY <2>1 DEF NextEvent, CallerIdle
    <2>2. CASE \E n \in 1..MaxChunks : Read(n)
      BY <2>2 DEF Read, CallerIdle
    <2>3. CASE Resize
      BY <2>3 DEF Resize, CallerIdle, FarSizeAfter
    <2>4. CASE WriteFails
      BY <2>4 DEF WriteFails, CallerIdle, Goto
    <2>5. CASE EmitWriteError
      BY <2>5 DEF EmitWriteError, OnEvent, Goto
    <2>6. CASE Close
      BY <2>6 DEF Close, CallerIdle, Goto
    <2> QED BY <1>7, <2>1, <2>2, <2>3, <2>4, <2>5, <2>6 DEF Calling
  <1>8. CASE Closing
    <2>1. CASE CloseHandler
      BY <2>1 DEF CloseHandler, Goto
    <2>2. CASE CloseBuffer
      BY <2>2 DEF CloseBuffer, Goto
    <2>3. CASE CloseNotifier
      BY <2>3 DEF CloseNotifier, Goto
    <2>4. CASE MarkClosing("caller")
      BY <2>4 DEF MarkClosing, Goto
    <2>5. CASE CloseLink("caller")
      BY <2>5 DEF CloseLink, Goto
    <2> QED BY <1>8, <2>1, <2>2, <2>3, <2>4, <2>5 DEF Closing
  <1>9. CASE UNCHANGED vars
    BY <1>9 DEF vars
  <1> QED BY <1>1, <1>2, <1>3, <1>4, <1>5, <1>6, <1>7, <1>8, <1>9 DEF Next,
         Library

-----------------------------------------------------------------------------
(* The Qt object and the library together (QtSession).  Most steps of the  *)
(* composition are steps of the handle; the three others touch little.     *)
LEMMA QtSteps ==
  [QtNext]_allVars => [Next]_vars \/ Notified \/ DrainBytes \/ WriteTurnedAway
  <1> SUFFICES ASSUME [QtNext]_allVars, ~Notified, ~DrainBytes, ~WriteTurnedAway
               PROVE  [Next]_vars
    OBVIOUS
  <1>1. CASE Library \/ Closing \/ FarEnd
    BY <1>1 DEF Next
  <1>2. CASE GuiThread
    <2>1. CASE DrainEvent
      BY <2>1 DEF DrainEvent, Next, Calling
    <2>2. CASE WriteReturns
      BY <2>2 DEF WriteReturns, Next, Calling
    <2>3. CASE CheckOver \/ TerminateQuits
      BY <2>3 DEF CheckOver, TerminateQuits, Next, Calling
    <2>4. CASE \/ StartReadsState \/ EventsDrained \/ BytesDrained
               \/ CheckAlive \/ Finished \/ Destroyed
      BY <2>4 DEF StartReadsState, EventsDrained, BytesDrained, CheckAlive, Finished, Destroyed
    <2> QED BY <1>2, <2>1, <2>2, <2>3, <2>4 DEF GuiThread, Drain
  <1>3. CASE Application
    BY <1>3 DEF Application, Terminate, Destroy, WriteRefused, ResizeCall, Next, Calling
  <1>4. CASE UNCHANGED allVars
    BY <1>4 DEF allVars
  <1> QED BY <1>1, <1>2, <1>3, <1>4 DEF QtNext

(* What those three leave alone is all that the invariants of the handle   *)
(* read.                                                                   *)
LEMMA OthersKeep ==
  ASSUME Notified \/ DrainBytes \/ WriteTurnedAway
  PROVE  UNCHANGED <<kind, handleVars, eof, bufClosed, baseVars, logVars, linkVars, farVars,
                     asked, localVars, notifyGone, poke, wake, pc>>
  <1>1. CASE Notified
    BY <1>1 DEF Notified, bufVars, callVars
  <1>2. CASE DrainBytes
    BY <1>2 DEF DrainBytes, Read, callVars, wakeVars
  <1>3. CASE WriteTurnedAway
    BY <1>3 DEF WriteTurnedAway, bufVars, wakeVars
  <1> QED BY <1>1, <1>2, <1>3

LEMMA OthersMove ==
  ASSUME TypeOK, Notified \/ DrainBytes \/ WriteTurnedAway
  PROVE  readable' \in BOOLEAN /\ buf' \in Seq(Nat) /\ writeFailures' \in Nat
  <1> USE DEF TypeOK
  <1>1. CASE Notified
    BY <1>1 DEF Notified, bufVars, callVars
  <1>2. CASE DrainBytes
    <2>1. PICK n \in 1..Len(buf) : Read(n)
      BY <1>2 DEF DrainBytes
    <2>2. buf' = SubSeq(buf, n + 1, Len(buf)) /\ UNCHANGED <<readable, writeFailures>>
      BY <2>1 DEF Read, callVars, wakeVars
    <2> QED BY <2>2
  <1>3. CASE WriteTurnedAway
    BY <1>3 DEF WriteTurnedAway, bufVars, wakeVars
  <1> QED BY <1>1, <1>2, <1>3

LEMMA QtKeepsHandle ==
  TypeOK /\ HandleInv /\ StoryInv /\ [QtNext]_allVars => (TypeOK /\ HandleInv /\ StoryInv)'
  <1> SUFFICES ASSUME TypeOK, HandleInv, StoryInv, [QtNext]_allVars
               PROVE  (TypeOK /\ HandleInv /\ StoryInv)'
    OBVIOUS
  <1>1. CASE [Next]_vars
    BY <1>1, NextType, NextInv, StoryStep
  <1>2. CASE Notified \/ DrainBytes \/ WriteTurnedAway
    <2>1. TypeOK'
      <3>1. readable' \in BOOLEAN /\ buf' \in Seq(Nat) /\ writeFailures' \in Nat
        BY <1>2, OthersMove
      <3>2. /\ UNCHANGED <<kind, state, ended, dialFailed, err, filed, resize, closed, reaped,
                           exitCode, events, eof, bufClosed, built, sessState, handler>>
            /\ UNCHANGED <<closing, once, fin, logOpen, logged, backendEnd, linkUp, sent, taken,
                           wireEnd, exitStatus, farSize, asked, chunk, readErr, seen>>
            /\ UNCHANGED <<notifyGone, poke, wake, pc>>
        BY <1>2, OthersKeep DEF handleVars, baseVars, logVars, linkVars, farVars, localVars
      <3> QED BY <3>1, <3>2 DEF TypeOK
    <2>2. HandleInv'
      BY <1>2, OthersKeep, Frame DEF invVars, handleVars, baseVars, linkVars
    <2>3. StoryInv'
      <3> USE DEF handleVars, baseVars, linkVars, farVars, localVars
      <3>1. FiledInv'
        BY <1>2, OthersKeep DEF StoryInv, FiledInv
      <3>2. EndInv'
        BY <1>2, OthersKeep DEF StoryInv, EndInv
      <3>3. VerdictInv' /\ ReasonInv'
        BY <1>2, OthersKeep DEF StoryInv, VerdictInv, ReasonInv, Verdict
      <3>4. ToldInv'
        BY <1>2, OthersKeep DEF StoryInv, ToldInv
      <3> QED BY <3>1, <3>2, <3>3, <3>4 DEF StoryInv
    <2> QED BY <2>1, <2>2, <2>3
  <1> QED BY <1>1, <1>2, QtSteps

GuiPlaces == {"starting", "idle", "events", "bytes", "check", "writing", "quit", "closing",
              "stopping", "dropping", "done", "stopped", "gone"}
Parting   == {"closing", "stopping", "dropping", "done", "stopped", "gone"}

Said == Errors \cup {"notConnected"}

(* The types of the variables of the Qt object.                            *)
QtTypeOK ==
  /\ gui \in GuiPlaces
  /\ qState \in States /\ qError \in Said \cup {"none"} /\ qExit \in {"unknown", "status"}
  /\ shown \subseteq Said /\ last \in States /\ terminating \in BOOLEAN
  /\ delivered \in Seq(Nat)

(* Where the GUI thread is and where the library sees its caller.          *)
PlaceInv ==
  /\ closed <=> gui \in Parting
  /\ gui = "writing" <=> pc["caller"] = "writeError"
  /\ closed <=> pc["caller"] \notin {"idle", "writeError"}
  /\ bufClosed \/ notifyGone => closed
  /\ gui \in {"idle", "writing", "dropping", "gone"} => ~terminating
  /\ gui \in {"quit", "stopping"} => terminating

(* What finished will report of an exit status is the final word, too.     *)
ExitTold ==
  gui \in {"closing", "done"}
    => /\ exitStatus # "pending" \/ kind # "ssh" \/ dialFailed
       /\ exitStatus = "status" => qExit = "status"

(* Work that waits in the library while the GUI thread looks elsewhere has *)
(* a wake on its way.                                                      *)
AwakeInv ==
  ~closed =>
    /\ gui = "bytes" => events = <<>> \/ WakePending
    /\ gui = "check" => (events = <<>> /\ buf = <<>>) \/ WakePending
    /\ gui \in {"idle", "writing"} => (events = <<>> /\ buf = <<>> /\ Alive) \/ WakePending

(* The newest state of the library is the newest one queued, or the one    *)
(* shown when none is queued; the errors queued after it are few enough    *)
(* not to have pushed it out.                                              *)
Newest(q, s, v, r) ==
  \/ v = s /\ \A j \in 1..Len(q) : q[j] \in Errors
  \/ \E i \in 1..Len(q) : /\ q[i] = s /\ Len(q) - i <= r
                          /\ \A j \in (i + 1)..Len(q) : q[j] \in Errors
Reasons == (IF pc["caller"] = "writeError" THEN writeFailures - 1 ELSE writeFailures)
           + (IF once = "done" \/ fin.step \in {"state", "emit", "close"} THEN 1 ELSE 0)
QueueInv ==
  /\ ~closed => Newest(events, state, qState, Reasons)
  /\ gui = "closing" => last = state
  /\ gui = "done" => qState = state
  /\ writeFailures <= MaxWriteFailures
  /\ pc["caller"] = "writeError" => writeFailures > 0

(* Until a write has failed, the only reason there is, is that of the end, *)
(* and it has been shown when a failure has.                               *)
ShownInv ==
  /\ qError \in shown \cup {"none"}
  /\ writeFailures = 0 =>
       /\ err # "writeError" /\ qError \in {"none", "endError"} /\ pc["caller"] # "writeError"
       /\ \A j \in 1..Len(events) : events[j] # "writeError"
       /\ gui = "closing" /\ last = "failed" => "endError" \in shown
       /\ gui = "done" /\ qState = "failed" => "endError" \in shown

(* What the far end has sent is delivered, in the buffer, or with the pump.*)
Passed == IF pc["pump"] \in {"tap", "append"} /\ chunk # 0 THEN taken - 1 ELSE taken
Feeds  == /\ Len(delivered) + Len(buf) = Passed
          /\ \A i \in 1..Len(buf) : buf[i] = Len(delivered) + i
DeliverInv ==
  /\ \A i \in 1..Len(delivered) : delivered[i] = i
  /\ ~closed => Feeds
  /\ gui = "closing" => (wireEnd # "up" \/ dialFailed) /\ Len(delivered) = sent

(* What the library's own threads and the rest of omegassh_close do to the *)
(* thread that calls.                                                      *)
LEMMA LibraryCalls ==
  ASSUME Shape, Library \/ FarEnd
  PROVE  /\ UNCHANGED <<closed, bufClosed, notifyGone, callVars>>
         /\ \/ pc'["caller"] = pc["caller"]
            \/ pc["caller"] = "finish" /\ pc'["caller"] = "notifyClose"
  <1> USE DEF handleVars, bufVars, wakeVars
  <1>1. CASE Waking
    BY <1>1 DEF Waking, PokeLock, PokeWake, NotifyLock, NotifyWake
  <1>2. CASE Finishing
    <2>1. CASE \E t \in Threads : FinishReturns(t)
      BY <2>1, OnlyMover DEF FinishReturns, Goto, AfterFinish
    <2>2. CASE ~(\E t \in Threads : FinishReturns(t))
      BY <1>2, <2>2 DEF Finishing, BeginFinish, FinishError, FinishState, FinishEmit, FinishClose
    <2> QED BY <2>1, <2>2
  <1>3. CASE Dialing
    <2>1. UNCHANGED <<closed, bufClosed, notifyGone, callVars>>
      BY <1>3 DEF Dialing, DialAuthenticating, DialFails, FailDial, DialConnects, Adopt,
                  ApplyPending, ReadState, PublishSeen, MarkClosing, CloseLink
    <2>2. CASE DialConnects \/ Adopt
      BY <2>1, <2>2, ConnectMoves, AdoptMoves
    <2>3. CASE ~(DialConnects \/ Adopt)
      <3>1. PICK l : pc' = [pc EXCEPT !["dial"] = l]
        BY <1>3, <2>3 DEF Dialing, DialAuthenticating, DialFails, FailDial, ApplyPending,
                          ReadState, PublishSeen, MarkClosing, CloseLink, Goto
      <3> QED BY <2>1, <3>1, OnlyMover
    <2> QED BY <2>2, <2>3
  <1>4. CASE Pumping
    <2>1. UNCHANGED <<closed, bufClosed, notifyGone, callVars>>
      BY <1>4 DEF Pumping, PumpRead, PumpTap, PumpAppend, PumpEof, PumpCheck, PumpReap
    <2>2. PICK l : pc' = [pc EXCEPT !["pump"] = l]
      BY <1>4 DEF Pumping, PumpRead, PumpTap, PumpAppend, PumpEof, PumpCheck, PumpReap, Goto
    <2> QED BY <2>1, <2>2, OnlyMover
  <1>5. CASE Bridge
    BY <1>5, OnlyMover DEF Bridge, Goto
  <1>6. CASE FarEnd
    BY <1>6 DEF FarEnd, FarSends, FarEnds, FarExits
  <1> QED BY <1>1, <1>2, <1>3, <1>4, <1>5, <1>6 DEF Library

LEMMA ClosingCalls ==
  ASSUME Shape, Closing
  PROVE  /\ UNCHANGED <<closed, callVars, handleVars, logVars, farVars, localVars, poke, wake>>
         /\ pc["caller"] \in {"detach", "bufClose", "mark", "unlink", "notifyClose"}
         /\ pc'["caller"] \in {"bufClose", "mark", "unlink", "finish", "notifyClose", "closed"}
         /\ \A t \in Threads : t # "caller" => pc'[t] = pc[t]
  <1>1. pc["caller"] \in {"detach", "bufClose", "mark", "unlink", "notifyClose"}
    BY DEF Closing, CloseHandler, CloseBuffer, CloseNotifier, MarkClosing, CloseLink
  <1>2. UNCHANGED <<closed, callVars, handleVars, logVars, farVars, localVars, poke, wake>>
    BY DEF Closing, CloseHandler, CloseBuffer, CloseNotifier, MarkClosing, CloseLink, wakeVars,
           handleVars
  <1>3. PICK l \in {"bufClose", "mark", "unlink", "finish", "notifyClose", "closed"} :
               pc' = [pc EXCEPT !["caller"] = l]
    BY DEF Closing, CloseHandler, CloseBuffer, CloseNotifier, MarkClosing, CloseLink, Goto
  <1> QED BY <1>1, <1>2, <1>3, OnlyMover

(* What omegassh_close does first, and what a failed write leaves behind.  *)
LEMMA CloseCalls ==
  ASSUME Shape, Close
  PROVE  /\ ~closed /\ closed' = TRUE /\ pc["caller"] = "idle"
         /\ pc'["caller"] \in {"detach", "bufClose"}
         /\ \A t \in Threads : t # "caller" => pc'[t] = pc[t]
         /\ UNCHANGED <<kind, state, ended, dialFailed, err, filed, reaped, exitCode, events,
                        bufVars, baseVars, linkVars, farVars, callVars, localVars, wakeVars>>
  BY OnlyMover DEF Close, CallerIdle, Goto

LEMMA ReturnCalls ==
  ASSUME Shape, EmitWriteError
  PROVE  /\ pc["caller"] = "writeError" /\ pc'["caller"] = "idle"
         /\ \A t \in Threads : t # "caller" => pc'[t] = pc[t]
         /\ UNCHANGED <<kind, dialFailed, filed, closed, reaped, exitCode, bufVars, baseVars,
                        linkVars, farVars, callVars, localVars, notifyGone, wake>>
  BY OnlyMover DEF EmitWriteError, Goto

LEMMA RefusedCalls ==
  ASSUME Shape, WriteFails
  PROVE  /\ pc["caller"] = "idle" /\ pc'["caller"] = "writeError" /\ filed
         /\ \A t \in Threads : t # "caller" => pc'[t] = pc[t]
         /\ writeFailures' = writeFailures + 1 /\ writeFailures < MaxWriteFailures
         /\ UNCHANGED <<kind, handleVars, bufVars, baseVars, linkUp, farVars, localVars, wakeVars>>
  BY OnlyMover DEF WriteFails, CallerIdle, Goto

LEMMA QtTypeStep ==
  ASSUME TypeOK, QtTypeOK, [QtNext]_allVars
  PROVE  QtTypeOK'
  <1> USE DEF QtTypeOK, GuiPlaces
  <1>1. CASE (Library \/ Closing \/ FarEnd) /\ UNCHANGED qtVars
    BY <1>1 DEF qtVars
  <1>2. CASE StartReadsState \/ EventsDrained \/ BytesDrained \/ CheckAlive \/ Finished
    BY <1>2 DEF StartReadsState, EventsDrained, BytesDrained, CheckAlive, Finished, TypeOK
  <1>3. CASE Notified \/ Destroyed \/ Terminate \/ Destroy \/ WriteRefused \/ ResizeCall
    BY <1>3 DEF Notified, Destroyed, Terminate, Destroy, WriteRefused, ResizeCall, qtVars
  <1>4. CASE DrainEvent
    BY <1>4 DEF DrainEvent, Say, Said
  <1>5. CASE DrainBytes
    <2>1. buf \in Seq(Nat)
      BY DEF TypeOK
    <2>2. delivered' \in Seq(Nat)
      BY <1>5, <2>1 DEF DrainBytes
    <2> QED BY <1>5, <2>2 DEF DrainBytes
  <1>6. CASE CheckOver \/ TerminateQuits
    BY <1>6 DEF CheckOver, TerminateQuits, Say, Said, TypeOK, States
  <1>7. CASE WriteTurnedAway \/ WriteReturns
    BY <1>7 DEF WriteTurnedAway, WriteReturns, Say, Said, Errors
  <1>8. CASE UNCHANGED allVars
    BY <1>8 DEF allVars, qtVars
  <1> QED BY <1>1, <1>2, <1>3, <1>4, <1>5, <1>6, <1>7, <1>8
          DEF QtNext, GuiThread, Drain, Application

LEMMA PlaceStep ==
  ASSUME Shape, HandleInv, QtTypeOK, PlaceInv, [QtNext]_allVars
  PROVE  PlaceInv'
  <1> USE DEF PlaceInv, Parting, CloseInv, HandleInv, handleVars, bufVars, wakeVars
  <1>1. CASE (Library \/ FarEnd) /\ UNCHANGED qtVars
    BY <1>1, LibraryCalls DEF qtVars
  <1>2. CASE Closing /\ UNCHANGED qtVars
    BY <1>2, ClosingCalls DEF qtVars
  <1>3. CASE StartReadsState \/ EventsDrained \/ BytesDrained \/ CheckAlive
    BY <1>3 DEF StartReadsState, EventsDrained, BytesDrained, CheckAlive, vars
  <1>4. CASE Finished \/ Destroyed \/ Terminate
    BY <1>4 DEF Finished, Destroyed, Terminate, vars
  <1>5. CASE Notified \/ DrainBytes \/ WriteTurnedAway
    <2>1. UNCHANGED <<closed, bufClosed, notifyGone, pc>>
      BY <1>5, OthersKeep
    <2>2. terminating' = terminating /\ (gui' = gui \/ (gui = "idle" /\ gui' = "events"))
      BY <1>5 DEF Notified, DrainBytes, WriteTurnedAway
    <2> QED BY <2>1, <2>2
  <1>6. CASE DrainEvent
    BY <1>6 DEF DrainEvent, NextEvent
  <1>7. CASE CheckOver \/ TerminateQuits \/ Destroy
    <2>1. Close
      BY <1>7 DEF CheckOver, TerminateQuits, Destroy
    <2>2. /\ gui' \in {"closing", "stopping", "dropping"} /\ terminating' = terminating
          /\ gui' = "dropping" => gui = "idle"
          /\ gui' = "stopping" => gui = "quit"
      BY <1>7 DEF CheckOver, TerminateQuits, Destroy
    <2>3. /\ closed' = TRUE /\ UNCHANGED <<bufClosed, notifyGone>>
          /\ pc'["caller"] \in {"detach", "bufClose"}
      BY <2>1, CloseCalls
    <2> QED BY <2>2, <2>3
  <1>8. CASE WriteRefused
    BY <1>8, RefusedCalls DEF WriteRefused
  <1>9. CASE WriteReturns
    BY <1>9, ReturnCalls DEF WriteReturns
  <1>10. CASE ResizeCall
    BY <1>10 DEF ResizeCall, Resize, qtVars
  <1>11. CASE UNCHANGED allVars
    BY <1>11 DEF allVars, vars, qtVars
  <1> QED BY <1>1, <1>2, <1>3, <1>4, <1>5, <1>6, <1>7, <1>8, <1>9, <1>10, <1>11
          DEF QtNext, GuiThread, Drain, Application

-----------------------------------------------------------------------------
(* No step of the library makes work without leaving a wake behind it, and *)
(* none takes a wake back from a handle in use.                            *)
LEMMA WakeLeft ==
  ASSUME Shape, HandleInv, StoryInv, ReadInv, PlaceInv, ~closed, Library \/ FarEnd
  PROVE  \/ WakePending'
         \/ ~WakePending /\ UNCHANGED <<events, buf>> /\ (Alive => Alive')
  <1> USE DEF Shape, WakePending, handleVars, bufVars, wakeVars
  <1>0. ~bufClosed /\ ~notifyGone
    BY DEF PlaceInv
  <1>1. CASE Waking
    <2>1. CASE \E t \in Threads : PokeLock(t)
      <3>1. PICK t \in Threads : PokeLock(t)
        BY <2>1
      <3>2. poke' = [poke EXCEPT ![t] = "held"]
        BY <1>0, <3>1 DEF PokeLock
      <3>3. poke'[t] = "held"
        BY <3>2
      <3> QED BY <3>3
    <2>2. CASE \E t \in Threads : PokeWake(t)
      BY <2>2 DEF PokeWake
    <2>3. CASE NotifyLock
      BY <1>0, <2>3 DEF NotifyLock
    <2>4. CASE NotifyWake
      BY <2>4 DEF NotifyWake
    <2> QED BY <1>1, <2>1, <2>2, <2>3, <2>4 DEF Waking
  <1>2. CASE Finishing
    <2>1. CASE FinishError \/ FinishEmit
      <3>1. UNCHANGED <<closed, dialFailed, filed, reaped, buf, eof, readable, wake>>
        BY <2>1 DEF FinishError, FinishEmit
      <3>2. PICK ev : OnEvent(fin.by, ev)
        BY <2>1 DEF FinishError, FinishEmit
      <3>3. fin.by \in Threads
        BY <2>1 DEF FinishError, FinishEmit, StoryInv, VerdictInv
      <3> QED BY <3>1, <3>2, <3>3 DEF OnEvent, Alive
    <2>2. CASE ~(FinishError \/ FinishEmit)
      <3>1. UNCHANGED <<handleVars, bufVars, readable, wake, poke>>
        BY <1>2, <2>2 DEF Finishing, BeginFinish, FinishReturns, FinishState, FinishClose
      <3> QED BY <3>1 DEF Alive
    <2> QED BY <2>1, <2>2
  <1>3. CASE Dialing
    <2>1. CASE DialAuthenticating \/ PublishSeen
      <3>1. UNCHANGED <<closed, dialFailed, filed, reaped, buf, eof, readable, wake>>
        BY <2>1 DEF DialAuthenticating, PublishSeen
      <3>2. PICK s : Publish("dial", s)
        BY <2>1 DEF DialAuthenticating, PublishSeen
      <3> QED BY <3>1, <3>2 DEF Publish, Alive
    <2>2. CASE FailDial
      BY <2>2 DEF FailDial
    <2>3. CASE Adopt
      <3>1. UNCHANGED <<closed, dialFailed, reaped, events, buf, eof, readable, wake, poke>>
        BY <2>3, AdoptKeeps
      <3>2. ~eof
        BY <2>3, AdoptMoves DEF ReadInv, StoryInv, FiledInv
      <3> QED BY <3>1, <3>2 DEF Alive
    <2>4. CASE ~(DialAuthenticating \/ PublishSeen \/ FailDial \/ Adopt)
      <3>1. UNCHANGED <<handleVars, bufVars, readable, wake, poke>>
        BY <1>3, <2>4 DEF Dialing, DialFails, DialConnects, ApplyPending, ReadState,
                          MarkClosing, CloseLink
      <3> QED BY <3>1 DEF Alive
    <2> QED BY <2>1, <2>2, <2>3, <2>4
  <1>4. CASE Pumping
    <2>1. CASE PumpAppend \/ PumpEof
      BY <1>0, <2>1 DEF PumpAppend, PumpEof
    <2>2. CASE PumpReap
      <3>1. poke' = [poke EXCEPT !["pump"] = "want"]
        BY <2>2 DEF PumpReap
      <3> QED BY <3>1
    <2>3. CASE PumpRead \/ PumpTap \/ PumpCheck
      <3>1. UNCHANGED <<handleVars, bufVars, readable, wake, poke>>
        BY <2>3 DEF PumpRead, PumpTap, PumpCheck
      <3> QED BY <3>1 DEF Alive
    <2> QED BY <1>4, <2>1, <2>2, <2>3 DEF Pumping
  <1>5. CASE Bridge \/ FarEnd
    <2>1. UNCHANGED <<handleVars, bufVars, readable, wake, poke>>
      BY <1>5 DEF Bridge, FarEnd, FarSends, FarEnds, FarExits
    <2> QED BY <2>1 DEF Alive
  <1> QED BY <1>1, <1>2, <1>3, <1>4, <1>5 DEF Library

(* Closing is for good, and only omegassh_close closes.                    *)
LEMMA StaysOpen ==
  ASSUME Shape, HandleInv, QtTypeOK, PlaceInv, [QtNext]_allVars, ~closed'
  PROVE  ~closed
  <1>1. PlaceInv'
    BY PlaceStep
  <1> SUFFICES ASSUME closed PROVE FALSE
    OBVIOUS
  <1>2. gui \in Parting /\ gui' \notin Parting
    BY <1>1 DEF PlaceInv
  <1> USE DEF Parting
  <1>3. CASE (Library \/ Closing \/ FarEnd) /\ UNCHANGED qtVars
    BY <1>2, <1>3 DEF qtVars
  <1>4. CASE GuiThread
    BY <1>2, <1>4 DEF GuiThread, Drain, StartReadsState, Notified, DrainEvent, EventsDrained,
       DrainBytes, BytesDrained, CheckAlive, CheckOver, TerminateQuits, Finished, WriteReturns,
       Destroyed
  <1>5. CASE Application
    BY <1>2, <1>5 DEF Application, Terminate, Destroy, WriteTurnedAway, WriteRefused, ResizeCall
  <1>6. CASE UNCHANGED allVars
    BY <1>2, <1>6 DEF allVars, qtVars
  <1> QED BY <1>3, <1>4, <1>5, <1>6 DEF QtNext

LEMMA AwakeStep ==
  ASSUME TypeOK, HandleInv, StoryInv, QtTypeOK, PlaceInv, ReadInv, AwakeInv, [QtNext]_allVars
  PROVE  AwakeInv'
  <1>1. SUFFICES ASSUME ~closed' PROVE AwakeInv'
    BY DEF AwakeInv
  <1>2. Shape
    BY TypeShape
  <1>3. ~closed
    BY <1>1, <1>2, StaysOpen
  <1> USE DEF AwakeInv
  <1>4. CASE (Library \/ FarEnd) /\ UNCHANGED qtVars
    <2>1. CASE WakePending'
      BY <2>1
    <2>2. CASE ~WakePending /\ UNCHANGED <<events, buf>> /\ (Alive => Alive')
      <3>1. gui' = gui
        BY <1>4 DEF qtVars
      <3> QED BY <1>3, <2>2, <3>1
    <2> QED BY <1>2, <1>3, <1>4, <2>1, <2>2, WakeLeft
  <1>5. CASE Closing /\ UNCHANGED qtVars
    BY <1>1, <1>2, <1>3, <1>5, ClosingCalls DEF HandleInv, CloseInv
  <1>6. CASE StartReadsState \/ EventsDrained \/ BytesDrained \/ CheckAlive
    <2>1. UNCHANGED vars
      BY <1>6 DEF StartReadsState, EventsDrained, BytesDrained, CheckAlive
    <2>2. UNCHANGED <<events, buf>> /\ WakePending' = WakePending /\ Alive' = Alive
      BY <2>1 DEF vars, handleVars, bufVars, wakeVars, WakePending, Alive
    <2>3. \/ gui' = "events" \/ (events = <<>> /\ gui' = "bytes")
          \/ (gui = "bytes" /\ buf = <<>> /\ gui' = "check")
          \/ (gui = "check" /\ (Alive \/ buf # <<>>) /\ gui' \in {"idle", "quit"})
      BY <1>6 DEF StartReadsState, EventsDrained, BytesDrained, CheckAlive, Over
    <2> QED BY <1>3, <2>2, <2>3
  <1>7. CASE Notified \/ Terminate
    BY <1>7 DEF Notified, Terminate
  <1>8. CASE DrainEvent
    BY <1>8 DEF DrainEvent
  <1>9. CASE DrainBytes
    <2>1. gui = "bytes" /\ gui' = "bytes"
      BY <1>9 DEF DrainBytes
    <2>2. UNCHANGED <<events, readable, wake, poke>>
      BY <1>9 DEF DrainBytes, Read, handleVars, wakeVars
    <2> QED BY <1>3, <2>1, <2>2 DEF WakePending
  <1>10. CASE WriteTurnedAway \/ ResizeCall
    <2>1. gui = "idle" /\ gui' = "idle"
      BY <1>10 DEF WriteTurnedAway, ResizeCall, qtVars
    <2>2. UNCHANGED <<events, buf, readable, wake, poke, closed, dialFailed, filed, eof, reaped>>
      BY <1>10 DEF WriteTurnedAway, ResizeCall, Resize, handleVars, bufVars, wakeVars
    <2> QED BY <1>3, <2>1, <2>2 DEF WakePending, Alive
  <1>11. CASE WriteRefused
    <2>1. gui = "idle" /\ gui' = "writing" /\ WriteFails
      BY <1>11 DEF WriteRefused
    <2>2. UNCHANGED <<events, buf, readable, wake, poke, closed, dialFailed, filed, eof, reaped>>
      BY <1>2, <2>1, RefusedCalls DEF handleVars, bufVars, wakeVars
    <2> QED BY <1>3, <2>1, <2>2 DEF WakePending, Alive
  <1>12. CASE WriteReturns
    <2>1. gui = "writing" /\ gui' = "idle" /\ EmitWriteError
      BY <1>12 DEF WriteReturns
    <2>2. UNCHANGED <<buf, wake, closed, dialFailed, filed, eof, reaped>>
      BY <1>2, <2>1, ReturnCalls DEF bufVars
    <2>3. readable' = readable
      BY <2>1 DEF EmitWriteError
    <2>4. CASE UNCHANGED <<events, poke>>
      BY <1>3, <2>1, <2>2, <2>3, <2>4 DEF WakePending, Alive
    <2>5. CASE ~UNCHANGED <<events, poke>>
      <3>1. poke' = [poke EXCEPT !["caller"] = "want"]
        BY <2>1, <2>5 DEF EmitWriteError, OnEvent
      <3>2. WakePending'
        BY <1>2, <3>1 DEF WakePending, Shape
      <3> QED BY <3>2
    <2> QED BY <2>4, <2>5
  <1>13. CASE Destroyed \/ Finished \/ CheckOver \/ TerminateQuits \/ Destroy
    BY <1>13 DEF Destroyed, Finished, CheckOver, TerminateQuits, Destroy
  <1>14. CASE UNCHANGED allVars
    <2>1. UNCHANGED <<gui, events, buf>> /\ WakePending' = WakePending /\ Alive' = Alive
      BY <1>14 DEF allVars, vars, qtVars, handleVars, bufVars, wakeVars, WakePending, Alive
    <2> QED BY <1>3, <2>1
  <1> QED BY <1>4, <1>5, <1>6, <1>7, <1>8, <1>9, <1>10, <1>11, <1>12, <1>13, <1>14
          DEF QtNext, GuiThread, Drain, Application

LEMMA ExitToldStep ==
  ASSUME Shape, HandleInv, StoryInv, ReadInv, ExitInv, QtTypeOK, PlaceInv, ExitTold,
         [QtNext]_allVars
  PROVE  ExitTold'
  <1> USE DEF ExitTold
  <1>1. CASE (Library \/ Closing \/ FarEnd) /\ UNCHANGED qtVars
    <2>1. UNCHANGED <<gui, qExit>>
      BY <1>1 DEF qtVars
    <2>2. CASE FarExits
      <3>1. kind = "ssh" /\ wireEnd # "up" /\ exitStatus = "pending"
        BY <2>2 DEF FarExits
      <3>2. ~dialFailed
        BY <3>1 DEF ReadInv, HandleInv, DialInv
      <3> QED BY <2>1, <3>1, <3>2
    <2>3. CASE ~FarExits
      <3>1. UNCHANGED <<kind, exitStatus>> /\ (dialFailed => dialFailed')
        BY <1>1, <2>3 DEF Library, Waking, PokeLock, PokeWake, NotifyLock, NotifyWake, Finishing,
           BeginFinish, FinishReturns, FinishError, FinishState, FinishEmit, FinishClose,
           Dialing, DialAuthenticating, DialFails, FailDial, DialConnects, Adopt, ApplyPending,
           ReadState, PublishSeen, MarkClosing, CloseLink, Pumping, PumpRead, PumpTap,
           PumpAppend, PumpEof, PumpCheck, PumpReap, Bridge, FarEnd, FarSends, FarEnds,
           Closing, CloseHandler, CloseBuffer, CloseNotifier, handleVars, farVars
      <3> QED BY <2>1, <3>1
    <2> QED BY <2>2, <2>3
  <1>2. CASE CheckOver
    <2>1. Close /\ ~Alive /\ gui' = "closing" /\ qExit' = exitCode
      BY <1>2 DEF CheckOver, Over
    <2>2. ~closed /\ UNCHANGED <<kind, exitStatus, dialFailed>>
      BY <2>1, CloseCalls DEF farVars
    <2>3. CASE dialFailed
      <3>1. exitStatus = "pending"
        BY <2>3 DEF HandleInv, DialInv, ReadInv, ExitInv
      <3> QED BY <2>1, <2>2, <2>3, <3>1
    <2>4. CASE reaped
      BY <2>1, <2>2, <2>4 DEF ExitInv
    <2> QED BY <2>1, <2>2, <2>3, <2>4 DEF Alive
  <1>3. CASE Finished
    BY <1>3 DEF Finished, vars, farVars, handleVars
  <1>4. CASE \/ StartReadsState \/ Notified \/ DrainEvent \/ EventsDrained \/ DrainBytes
             \/ BytesDrained \/ CheckAlive \/ TerminateQuits \/ WriteReturns \/ Destroyed
             \/ Application
    <2>1. gui' \notin {"closing", "done"}
      BY <1>4 DEF StartReadsState, Notified, DrainEvent, EventsDrained, DrainBytes, BytesDrained,
         CheckAlive, TerminateQuits, WriteReturns, Destroyed, Application, Terminate, Destroy,
         WriteTurnedAway, WriteRefused, ResizeCall, qtVars
    <2> QED BY <2>1
  <1>5. CASE UNCHANGED allVars
    BY <1>5 DEF allVars, vars, qtVars, farVars, handleVars
  <1> QED BY <1>1, <1>2, <1>3, <1>4, <1>5 DEF QtNext, GuiThread, Drain

LEMMA FeedStep ==
  ASSUME Shape, Tallies, HandleInv, StoryInv, ReadInv, PlaceInv, delivered \in Seq(Nat),
         buf \in Seq(Nat), ~closed, Feeds, UNCHANGED delivered, Library \/ FarEnd
  PROVE  Feeds'
  <1> USE DEF Shape, Tallies, Feeds, Passed, bufVars, farVars, localVars
  <1>1. CASE Waking \/ Bridge \/ FarEnd
    <2>1. UNCHANGED <<buf, chunk, taken>> /\ pc'["pump"] = pc["pump"]
      BY <1>1 DEF Waking, PokeLock, PokeWake, NotifyLock, NotifyWake, Bridge, Goto, FarEnd,
         FarSends, FarEnds, FarExits
    <2> QED BY <2>1
  <1>2. CASE Finishing
    <2>1. UNCHANGED <<buf, chunk, taken>>
      BY <1>2 DEF Finishing, BeginFinish, FinishReturns, FinishError, FinishState, FinishEmit,
         FinishClose
    <2>2. pc'["pump"] = pc["pump"] \/ (pc["pump"] = "finish" /\ pc'["pump"] = "eof")
      BY <1>2 DEF Finishing, BeginFinish, FinishReturns, FinishError, FinishState, FinishEmit,
         FinishClose, Goto, AfterFinish
    <2> QED BY <2>1, <2>2
  <1>3. CASE Dialing
    <2>1. UNCHANGED <<buf, chunk, taken>>
      BY <1>3 DEF Dialing, DialAuthenticating, DialFails, FailDial, DialConnects, Adopt,
         ApplyPending, ReadState, PublishSeen, MarkClosing, CloseLink
    <2>2. CASE DialConnects
      BY <2>1, <2>2, ConnectMoves
    <2>3. CASE Adopt
      BY <1>3, <2>1, <2>3, AdoptMoves DEF StoryInv, FiledInv
    <2>4. CASE ~(DialConnects \/ Adopt)
      <3>1. PICK l : pc' = [pc EXCEPT !["dial"] = l]
        BY <1>3, <2>4 DEF Dialing, DialAuthenticating, DialFails, FailDial, ApplyPending,
                          ReadState, PublishSeen, MarkClosing, CloseLink, Goto
      <3> QED BY <2>1, <3>1, OnlyMover
    <2> QED BY <2>2, <2>3, <2>4
  <1>4. CASE PumpRead
    <2>1. pc["pump"] = "read" /\ pc'["pump"] = "tap" /\ buf' = buf
      BY <1>4, OnlyMover DEF PumpRead, Goto
    <2>2. \/ chunk' = taken + 1 /\ taken' = taken + 1
          \/ chunk' = 0 /\ taken' = taken
      BY <1>4 DEF PumpRead, ReadReturns
    <2> QED BY <2>1, <2>2
  <1>5. CASE PumpTap
    <2>1. pc["pump"] = "tap" /\ UNCHANGED <<buf, chunk, taken>>
      BY <1>5 DEF PumpTap
    <2>2. pc'["pump"] = (IF chunk # 0 THEN "append" ELSE "finish")
      BY <1>5, OnlyMover DEF PumpTap, Goto, ReadInv
    <2> QED BY <2>1, <2>2
  <1>6. CASE PumpAppend
    <2>1. pc["pump"] = "append" /\ pc'["pump"] = "read" /\ UNCHANGED <<chunk, taken>>
      BY <1>6, OnlyMover DEF PumpAppend, Goto, PlaceInv
    <2>2. buf' = Append(buf, chunk)
      BY <1>6 DEF PumpAppend, PlaceInv
    <2>3. chunk # 0 /\ chunk = taken
      BY <2>1 DEF ReadInv
    <2>4. chunk = Len(delivered) + Len(buf) + 1
      BY <2>1, <2>3
    <2> HIDE DEF Passed
    <2>5. Passed' = taken
      BY <2>1 DEF Passed
    <2>6. Len(buf') = Len(buf) + 1
      BY <2>2
    <2>7. ASSUME NEW i \in 1..Len(buf') PROVE buf'[i] = Len(delivered) + i
      <3>1. i <= Len(buf) => buf'[i] = buf[i]
        BY <2>2, <2>6
      <3>2. i = Len(buf) + 1 => buf'[i] = chunk
        BY <2>2
      <3>3. Len(buf) \in Nat /\ (i \in 1..Len(buf) \/ i = Len(buf) + 1)
        BY <2>6
      <3>4. i \in 1..Len(buf) => buf[i] = Len(delivered) + i
        BY DEF Feeds
      <3>5. CASE i \in 1..Len(buf)
        BY <3>1, <3>3, <3>4, <3>5
      <3>6. CASE i = Len(buf) + 1
        BY <2>4, <3>2, <3>3, <3>6
      <3> QED BY <3>3, <3>5, <3>6
    <2>8. Len(delivered') + Len(buf') = Passed'
      <3>1. Len(delivered) \in Nat /\ Len(buf) \in Nat /\ delivered' = delivered
        OBVIOUS
      <3>2. Len(delivered') = Len(delivered)
        BY <3>1
      <3>3. Len(delivered) + Len(buf') = taken
        BY <2>3, <2>4, <2>6, <3>1
      <3> QED BY <2>5, <3>2, <3>3
    <2> QED BY <2>7, <2>8 DEF Feeds
  <1>7. CASE PumpEof \/ PumpCheck \/ PumpReap
    <2>1. UNCHANGED <<buf, chunk, taken>>
      BY <1>7 DEF PumpEof, PumpCheck, PumpReap
    <2>2. pc["pump"] \notin {"tap", "append"} /\ pc'["pump"] \notin {"tap", "append"}
      BY <1>7, OnlyMover DEF PumpEof, PumpCheck, PumpReap, Goto
    <2> QED BY <2>1, <2>2
  <1> QED BY <1>1, <1>2, <1>3, <1>4, <1>5, <1>6, <1>7 DEF Library, Pumping

LEMMA DeliverStep ==
  ASSUME TypeOK, HandleInv, StoryInv, ReadInv, QtTypeOK, PlaceInv, DeliverInv, [QtNext]_allVars
  PROVE  DeliverInv'
  <1>0. Shape /\ Tallies /\ buf \in Seq(Nat) /\ delivered \in Seq(Nat)
    BY TypeShape DEF TypeOK, Tallies, QtTypeOK
  <1> USE DEF DeliverInv
  <1>1. CASE (Library \/ FarEnd) /\ UNCHANGED qtVars
    <2>1. UNCHANGED <<gui, delivered>>
      BY <1>1 DEF qtVars
    <2>2. ~closed' => Feeds'
      BY <1>0, <1>1, <2>1, FeedStep, LibraryCalls
    <2>3. gui = "closing" => UNCHANGED <<wireEnd, sent>> /\ (dialFailed => dialFailed')
      <3>1. CASE FarEnd
        <4>1. gui = "closing" => wireEnd # "up" \/ ~linkUp
          BY DEF HandleInv, DialInv
        <4> QED BY <3>1, <4>1 DEF FarEnd, FarSends, FarEnds, FarExits, handleVars
      <3>2. CASE Library
        BY <3>2 DEF Library, Waking, PokeLock, PokeWake, NotifyLock, NotifyWake, Finishing,
           BeginFinish, FinishReturns, FinishError, FinishState, FinishEmit, FinishClose,
           Dialing, DialAuthenticating, DialFails, FailDial, DialConnects, Adopt, ApplyPending,
           ReadState, PublishSeen, MarkClosing, CloseLink, Pumping, PumpRead, PumpTap,
           PumpAppend, PumpEof, PumpCheck, PumpReap, Bridge, handleVars, farVars
      <3> QED BY <1>1, <3>1, <3>2
    <2> QED BY <2>1, <2>2, <2>3
  <1>2. CASE Closing /\ UNCHANGED qtVars
    <2>1. UNCHANGED <<gui, delivered, wireEnd, sent, dialFailed, closed>> /\ closed
      BY <1>0, <1>2, ClosingCalls DEF qtVars, farVars, handleVars, HandleInv, CloseInv
    <2> QED BY <2>1
  <1>3. CASE \/ StartReadsState \/ EventsDrained \/ BytesDrained \/ CheckAlive \/ Finished
             \/ Destroyed \/ Terminate
    <2>1. gui' # "closing" /\ UNCHANGED <<vars, delivered>>
      BY <1>3 DEF StartReadsState, EventsDrained, BytesDrained, CheckAlive, Finished, Destroyed,
         Terminate
    <2>2. UNCHANGED <<buf, closed, pc, chunk, taken>>
      BY <2>1 DEF vars, bufVars, handleVars, localVars, farVars
    <2> QED BY <2>1, <2>2 DEF Feeds, Passed
  <1>4. CASE DrainBytes
    <2>1. gui' # "closing" /\ UNCHANGED <<closed, pc, chunk, taken>>
      BY <1>4, OthersKeep DEF DrainBytes, localVars, farVars, handleVars
    <2>2. PICK n \in 1..Len(buf) :
                /\ buf' = SubSeq(buf, n + 1, Len(buf))
                /\ delivered' = delivered \o SubSeq(buf, 1, n)
      BY <1>4 DEF DrainBytes, Read
    <2>3. /\ Len(buf') = Len(buf) - n
          /\ \A i \in 1..(Len(buf) - n) : buf'[i] = buf[n + i]
      BY <1>0, <2>2
    <2>4. /\ Len(SubSeq(buf, 1, n)) = n
          /\ \A i \in 1..n : SubSeq(buf, 1, n)[i] = buf[i]
          /\ SubSeq(buf, 1, n) \in Seq(Nat)
      BY <1>0
    <2>5. /\ Len(delivered') = Len(delivered) + n
          /\ \A i \in 1..Len(delivered) : delivered'[i] = delivered[i]
          /\ \A i \in 1..n : delivered'[Len(delivered) + i] = buf[i]
      BY <1>0, <2>2, <2>4
    <2>6. ~closed
      BY <1>4 DEF DrainBytes, PlaceInv, Parting
    <2>7. ASSUME NEW i \in 1..Len(delivered') PROVE delivered'[i] = i
      <3>1. CASE i <= Len(delivered)
        <4>1. i \in 1..Len(delivered)
          BY <1>0, <2>5, <3>1
        <4> QED BY <2>5, <4>1
      <3>2. CASE i > Len(delivered)
        <4>1. i - Len(delivered) \in 1..n /\ i = Len(delivered) + (i - Len(delivered))
          BY <1>0, <2>5, <3>2
        <4>2. delivered'[i] = buf[i - Len(delivered)]
          BY <2>5, <4>1
        <4> QED BY <1>0, <2>6, <4>1, <4>2 DEF Feeds
      <3> QED BY <1>0, <2>5, <3>1, <3>2
    <2>8. Feeds'
      <3>1. Passed' = Passed
        BY <2>1 DEF Passed
      <3>2. ASSUME NEW i \in 1..Len(buf') PROVE buf'[i] = Len(delivered') + i
        <4>1. n + i \in 1..Len(buf) /\ buf'[i] = buf[n + i]
          BY <1>0, <2>3
        <4> QED BY <1>0, <2>5, <2>6, <4>1 DEF Feeds
      <3>3. Len(delivered') + Len(buf') = Passed
        BY <1>0, <2>3, <2>5, <2>6 DEF Feeds
      <3> QED BY <3>1, <3>2, <3>3 DEF Feeds
    <2> QED BY <2>1, <2>7, <2>8
  <1>5. CASE CheckOver
    <2>1. Close /\ ~Alive /\ buf = <<>> /\ delivered' = delivered
      BY <1>5 DEF CheckOver, Over
    <2>2. ~closed /\ closed' /\ UNCHANGED <<wireEnd, sent, dialFailed>>
      BY <1>0, <2>1, CloseCalls DEF farVars
    <2>3. Len(delivered) = Passed
      BY <1>0, <2>1, <2>2 DEF Feeds
    <2>4. CASE dialFailed
      <3>1. ~built /\ pc["pump"] = "none"
        BY <2>4 DEF HandleInv, DialInv
      <3>2. sent = 0 /\ Passed = 0
        BY <3>1 DEF ReadInv, Passed
      <3> QED BY <2>1, <2>2, <2>3, <2>4, <3>2
    <2>5. CASE reaped
      <3>1. pc["pump"] = "done" /\ wireEnd # "up" /\ taken = sent
        BY <2>2, <2>5 DEF ReadInv
      <3> QED BY <2>1, <2>2, <2>3, <3>1 DEF Passed
    <2> QED BY <2>1, <2>2, <2>4, <2>5 DEF Alive
  <1>6. CASE TerminateQuits \/ Destroy
    <2>1. Close /\ gui' # "closing" /\ delivered' = delivered
      BY <1>6 DEF TerminateQuits, Destroy
    <2> QED BY <1>0, <2>1, CloseCalls
  <1>7. CASE Notified \/ WriteTurnedAway
    <2>1. gui' # "closing" /\ delivered' = delivered /\ buf' = buf
      BY <1>7 DEF Notified, WriteTurnedAway, bufVars
    <2>2. UNCHANGED <<closed, pc, chunk, taken>>
      BY <1>7, OthersKeep DEF localVars, farVars, handleVars
    <2> QED BY <2>1, <2>2 DEF Feeds, Passed
  <1>8. CASE DrainEvent \/ WriteRefused \/ WriteReturns \/ ResizeCall
    <2>1. gui' # "closing" /\ delivered' = delivered
      BY <1>8 DEF DrainEvent, WriteRefused, WriteReturns, ResizeCall, qtVars
    <2>2. NextEvent \/ WriteFails \/ EmitWriteError \/ Resize
      BY <1>8 DEF DrainEvent, WriteRefused, WriteReturns, ResizeCall
    <2>3. UNCHANGED <<closed, buf, chunk, taken>>
      BY <2>2 DEF NextEvent, WriteFails, EmitWriteError, Resize, bufVars, handleVars, localVars,
         farVars
    <2>4. pc'["pump"] = pc["pump"]
      BY <1>0, <2>2, RefusedCalls, ReturnCalls DEF NextEvent, Resize
    <2> QED BY <2>1, <2>3, <2>4 DEF Feeds, Passed
  <1>9. CASE UNCHANGED allVars
    BY <1>9 DEF allVars, vars, qtVars, bufVars, handleVars, localVars, farVars, Feeds, Passed
  <1> QED BY <1>1, <1>2, <1>3, <1>4, <1>5, <1>6, <1>7, <1>8, <1>9
          DEF QtNext, GuiThread, Drain, Application

(* What recording does to the newest state: a state becomes it, an error   *)
(* leaves it where it was as long as there is room, and taking one event   *)
(* hands it on to the one who takes it.                                    *)
LEMMA StateQueued ==
  ASSUME NEW q \in Seq(Events), NEW s \in States, NEW v, NEW r \in Nat
  PROVE  Newest(QueueLocked(q, s), s, v, r)
  <1> DEFINE w == IF Len(q) >= MaxQueuedEvents THEN Tail(q) ELSE q
  <1>1. w \in Seq(Events)
    OBVIOUS
  <1>2. QueueLocked(q, s) = Append(w, s)
    BY DEF QueueLocked
  <1> HIDE DEF w
  <1>3. /\ Len(Append(w, s)) = Len(w) + 1 /\ Len(w) \in Nat
        /\ Append(w, s)[Len(w) + 1] = s
    BY <1>1
  <1>4. Len(w) + 1 \in 1..Len(Append(w, s)) /\ Len(Append(w, s)) - (Len(w) + 1) <= r
    BY <1>3
  <1>5. \A j \in (Len(w) + 1 + 1)..Len(Append(w, s)) : Append(w, s)[j] \in Errors
    BY <1>3
  <1> QED BY <1>2, <1>3, <1>4, <1>5 DEF Newest

LEMMA ErrorAppended ==
  ASSUME NEW q \in Seq(Events), NEW e \in Errors, NEW s, NEW v, NEW r \in Nat,
         Newest(q, s, v, r)
  PROVE  Newest(Append(q, e), s, v, r + 1)
  <1>1. /\ Len(Append(q, e)) = Len(q) + 1 /\ Len(q) \in Nat
        /\ \A j \in 1..Len(q) : Append(q, e)[j] = q[j]
        /\ Append(q, e)[Len(q) + 1] = e
    OBVIOUS
  <1>2. CASE v = s /\ \A j \in 1..Len(q) : q[j] \in Errors
    <2>1. \A j \in 1..Len(Append(q, e)) : Append(q, e)[j] \in Errors
      BY <1>1, <1>2
    <2> QED BY <1>2, <2>1 DEF Newest
  <1>3. CASE \E i \in 1..Len(q) : /\ q[i] = s /\ Len(q) - i <= r
                                  /\ \A j \in (i + 1)..Len(q) : q[j] \in Errors
    <2>1. PICK i \in 1..Len(q) : /\ q[i] = s /\ Len(q) - i <= r
                                 /\ \A j \in (i + 1)..Len(q) : q[j] \in Errors
      BY <1>3
    <2>2. i \in 1..Len(Append(q, e)) /\ Append(q, e)[i] = s /\ Len(Append(q, e)) - i <= r + 1
      BY <1>1, <2>1
    <2>3. \A j \in (i + 1)..Len(Append(q, e)) : Append(q, e)[j] \in Errors
      BY <1>1, <2>1
    <2> QED BY <2>2, <2>3 DEF Newest
  <1> QED BY <1>2, <1>3 DEF Newest

LEMMA OldestDropped ==
  ASSUME NEW q \in Seq(Events), q # <<>>, NEW s \in States, NEW v, NEW r \in Nat,
         Newest(q, s, v, r)
  PROVE  /\ Head(q) \in States => Newest(Tail(q), s, Head(q), r)
         /\ Head(q) \notin States => Newest(Tail(q), s, v, r)
         /\ Len(q) - 1 > r => Newest(Tail(q), s, v, r)
  <1>1. /\ Len(q) \in Nat \ {0} /\ Len(Tail(q)) = Len(q) - 1 /\ Head(q) = q[1]
        /\ \A j \in 1..(Len(q) - 1) : Tail(q)[j] = q[j + 1]
    OBVIOUS
  <1>2. \A x \in Errors : x \notin States
    BY DEF Errors, States
  <1>3. CASE v = s /\ \A j \in 1..Len(q) : q[j] \in Errors
    <2>1. Head(q) \notin States
      BY <1>1, <1>2, <1>3
    <2>2. \A j \in 1..Len(Tail(q)) : Tail(q)[j] \in Errors
      BY <1>1, <1>3
    <2> QED BY <1>3, <2>1, <2>2 DEF Newest
  <1>4. CASE \E i \in 1..Len(q) : /\ q[i] = s /\ Len(q) - i <= r
                                  /\ \A j \in (i + 1)..Len(q) : q[j] \in Errors
    <2>1. PICK i \in 1..Len(q) : /\ q[i] = s /\ Len(q) - i <= r
                                 /\ \A j \in (i + 1)..Len(q) : q[j] \in Errors
      BY <1>4
    <2>2. CASE i = 1
      <3>1. Head(q) = s /\ ~(Len(q) - 1 > r)
        BY <1>1, <2>1, <2>2
      <3>2. \A j \in 1..Len(Tail(q)) : Tail(q)[j] \in Errors
        BY <1>1, <2>1, <2>2
      <3> QED BY <3>1, <3>2 DEF Newest
    <2>3. CASE i # 1
      <3>1. i - 1 \in 1..Len(Tail(q)) /\ Tail(q)[i - 1] = s /\ Len(Tail(q)) - (i - 1) <= r
        BY <1>1, <2>1, <2>3
      <3>2. \A j \in (i - 1 + 1)..Len(Tail(q)) : Tail(q)[j] \in Errors
        BY <1>1, <2>1, <2>3
      <3>3. \A u : Newest(Tail(q), s, u, r)
        BY <3>1, <3>2 DEF Newest
      <3> QED BY <3>3
    <2> QED BY <2>2, <2>3
  <1> QED BY <1>3, <1>4 DEF Newest

LEMMA ErrorQueued ==
  ASSUME NEW q \in Seq(Events), Len(q) <= MaxQueuedEvents, NEW e \in Errors,
         NEW s \in States, NEW v, NEW r \in Nat, r + 1 < MaxQueuedEvents, Newest(q, s, v, r)
  PROVE  Newest(QueueLocked(q, e), s, v, r + 1)
  <1>1. CASE Len(q) >= MaxQueuedEvents
    <2>1. q # <<>> /\ Len(q) - 1 > r /\ Tail(q) \in Seq(Events)
      BY <1>1
    <2>2. Newest(Tail(q), s, v, r)
      BY <2>1, OldestDropped
    <2>3. QueueLocked(q, e) = Append(Tail(q), e)
      BY <1>1 DEF QueueLocked
    <2> QED BY <2>1, <2>2, <2>3, ErrorAppended
  <1>2. CASE ~(Len(q) >= MaxQueuedEvents)
    <2>1. QueueLocked(q, e) = Append(q, e)
      BY <1>2 DEF QueueLocked
    <2> QED BY <2>1, ErrorAppended
  <1> QED BY <1>1, <1>2

LEMMA MoreReasons ==
  ASSUME NEW q \in Seq(Events), NEW s, NEW v, NEW r \in Nat, NEW r2 \in Nat, r <= r2,
         Newest(q, s, v, r)
  PROVE  Newest(q, s, v, r2)
  <1>1. CASE v = s /\ \A j \in 1..Len(q) : q[j] \in Errors
    BY <1>1 DEF Newest
  <1>2. CASE \E i \in 1..Len(q) : /\ q[i] = s /\ Len(q) - i <= r
                                  /\ \A j \in (i + 1)..Len(q) : q[j] \in Errors
    <2>1. PICK i \in 1..Len(q) : /\ q[i] = s /\ Len(q) - i <= r
                                 /\ \A j \in (i + 1)..Len(q) : q[j] \in Errors
      BY <1>2
    <2>2. Len(q) - i <= r2
      BY <2>1
    <2> QED BY <2>1, <2>2 DEF Newest
  <1> QED BY <1>1, <1>2 DEF Newest

EndSaid == once = "done" \/ fin.step \in {"state", "emit", "close"}

LEMMA ReasonsBound ==
  ASSUME TypeOK, QueueInv
  PROVE  /\ Reasons \in Nat /\ Reasons <= MaxWriteFailures + 1
         /\ ~EndSaid => Reasons <= MaxWriteFailures
         /\ pc["caller"] = "writeError" => Reasons <= MaxWriteFailures
  BY DEF TypeOK, QueueInv, Reasons, EndSaid

(* What the library records while the handle is in use.                    *)
LEMMA LibraryQueues ==
  ASSUME TypeOK, HandleInv, StoryInv, PlaceInv, QueueInv, ~closed, QtTypeOK,
         MaxWriteFailures + 1 < MaxQueuedEvents, UNCHANGED qState, Library \/ FarEnd
  PROVE  Newest(events', state', qState', Reasons')
  <1>0. Shape /\ state \in States /\ ended \in BOOLEAN /\ events \in Seq(Events)
        /\ Len(events) <= MaxQueuedEvents
    BY TypeShape DEF TypeOK
  <1>1. /\ Reasons \in Nat /\ Reasons <= MaxWriteFailures + 1
        /\ ~EndSaid => Reasons <= MaxWriteFailures
    BY ReasonsBound
  <1>2. Newest(events, state, qState, Reasons)
    BY DEF QueueInv
  <1>3. pc["caller"] \in {"idle", "writeError"}
    BY DEF PlaceInv
  <1>4. pc'["caller"] = pc["caller"] /\ writeFailures' = writeFailures
    BY <1>0, <1>3, LibraryCalls DEF callVars
  <1>5. ASSUME UNCHANGED <<once, fin>> PROVE Reasons' = Reasons
    BY <1>4, <1>5 DEF Reasons
  <1>6. ASSUME UNCHANGED <<once, fin, state, events>>
        PROVE  Newest(events', state', qState', Reasons')
    BY <1>2, <1>5, <1>6
  <1>7. ASSUME NEW s \in States, events' = QueueLocked(events, s), state' = s,
               Reasons' \in Nat
        PROVE  Newest(events', state', qState', Reasons')
    BY <1>0, <1>7, StateQueued
  <1> USE DEF handleVars, baseVars
  <1>8. CASE Waking \/ Bridge \/ FarEnd \/ Pumping
    BY <1>6, <1>8 DEF Waking, PokeLock, PokeWake, NotifyLock, NotifyWake, Bridge, FarEnd,
       FarSends, FarEnds, FarExits, Pumping, PumpRead, PumpTap, PumpAppend, PumpEof, PumpCheck,
       PumpReap
  <1>9. CASE Dialing
    <2>1. CASE DialAuthenticating \/ PublishSeen
      <3>1. UNCHANGED <<once, fin>>
        BY <2>1 DEF DialAuthenticating, PublishSeen
      <3>2. PICK s \in States : Publish("dial", s)
        BY <2>1 DEF DialAuthenticating, PublishSeen, TypeOK, States
      <3>3. CASE UNCHANGED <<state, events>>
        BY <1>6, <3>1, <3>3
      <3>4. CASE ~UNCHANGED <<state, events>>
        <4>1. state' = s /\ events' = QueueLocked(events, s)
          BY <3>2, <3>4 DEF Publish
        <4> QED BY <1>1, <1>5, <1>7, <3>1, <4>1
      <3> QED BY <3>3, <3>4
    <2>2. CASE FailDial
      <3>1. /\ UNCHANGED <<once, fin>> /\ state' = "failed"
            /\ events' = QueueLocked(QueueLocked(events, "endError"), "failed")
        BY <2>2 DEF FailDial
      <3>2. QueueLocked(events, "endError") \in Seq(Events)
        BY <1>0, QueueType DEF Events, Errors
      <3>3. "failed" \in States
        BY DEF States
      <3>4. Reasons' \in Nat
        BY <1>1, <1>5, <3>1
      <3> QED BY <3>1, <3>2, <3>3, <3>4, StateQueued
    <2>3. CASE ~(DialAuthenticating \/ PublishSeen \/ FailDial)
      <3>1. UNCHANGED <<once, fin, state, events>>
        BY <1>9, <2>3 DEF Dialing, DialFails, DialConnects, Adopt, ApplyPending, ReadState,
           MarkClosing, CloseLink
      <3> QED BY <1>6, <3>1
    <2> QED BY <2>1, <2>2, <2>3
  <1>10. CASE FinishError
    <2>1. ~EndSaid
      BY <1>10 DEF FinishError, EndSaid, StoryInv, VerdictInv
    <2>2. Reasons' = Reasons + 1
      <3>1. fin'.step = "state"
        BY <1>0, <1>10 DEF FinishError, Shape
      <3> QED BY <1>4, <2>1, <3>1, TypeOK DEF Reasons, EndSaid, TypeOK
    <2>3. state' = state /\ events' = QueueLocked(events, "endError")
      <3>1. "endError" \in Errors /\ "endError" \notin States
        BY DEF Errors, States
      <3>2. OnEvent(fin.by, "endError")
        BY <1>10 DEF FinishError
      <3> QED BY <1>0, <3>1, <3>2 DEF OnEvent
    <2>4. "endError" \in Errors
      BY DEF Errors
    <2>5. Reasons + 1 < MaxQueuedEvents
      BY <1>1, <2>1
    <2> QED BY <1>0, <1>1, <1>2, <2>2, <2>3, <2>4, <2>5, ErrorQueued
  <1>11. CASE FinishEmit
    <2>1. Reasons' = Reasons
      <3>1. fin'.step = "close" /\ once' = once
        BY <1>0, <1>11 DEF FinishEmit, Shape
      <3>2. fin.step = "emit"
        BY <1>11 DEF FinishEmit
      <3> QED BY <1>4, <3>1, <3>2 DEF Reasons
    <2>2. Verdict \in States /\ OnEvent(fin.by, Verdict)
      BY <1>11 DEF FinishEmit, Verdict, States
    <2>3. CASE state = Verdict
      <3>1. UNCHANGED <<state, events>>
        BY <2>2, <2>3 DEF OnEvent
      <3> QED BY <1>2, <2>1, <3>1
    <2>4. CASE state # Verdict
      <3>1. state' = Verdict /\ events' = QueueLocked(events, Verdict)
        BY <2>2, <2>4 DEF OnEvent
      <3> QED BY <1>1, <1>7, <2>1, <2>2, <3>1
    <2> QED BY <2>3, <2>4
  <1>12. CASE Finishing /\ ~FinishError /\ ~FinishEmit
    <2>1. UNCHANGED <<state, events>>
      BY <1>12 DEF Finishing, BeginFinish, FinishReturns, FinishState, FinishClose
    <2>2. EndSaid => EndSaid'
      <3>1. CASE \E t \in Threads : BeginFinish(t)
        BY <3>1 DEF BeginFinish, EndSaid, StoryInv, VerdictInv
      <3>2. CASE FinishState
        BY <1>0, <3>2 DEF FinishState, EndSaid, Shape
      <3>3. CASE FinishClose
        BY <3>3 DEF FinishClose, EndSaid
      <3>4. CASE \E t \in Threads : FinishReturns(t)
        BY <3>4 DEF FinishReturns, EndSaid
      <3> QED BY <1>12, <3>1, <3>2, <3>3, <3>4 DEF Finishing
    <2>3. Reasons' \in Nat /\ Reasons <= Reasons'
      BY <1>1, <1>3, <1>4, <2>2 DEF Reasons, EndSaid, TypeOK, QueueInv
    <2> QED BY <1>0, <1>1, <1>2, <2>1, <2>3, MoreReasons
  <1> QED BY <1>8, <1>9, <1>10, <1>11, <1>12 DEF Library

LEMMA QueueStep ==
  ASSUME TypeOK, HandleInv, StoryInv, QtTypeOK, PlaceInv, QueueInv,
         MaxWriteFailures + 1 < MaxQueuedEvents, [QtNext]_allVars
  PROVE  QueueInv'
  <1>0. Shape /\ state \in States /\ events \in Seq(Events) /\ Len(events) <= MaxQueuedEvents
        /\ writeFailures \in Nat
    BY TypeShape DEF TypeOK
  <1>1. /\ Reasons \in Nat /\ Reasons <= MaxWriteFailures + 1
        /\ pc["caller"] = "writeError" => Reasons <= MaxWriteFailures
    BY ReasonsBound
  <1>2. ~closed => Newest(events, state, qState, Reasons)
    BY DEF QueueInv
  <1>3. /\ gui = "closing" => last = state
        /\ gui = "done" => qState = state
        /\ gui \in {"closing", "done"} => closed
        /\ writeFailures <= MaxWriteFailures
        /\ pc["caller"] = "writeError" => writeFailures > 0
    BY DEF QueueInv, PlaceInv, Parting
  <1> DEFINE Told1 == ~closed' => Newest(events', state', qState', Reasons')
             Told2 == gui' = "closing" => last' = state'
             Told3 == gui' = "done" => qState' = state'
             Told4 == writeFailures' <= MaxWriteFailures
                      /\ (pc'["caller"] = "writeError" => writeFailures' > 0)
  <1> SUFFICES Told1 /\ Told2 /\ Told3 /\ Told4
    BY DEF QueueInv
  <1>4. CASE (Library \/ FarEnd) /\ UNCHANGED qtVars
    <2>1. Told1
      BY <1>0, <1>4, LibraryCalls, LibraryQueues DEF qtVars
    <2>2. closed => state' = state
      BY <1>4, FrozenStep DEF Next
    <2>3. Told4
      BY <1>0, <1>3, <1>4, LibraryCalls DEF callVars
    <2> QED BY <1>3, <1>4, <2>1, <2>2, <2>3 DEF qtVars
  <1>5. CASE Closing /\ UNCHANGED qtVars
    <2>1. /\ closed /\ closed' = closed /\ state' = state /\ writeFailures' = writeFailures
          /\ pc'["caller"] # "writeError"
      BY <1>0, <1>5, ClosingCalls DEF handleVars, callVars, HandleInv, CloseInv
    <2> QED BY <1>3, <1>5, <2>1 DEF qtVars
  <1>6. CASE \/ StartReadsState \/ EventsDrained \/ BytesDrained \/ CheckAlive \/ Finished
             \/ Destroyed \/ Terminate
    <2>1. UNCHANGED <<closed, events, state, writeFailures, pc, once, fin>>
      BY <1>6 DEF StartReadsState, EventsDrained, BytesDrained, CheckAlive, Finished, Destroyed,
         Terminate, vars, handleVars, callVars, baseVars
    <2>2. Reasons' = Reasons
      BY <2>1 DEF Reasons
    <2>3. CASE StartReadsState
      <3>1. qState' = state /\ gui' = "events"
        BY <2>3 DEF StartReadsState
      <3>2. ~closed => Newest(events, state, state, Reasons)
        BY <1>2 DEF Newest
      <3> QED BY <1>3, <2>1, <2>2, <3>1, <3>2
    <2>4. CASE Finished
      <3>1. /\ gui \in {"closing", "stopping"} /\ qState' = last
            /\ gui' = (IF gui = "closing" THEN "done" ELSE "stopped")
        BY <2>4 DEF Finished
      <3>2. closed
        BY <3>1 DEF PlaceInv, Parting
      <3> QED BY <1>3, <2>1, <3>1, <3>2
    <2>5. CASE ~StartReadsState /\ ~Finished
      <3>1. qState' = qState /\ gui' \notin {"closing", "done"}
        BY <1>6, <2>5 DEF EventsDrained, BytesDrained, CheckAlive, Destroyed, Terminate
      <3> QED BY <1>2, <1>3, <2>1, <2>2, <3>1
    <2> QED BY <2>3, <2>4, <2>5
  <1>7. CASE Notified \/ DrainBytes
    <2>1. UNCHANGED <<closed, events, state, pc, once, fin>>
      BY <1>7, OthersKeep DEF handleVars, baseVars
    <2>2. UNCHANGED <<writeFailures, qState>> /\ gui' \notin {"closing", "done"}
      BY <1>7 DEF Notified, DrainBytes, Read, callVars
    <2>3. Reasons' = Reasons
      BY <2>1, <2>2 DEF Reasons
    <2> QED BY <1>2, <1>3, <2>1, <2>2, <2>3
  <1>8. CASE DrainEvent
    <2>1. /\ events # <<>> /\ events' = Tail(events) /\ gui' = gui /\ gui = "events"
          /\ UNCHANGED <<closed, state, pc, once, fin, writeFailures>>
      BY <1>8 DEF DrainEvent, NextEvent, baseVars, callVars
    <2>2. Reasons' = Reasons
      BY <2>1 DEF Reasons
    <2>3. \/ Head(events) \in States /\ qState' = Head(events)
          \/ Head(events) \in Errors /\ qState' = qState
      BY <1>8 DEF DrainEvent
    <2>4. Head(events) \in Errors => Head(events) \notin States
      BY DEF Errors, States
    <2>5. ~closed => Newest(events', state, qState', Reasons)
      BY <1>0, <1>1, <1>2, <2>1, <2>3, <2>4, OldestDropped
    <2> QED BY <1>3, <2>1, <2>2, <2>5
  <1>9. CASE CheckOver \/ TerminateQuits \/ Destroy
    <2>1. Close /\ gui' # "done" /\ (gui' = "closing" => last' = state)
      BY <1>9 DEF CheckOver, TerminateQuits, Destroy
    <2>2. closed' /\ state' = state /\ writeFailures' = writeFailures
          /\ pc'["caller"] # "writeError"
      BY <1>0, <2>1, CloseCalls DEF callVars
    <2> QED BY <1>3, <2>1, <2>2
  <1>10. CASE WriteTurnedAway
    <2>1. UNCHANGED <<closed, events, state, pc, once, fin>>
      BY <1>10, OthersKeep DEF handleVars, baseVars
    <2>2. /\ gui = "idle" /\ gui' = gui /\ qState' = qState
          /\ writeFailures < MaxWriteFailures /\ writeFailures' = writeFailures + 1
      BY <1>10 DEF WriteTurnedAway
    <2>3. Reasons' = Reasons + 1
      BY <1>0, <2>1, <2>2 DEF Reasons
    <2>4. ~closed => Newest(events, state, qState, Reasons + 1)
      BY <1>0, <1>1, <1>2, MoreReasons
    <2>5. pc["caller"] # "writeError"
      BY <2>2 DEF PlaceInv
    <2> QED BY <1>0, <1>3, <2>1, <2>2, <2>3, <2>4, <2>5
  <1>11. CASE WriteRefused
    <2>1. gui = "idle" /\ gui' = "writing" /\ qState' = qState /\ WriteFails
      BY <1>11 DEF WriteRefused
    <2>2. /\ UNCHANGED <<closed, events, state, once, fin>>
          /\ pc["caller"] = "idle" /\ pc'["caller"] = "writeError"
          /\ writeFailures' = writeFailures + 1 /\ writeFailures < MaxWriteFailures
      BY <1>0, <2>1, RefusedCalls DEF handleVars, baseVars
    <2>3. Reasons' = Reasons
      BY <1>0, <2>2 DEF Reasons
    <2> QED BY <1>0, <1>2, <2>1, <2>2, <2>3
  <1>12. CASE WriteReturns
    <2>1. gui' = "idle" /\ qState' = qState /\ EmitWriteError
      BY <1>12 DEF WriteReturns
    <2>2. /\ UNCHANGED <<closed, once, fin, writeFailures>>
          /\ pc["caller"] = "writeError" /\ pc'["caller"] = "idle"
      BY <1>0, <2>1, ReturnCalls DEF baseVars, callVars
    <2>3. Reasons' = Reasons + 1
      BY <1>0, <2>2 DEF Reasons
    <2>4. "writeError" \in Errors /\ "writeError" \notin States
      BY DEF Errors, States
    <2>5. ~closed => state' = state /\ events' = QueueLocked(events, "writeError")
      BY <1>0, <2>1, <2>4 DEF EmitWriteError, OnEvent
    <2>6. Reasons + 1 < MaxQueuedEvents
      BY <1>1, <2>2
    <2>7. ~closed => Newest(QueueLocked(events, "writeError"), state, qState, Reasons + 1)
      BY <1>0, <1>1, <1>2, <2>4, <2>6, ErrorQueued
    <2> QED BY <1>3, <2>1, <2>2, <2>3, <2>5, <2>7
  <1>13. CASE ResizeCall
    <2>1. UNCHANGED <<gui, qState, last, closed, events, state, pc, once, fin, writeFailures>>
      BY <1>13 DEF ResizeCall, Resize, qtVars, baseVars
    <2>2. Reasons' = Reasons
      BY <2>1 DEF Reasons
    <2> QED BY <1>2, <1>3, <2>1, <2>2
  <1>14. CASE UNCHANGED allVars
    <2>1. UNCHANGED <<gui, qState, last, closed, events, state, pc, once, fin, writeFailures>>
      BY <1>14 DEF allVars, vars, qtVars, handleVars, baseVars, callVars
    <2>2. Reasons' = Reasons
      BY <2>1 DEF Reasons
    <2> QED BY <1>2, <1>3, <2>1, <2>2
  <1> QED BY <1>4, <1>5, <1>6, <1>7, <1>8, <1>9, <1>10, <1>11, <1>12, <1>13, <1>14
          DEF QtNext, GuiThread, Drain, Application

(* A queue that holds no failed write gets none from anything else.        *)
Clear(q) == \A j \in 1..Len(q) : q[j] # "writeError"

LEMMA ClearQueued ==
  ASSUME NEW q \in Seq(Events), Clear(q), NEW ev, ev # "writeError"
  PROVE  Clear(QueueLocked(q, ev))
  BY DEF Clear, QueueLocked

LEMMA ClearRest ==
  ASSUME NEW q \in Seq(Events), Clear(q), q # <<>>
  PROVE  Clear(Tail(q)) /\ Head(q) # "writeError"
  BY DEF Clear

LEMMA LibraryShows ==
  ASSUME TypeOK, HandleInv, Clear(events), err # "writeError", Library \/ FarEnd
  PROVE  Clear(events') /\ err' # "writeError"
  <1>0. events \in Seq(Events)
    BY DEF TypeOK
  <1>1. ASSUME UNCHANGED <<events, err>> PROVE Clear(events') /\ err' # "writeError"
    BY <1>1
  <1>2. ASSUME NEW t, NEW ev \in Events, ev # "writeError", OnEvent(t, ev)
        PROVE  Clear(events') /\ err' # "writeError"
    <2>1. events' = events \/ events' = QueueLocked(events, ev)
      BY <1>2 DEF OnEvent
    <2>2. err' = err \/ err' = ev
      BY <1>2 DEF OnEvent
    <2> QED BY <1>0, <1>2, <2>1, <2>2, ClearQueued
  <1>3. ASSUME NEW t, NEW s \in States, Publish(t, s), err' = err
        PROVE  Clear(events') /\ err' # "writeError"
    <2>1. events' = events \/ events' = QueueLocked(events, s)
      BY <1>3 DEF Publish
    <2>2. s # "writeError" /\ s \in Events
      BY DEF Events, States
    <2> QED BY <1>0, <1>3, <2>1, <2>2, ClearQueued
  <1> USE DEF handleVars
  <1>4. CASE Waking \/ Bridge \/ FarEnd \/ Pumping
    BY <1>1, <1>4 DEF Waking, PokeLock, PokeWake, NotifyLock, NotifyWake, Bridge, FarEnd,
       FarSends, FarEnds, FarExits, Pumping, PumpRead, PumpTap, PumpAppend, PumpEof, PumpCheck,
       PumpReap
  <1>5. CASE Finishing
    <2>1. CASE FinishError
      BY <1>2, <2>1 DEF FinishError, Events, Errors
    <2>2. CASE FinishEmit
      <3>1. Verdict \in Events /\ Verdict # "writeError"
        BY DEF Verdict, Events, States
      <3> QED BY <1>2, <2>2, <3>1 DEF FinishEmit
    <2>3. CASE ~FinishError /\ ~FinishEmit
      BY <1>1, <1>5, <2>3 DEF Finishing, BeginFinish, FinishReturns, FinishState, FinishClose
    <2> QED BY <2>1, <2>2, <2>3
  <1>6. CASE Dialing
    <2>1. CASE DialAuthenticating \/ PublishSeen
      <3>1. PICK s \in States : Publish("dial", s)
        BY <2>1 DEF DialAuthenticating, PublishSeen, TypeOK, States
      <3>2. err' = err
        BY <2>1 DEF DialAuthenticating, PublishSeen
      <3> QED BY <1>3, <3>1, <3>2
    <2>2. CASE FailDial
      <3>1. \/ UNCHANGED <<events, err>>
            \/ /\ err' = "endError"
               /\ events' = QueueLocked(QueueLocked(events, "endError"), "failed")
        BY <2>2 DEF FailDial
      <3>2. /\ QueueLocked(events, "endError") \in Seq(Events)
            /\ Clear(QueueLocked(events, "endError"))
        <4>1. "endError" \in Events /\ Len(events) <= MaxQueuedEvents
          BY DEF Events, Errors, TypeOK
        <4> QED BY <1>0, <4>1, QueueType, ClearQueued
      <3> QED BY <1>1, <3>1, <3>2, ClearQueued
    <2>3. CASE ~(DialAuthenticating \/ PublishSeen \/ FailDial)
      BY <1>1, <1>6, <2>3 DEF Dialing, DialFails, DialConnects, Adopt, ApplyPending, ReadState,
         MarkClosing, CloseLink
    <2> QED BY <2>1, <2>2, <2>3
  <1> QED BY <1>4, <1>5, <1>6 DEF Library

LEMMA ShownStep ==
  ASSUME TypeOK, HandleInv, StoryInv, QtTypeOK, PlaceInv, ShownInv, [QtNext]_allVars
  PROVE  ShownInv'
  <1>0. Shape /\ events \in Seq(Events) /\ writeFailures \in Nat /\ shown \subseteq Said
        /\ err \in Errors \cup {"none"}
    BY TypeShape DEF TypeOK, QtTypeOK
  <1> DEFINE Quiet == /\ err # "writeError" /\ qError \in {"none", "endError"}
                      /\ pc["caller"] # "writeError" /\ Clear(events)
             Ended == /\ gui = "closing" /\ last = "failed" => "endError" \in shown
                      /\ gui = "done" /\ qState = "failed" => "endError" \in shown
  <1>1. ShownInv <=> qError \in shown \cup {"none"} /\ (writeFailures = 0 => Quiet /\ Ended)
    BY DEF ShownInv, Clear
  <1>2. ShownInv' <=> qError' \in shown' \cup {"none"}
                      /\ (writeFailures' = 0 => Quiet' /\ Ended')
    BY DEF ShownInv, Clear
  <1>3. CASE (Library \/ FarEnd) /\ UNCHANGED qtVars
    <2>1. UNCHANGED <<gui, qState, qError, shown, last, writeFailures>>
      BY <1>0, <1>3, LibraryCalls DEF qtVars, callVars
    <2>2. writeFailures = 0 => Clear(events') /\ err' # "writeError"
      BY <1>1, <1>3, LibraryShows
    <2>3. writeFailures = 0 => pc'["caller"] # "writeError"
      BY <1>0, <1>1, <1>3, LibraryCalls
    <2> QED BY <1>1, <1>2, <2>1, <2>2, <2>3
  <1>4. CASE Closing /\ UNCHANGED qtVars
    <2>1. UNCHANGED <<gui, qState, qError, shown, last, writeFailures, err, events>>
          /\ pc'["caller"] # "writeError"
      BY <1>0, <1>4, ClosingCalls DEF qtVars, callVars, handleVars
    <2> QED BY <1>1, <1>2, <2>1
  <1>5. CASE \/ StartReadsState \/ EventsDrained \/ BytesDrained \/ CheckAlive \/ Finished
             \/ Destroyed \/ Terminate
    <2>1. UNCHANGED <<qError, shown, writeFailures, err, events, pc, last>>
      BY <1>5 DEF StartReadsState, EventsDrained, BytesDrained, CheckAlive, Finished, Destroyed,
         Terminate, vars, handleVars, callVars
    <2>2. Ended => Ended'
      <3>1. gui' # "closing"
        BY <1>5 DEF StartReadsState, EventsDrained, BytesDrained, CheckAlive, Finished,
           Destroyed, Terminate
      <3>2. gui' = "done" => gui = "closing" /\ qState' = last
        BY <1>5 DEF StartReadsState, EventsDrained, BytesDrained, CheckAlive, Finished,
           Destroyed, Terminate
      <3> QED BY <2>1, <3>1, <3>2
    <2> QED BY <1>1, <1>2, <2>1, <2>2
  <1>6. CASE Notified \/ DrainBytes
    <2>1. UNCHANGED <<err, events, pc>>
      BY <1>6, OthersKeep DEF handleVars
    <2>2. UNCHANGED <<qError, shown, writeFailures>> /\ gui' \notin {"closing", "done"}
      BY <1>6 DEF Notified, DrainBytes, Read, callVars
    <2> QED BY <1>1, <1>2, <2>1, <2>2
  <1>7. CASE DrainEvent
    <2>1. /\ events # <<>> /\ events' = Tail(events) /\ gui' = gui /\ gui = "events"
          /\ UNCHANGED <<err, pc, writeFailures>>
      BY <1>7 DEF DrainEvent, NextEvent, callVars
    <2>2. Clear(events) => Clear(events') /\ Head(events) # "writeError"
      BY <1>0, <2>1, ClearRest
    <2>3. \/ UNCHANGED <<qError, shown>>
          \/ /\ Head(events) \in Errors /\ qError' = Head(events)
             /\ shown' = shown \cup {Head(events)}
      BY <1>7 DEF DrainEvent, Say
    <2>4. qError' \in shown' \cup {"none"}
      BY <1>1, <2>3
    <2>5. Clear(events) /\ qError \in {"none", "endError"} => qError' \in {"none", "endError"}
      BY <2>2, <2>3 DEF Errors
    <2> QED BY <1>1, <1>2, <2>1, <2>2, <2>4, <2>5
  <1>8. CASE CheckOver
    <2>1. Close /\ last' = state /\ gui' = "closing"
      BY <1>8 DEF CheckOver
    <2>2. UNCHANGED <<err, events, writeFailures>> /\ pc'["caller"] # "writeError"
      BY <1>0, <2>1, CloseCalls DEF callVars
    <2>3. CASE state = "failed" /\ qError = "none" /\ err # "none"
      <3>1. qError' = err /\ shown' = shown \cup {err}
        BY <1>8, <2>3 DEF CheckOver, Say
      <3>2. err # "writeError" => err = "endError"
        BY <1>0, <2>3 DEF Errors
      <3> QED BY <1>1, <1>2, <2>1, <2>2, <3>1, <3>2
    <2>4. CASE ~(state = "failed" /\ qError = "none" /\ err # "none")
      <3>1. UNCHANGED <<qError, shown>>
        BY <1>8, <2>4 DEF CheckOver
      <3>2. state = "failed" => err # "none"
        BY DEF StoryInv, ReasonInv
      <3> QED BY <1>1, <1>2, <2>1, <2>2, <2>4, <3>1, <3>2
    <2> QED BY <2>3, <2>4
  <1>9. CASE TerminateQuits \/ Destroy
    <2>1. Close /\ gui' \notin {"closing", "done"} /\ UNCHANGED <<qError, shown>>
      BY <1>9 DEF TerminateQuits, Destroy
    <2>2. UNCHANGED <<err, events, writeFailures>> /\ pc'["caller"] # "writeError"
      BY <1>0, <2>1, CloseCalls DEF callVars
    <2> QED BY <1>1, <1>2, <2>1, <2>2
  <1>10. CASE WriteTurnedAway
    <2>1. writeFailures' # 0 /\ qError' \in shown'
      BY <1>0, <1>10 DEF WriteTurnedAway, Say
    <2> QED BY <1>2, <2>1
  <1>11. CASE WriteRefused
    <2>1. UNCHANGED <<qError, shown>> /\ WriteFails
      BY <1>11 DEF WriteRefused
    <2>2. writeFailures' # 0
      BY <1>0, <2>1, RefusedCalls
    <2> QED BY <1>1, <1>2, <2>1, <2>2
  <1>12. CASE WriteReturns
    <2>1. qError' \in shown' /\ EmitWriteError
      BY <1>12 DEF WriteReturns, Say
    <2>2. pc["caller"] = "writeError" /\ writeFailures' = writeFailures
      BY <1>0, <2>1, ReturnCalls DEF callVars
    <2> QED BY <1>1, <1>2, <2>1, <2>2
  <1>13. CASE ResizeCall
    <2>1. UNCHANGED <<gui, qState, qError, shown, last, err, events, pc, writeFailures>>
      BY <1>13 DEF ResizeCall, Resize, qtVars
    <2> QED BY <1>1, <1>2, <2>1
  <1>14. CASE UNCHANGED allVars
    <2>1. UNCHANGED <<gui, qState, qError, shown, last, err, events, pc, writeFailures>>
      BY <1>14 DEF allVars, vars, qtVars, handleVars, callVars
    <2> QED BY <1>1, <1>2, <2>1
  <1> QED BY <1>3, <1>4, <1>5, <1>6, <1>7, <1>8, <1>9, <1>10, <1>11, <1>12, <1>13, <1>14
          DEF QtNext, GuiThread, Drain, Application

LEMMA QtKeepsRead ==
  ASSUME TypeOK, HandleInv, StoryInv, ReadInv, ExitInv, [QtNext]_allVars
  PROVE  ReadInv' /\ ExitInv'
  <1>1. CASE [Next]_vars
    <2>1. Shape /\ Sorts /\ Tallies /\ Exits
      BY TypeShape DEF TypeOK, Sorts, Tallies, Exits
    <2> QED BY <1>1, <2>1, ReadStep, ExitStep DEF StoryInv
  <1>2. CASE Notified \/ DrainBytes \/ WriteTurnedAway
    <2>1. UNCHANGED <<kind, filed, closed, reaped, exitCode, eof, bufClosed, built, linkUp, sent,
                      taken, wireEnd, exitStatus, chunk, readErr, pc>>
      BY <1>2, OthersKeep DEF handleVars, baseVars, linkVars, farVars, localVars
    <2> QED BY <2>1 DEF ReadInv, ExitInv
  <1> QED BY <1>1, <1>2, QtSteps

(* All that holds of the object and the library together.                  *)
QtInv == /\ TypeOK /\ HandleInv /\ StoryInv /\ ReadInv /\ ExitInv
         /\ QtTypeOK /\ PlaceInv /\ ExitTold /\ AwakeInv /\ ShownInv /\ DeliverInv

LEMMA InitQt == QtInit => QtInv
  <1> SUFFICES ASSUME QtInit PROVE QtInv
    OBVIOUS
  <1>1. Init
    BY DEF QtInit
  <1>2. TypeOK /\ HandleInv /\ StoryInv
    BY <1>1, InitType, InitInv, InitStory
  <1>3. ReadInv /\ ExitInv
    BY <1>1 DEF Init, ReadInv, ExitInv
  <1>4. QtTypeOK
    <2>1. <<>> \in Seq(Nat)
      OBVIOUS
    <2> QED BY <1>1, <2>1 DEF QtInit, Init, QtTypeOK, GuiPlaces, States
  <1>4a. PlaceInv
    BY <1>1 DEF QtInit, Init, PlaceInv, Parting
  <1>5. ExitTold /\ AwakeInv
    BY DEF QtInit, ExitTold, AwakeInv
  <1>6. ShownInv
    <2>1. events = <<>> \/ events = <<"connecting">>
      BY <1>1, Zenon DEF Init
    <2>2. \A j \in 1..Len(events) : events[j] # "writeError"
      BY <2>1
    <2> QED BY <1>1, <2>2 DEF QtInit, Init, ShownInv
  <1>7. DeliverInv
    BY <1>1 DEF QtInit, Init, DeliverInv, Feeds, Passed
  <1> QED BY <1>2, <1>3, <1>4, <1>4a, <1>5, <1>6, <1>7 DEF QtInv

LEMMA QtStep == QtInv /\ [QtNext]_allVars => QtInv'
  <1> SUFFICES ASSUME QtInv, [QtNext]_allVars PROVE QtInv'
    OBVIOUS
  <1>1. /\ TypeOK /\ HandleInv /\ StoryInv /\ ReadInv /\ ExitInv /\ QtTypeOK
        /\ PlaceInv /\ ExitTold /\ AwakeInv /\ ShownInv /\ DeliverInv /\ Shape
    BY TypeShape DEF QtInv
  <1>2. (TypeOK /\ HandleInv /\ StoryInv)'
    BY <1>1, QtKeepsHandle
  <1>3. ReadInv' /\ ExitInv'
    BY <1>1, QtKeepsRead
  <1>4. QtTypeOK' /\ PlaceInv'
    BY <1>1, QtTypeStep, PlaceStep
  <1>5. ExitTold' /\ AwakeInv'
    BY <1>1, ExitToldStep, AwakeStep
  <1>6. ShownInv' /\ DeliverInv'
    BY <1>1, ShownStep, DeliverStep
  <1> QED BY <1>2, <1>3, <1>4, <1>5, <1>6 DEF QtInv

LEMMA QtInvariance == QtSpec => []QtInv
  BY InitQt, QtStep, PTL DEF QtSpec

(* However the library's threads run between two steps of the GUI thread,  *)
(* and for any number of events, chunks and writes: when the event loop    *)
(* sleeps over work, a wake is in the pipe or about to be written (the     *)
(* pipe is emptied before the drain, qt/omegasshsession.cpp drain).        *)
THEOREM NoWakeIsLost == QtSpec => []NoLostWake
  <1>1. QtInv => NoLostWake
    BY DEF QtInv, PlaceInv, Parting, AwakeInv, NoLostWake
  <1> QED BY <1>1, QtInvariance, PTL

(* What finished() leaves behind is true of the session: the exit status   *)
(* that arrived, the state the library came to and, unless a write failed, *)
(* the reason of a failure.  The queue must have room for one state and    *)
(* every reason: the newest state is dropped when too many errors follow   *)
(* it before the GUI thread drains (capi/events.go queueLocked).           *)
THEOREM TheEndIsTold ==
  ASSUME MaxWriteFailures + 1 < MaxQueuedEvents
  PROVE  QtSpec => []EndIsTold
  <1>1. QtInit => QueueInv
    <2> SUFFICES ASSUME QtInit PROVE QueueInv
      OBVIOUS
    <2>1. Init
      BY DEF QtInit
    <2>2. CASE kind = "serial"
      <3>1. events = <<>> /\ state = "disconnected"
        BY <2>1, <2>2 DEF Init
      <3> QED BY <2>1, <3>1 DEF QtInit, Init, QueueInv, Newest
    <2>3. CASE kind # "serial"
      <3>1. events = <<"connecting">> /\ state = "connecting"
        BY <2>1, <2>3 DEF Init
      <3>2. Reasons = 0
        BY <2>1 DEF Init, NoFinish, Reasons
      <3>3. Newest(events, state, qState, 0)
        <4>1. 1 \in 1..Len(events) /\ events[1] = state /\ Len(events) = 1
          BY <3>1
        <4> QED BY <4>1 DEF Newest
      <3> QED BY <2>1, <3>2, <3>3 DEF QtInit, Init, QueueInv
    <2> QED BY <2>2, <2>3
  <1>2. QtInv /\ QueueInv /\ [QtNext]_allVars => QueueInv'
    BY QueueStep DEF QtInv
  <1>3. QtInv /\ QueueInv => EndIsTold
    <2> SUFFICES ASSUME QtInv, QueueInv PROVE EndIsTold
      OBVIOUS
    <2>1. StatusReported
      BY DEF QtInv, ExitTold, StatusReported
    <2>2. UiAgrees
      <3>1. gui = "done" => qState = state
        BY DEF QueueInv
      <3>2. gui = "idle" /\ events = <<>> => qState = state
        <4>1. gui = "idle" => ~closed
          BY DEF QtInv, PlaceInv, Parting
        <4>2. Newest(<<>>, state, qState, Reasons) => qState = state
          BY DEF Newest
        <4> QED BY <4>1, <4>2 DEF QueueInv
      <3> QED BY <3>1, <3>2 DEF UiAgrees
    <2>3. writeFailures = 0 => ReasonIsShown
      BY DEF QtInv, ShownInv, ReasonIsShown
    <2> QED BY <2>1, <2>2, <2>3 DEF EndIsTold
  <1> QED BY <1>1, <1>2, <1>3, QtInvariance, PTL DEF QtSpec

-----------------------------------------------------------------------------
(* The refinement: each step of the object and the library is a step of    *)
(* the promise, or changes nothing the promise speaks of.                  *)
HungUp == wireEnd # "up" \/ dialFailed
IsOver == gui \in {"done", "stopped", "gone"}

LEMMA PromiseStep ==
  ASSUME QtInv, QtInv', [QtNext]_allVars
  PROVE  [Abstract!Next]_(Abstract!promiseVars)
  <1>0. /\ sent \in Nat /\ taken \in Nat /\ Shape /\ buf \in Seq(Nat)
        /\ delivered \in Seq(Nat) /\ dialFailed \in BOOLEAN /\ terminating \in BOOLEAN
    BY TypeShape DEF QtInv, TypeOK, QtTypeOK
  <1> SUFFICES Abstract!Next \/ UNCHANGED <<sent, HungUp, Told, delivered, IsOver>>
    BY DEF Abstract!promiseVars, HungUp, IsOver
  <1> DEFINE Quiet == UNCHANGED <<sent, HungUp, Told, delivered, IsOver>>
  <1>1. CASE (Library \/ Closing) /\ UNCHANGED qtVars
    <2>1. UNCHANGED <<gui, terminating, delivered>>
      BY <1>1 DEF qtVars
    <2>2. UNCHANGED <<sent, wireEnd>>
      BY <1>1 DEF Library, Waking, PokeLock, PokeWake, NotifyLock, NotifyWake, Finishing,
         BeginFinish, FinishReturns, FinishError, FinishState, FinishEmit, FinishClose,
         Dialing, DialAuthenticating, DialFails, FailDial, DialConnects, Adopt, ApplyPending,
         ReadState, PublishSeen, MarkClosing, CloseLink, Pumping, PumpRead, PumpTap,
         PumpAppend, PumpEof, PumpCheck, PumpReap, Bridge, Closing, CloseHandler, CloseBuffer,
         CloseNotifier, farVars
    <2>3. Told' = Told /\ IsOver' = IsOver
      BY <2>1 DEF Told, IsOver
    <2>4. CASE dialFailed' = dialFailed
      BY <2>1, <2>2, <2>3, <2>4 DEF HungUp
    <2>5. CASE dialFailed' # dialFailed
      <3>1. FailDial
        BY <1>1, <2>5 DEF Library, Waking, PokeLock, PokeWake, NotifyLock, NotifyWake, Finishing,
           BeginFinish, FinishReturns, FinishError, FinishState, FinishEmit, FinishClose,
           Dialing, DialAuthenticating, DialFails, DialConnects, Adopt, ApplyPending,
           ReadState, PublishSeen, MarkClosing, CloseLink, Pumping, PumpRead, PumpTap,
           PumpAppend, PumpEof, PumpCheck, PumpReap, Bridge, Closing, CloseHandler, CloseBuffer,
           CloseNotifier, handleVars
      <3>2. ~built /\ ~dialFailed /\ dialFailed' = TRUE
        BY <2>5, <3>1 DEF FailDial, QtInv, HandleInv, DialInv
      <3>3. HungUp = FALSE /\ HungUp' = TRUE
        BY <3>2 DEF HungUp, QtInv, ReadInv
      <3> QED BY <2>1, <2>2, <2>3, <3>3
              DEF Abstract!Next, Abstract!HangsUp, HungUp, IsOver
    <2> QED BY <2>4, <2>5
  <1>2. CASE FarEnd /\ UNCHANGED qtVars
    <2>1. UNCHANGED <<gui, terminating, delivered>>
      BY <1>2 DEF qtVars
    <2>2. Told' = Told /\ IsOver' = IsOver
      BY <2>1 DEF Told, IsOver
    <2>3. linkUp => ~dialFailed
      BY DEF QtInv, HandleInv, DialInv
    <2>4. CASE FarSends
      <3>1. sent' = sent + 1 /\ UNCHANGED <<wireEnd, dialFailed>> /\ HungUp = FALSE
        BY <2>3, <2>4 DEF FarSends, HungUp, handleVars
      <3>2. HungUp' = HungUp
        BY <3>1 DEF HungUp
      <3> QED BY <2>1, <2>2, <3>1, <3>2 DEF Abstract!Next, Abstract!FarSends, HungUp, IsOver
    <2>5. CASE FarEnds
      <3>1. HungUp = FALSE /\ HungUp' = TRUE /\ sent' = sent
        BY <2>3, <2>5 DEF FarEnds, HungUp, handleVars
      <3> QED BY <2>1, <2>2, <3>1 DEF Abstract!Next, Abstract!HangsUp, HungUp, IsOver
    <2>6. CASE FarExits
      <3>1. UNCHANGED <<sent, wireEnd, dialFailed>>
        BY <2>6 DEF FarExits, handleVars
      <3> QED BY <2>1, <2>2, <3>1 DEF HungUp
    <2> QED BY <1>2, <2>4, <2>5, <2>6 DEF FarEnd
  <1>3. CASE \/ StartReadsState \/ Notified \/ DrainEvent \/ EventsDrained \/ BytesDrained
             \/ CheckAlive \/ WriteTurnedAway \/ WriteRefused \/ WriteReturns \/ ResizeCall
             \/ UNCHANGED allVars
    <2>1. UNCHANGED <<sent, wireEnd, dialFailed, terminating, delivered>>
      BY <1>3 DEF StartReadsState, Notified, DrainEvent, NextEvent, EventsDrained, BytesDrained,
         CheckAlive, WriteTurnedAway, WriteRefused, WriteFails, WriteReturns, EmitWriteError,
         ResizeCall, Resize, vars, allVars, qtVars, farVars, handleVars
    <2>2. gui' = gui \/ (gui \notin {"dropping", "gone", "done", "stopped"}
                         /\ gui' \notin {"dropping", "gone", "done", "stopped"})
      BY <1>3 DEF StartReadsState, Notified, DrainEvent, EventsDrained, BytesDrained, CheckAlive,
         WriteTurnedAway, WriteRefused, WriteReturns, ResizeCall, allVars, qtVars
    <2> QED BY <2>1, <2>2 DEF HungUp, Told, IsOver
  <1>4. CASE DrainBytes
    <2>1. gui' = gui /\ gui = "bytes" /\ terminating' = terminating
      BY <1>4 DEF DrainBytes
    <2>2. UNCHANGED <<sent, wireEnd, dialFailed>>
      BY <1>4, OthersKeep DEF farVars, handleVars
    <2>3. PICK n \in 1..Len(buf) : delivered' = delivered \o SubSeq(buf, 1, n)
      BY <1>4 DEF DrainBytes
    <2>4. Len(delivered') = Len(delivered) + n /\ delivered' \in Seq(Nat)
      BY <1>0, <2>3
    <2>5. Len(delivered) + Len(buf) <= sent
      <3>1. ~closed
        BY <2>1 DEF QtInv, PlaceInv, Parting
      <3>2. Feeds /\ taken <= sent
        BY <3>1 DEF QtInv, DeliverInv, ReadInv
      <3> QED BY <1>0, <3>2 DEF Feeds, Passed
    <2>6. delivered' = [i \in 1..Len(delivered') |-> i]
      <3>1. \A i \in 1..Len(delivered') : delivered'[i] = i
        BY DEF QtInv, DeliverInv
      <3> QED BY <2>4, <3>1
    <2>7. Len(delivered') \in (Len(delivered) + 1)..sent
      BY <1>0, <2>4, <2>5
    <2>8. ~IsOver /\ IsOver' = IsOver /\ Told' = Told /\ HungUp' = HungUp
      BY <2>1, <2>2 DEF IsOver, Told, HungUp
    <2> QED BY <2>2, <2>6, <2>7, <2>8 DEF Abstract!Next, Abstract!Deliver, IsOver, HungUp
  <1>5. CASE CheckOver \/ TerminateQuits
    <2>1. /\ Close /\ UNCHANGED <<delivered, terminating>>
          /\ gui \in {"check", "quit"} /\ gui' \in {"closing", "stopping"}
      BY <1>5 DEF CheckOver, TerminateQuits
    <2>2. UNCHANGED <<sent, wireEnd, dialFailed>>
      BY <1>0, <2>1, CloseCalls DEF farVars
    <2> QED BY <2>1, <2>2 DEF HungUp, Told, IsOver
  <1>6. CASE Finished
    <2>1. /\ UNCHANGED <<delivered, terminating, sent, wireEnd, dialFailed>>
          /\ \/ gui = "closing" /\ gui' = "done"
             \/ gui = "stopping" /\ gui' = "stopped"
      BY <1>6 DEF Finished, vars, farVars, handleVars
    <2>2. HungUp' = HungUp /\ Told' = Told /\ ~IsOver /\ IsOver' = TRUE
      BY <2>1 DEF HungUp, Told, IsOver
    <2>3. CASE gui = "closing"
      <3>1. HungUp /\ Len(delivered) = sent
        BY <2>3 DEF QtInv, DeliverInv, HungUp
      <3> QED BY <2>1, <2>2, <3>1 DEF Abstract!Next, Abstract!EndsByItself, HungUp, IsOver
    <2>4. CASE gui = "stopping"
      <3>1. Told
        BY <2>4 DEF QtInv, PlaceInv, Told
      <3> QED BY <2>1, <2>2, <3>1 DEF Abstract!Next, Abstract!EndsAsTold, HungUp, IsOver
    <2> QED BY <2>1, <2>3, <2>4
  <1>7. CASE Terminate \/ Destroy
    <2>1. /\ gui = "idle" /\ delivered' = delivered
          /\ \/ gui' = "events" /\ terminating' = TRUE
             \/ gui' = "dropping" /\ terminating' = terminating
      BY <1>7 DEF Terminate, Destroy
    <2>2. UNCHANGED <<sent, wireEnd, dialFailed>>
      BY <1>0, <1>7, CloseCalls DEF Terminate, Destroy, vars, farVars, handleVars
    <2>3. ~terminating
      BY <2>1 DEF QtInv, PlaceInv
    <2>4. Told = FALSE /\ Told' = TRUE /\ ~IsOver /\ IsOver' = IsOver /\ HungUp' = HungUp
      BY <2>1, <2>2, <2>3 DEF Told, IsOver, HungUp
    <2> QED BY <2>1, <2>2, <2>4 DEF Abstract!Next, Abstract!Tell, HungUp, IsOver
  <1>8. CASE Destroyed
    <2>1. /\ gui = "dropping" /\ gui' = "gone"
          /\ UNCHANGED <<delivered, terminating, sent, wireEnd, dialFailed>>
      BY <1>8 DEF Destroyed, vars, farVars, handleVars
    <2>2. Told /\ Told' = Told /\ ~IsOver /\ IsOver' = TRUE /\ HungUp' = HungUp
      BY <2>1 DEF Told, IsOver, HungUp
    <2> QED BY <2>1, <2>2 DEF Abstract!Next, Abstract!EndsAsTold, HungUp, IsOver
  <1> QED BY <1>1, <1>2, <1>3, <1>4, <1>5, <1>6, <1>7, <1>8
          DEF QtNext, GuiThread, Drain, Application

(* The object and the library keep the safety half of what the header      *)
(* promises, whatever the threads do: output arrives in order and          *)
(* complete, the end comes once, by itself only after the last chunk       *)
(* (qt/omegasshsession.h, include/omegassh.h).                             *)
THEOREM SafetyIsKept == QtSpec => Abstract!Safety
  <1>1. QtInit => Abstract!Init
    BY DEF QtInit, Init, Abstract!Init, Told
  <1> QED BY <1>1, PromiseStep, QtInvariance, PTL DEF QtSpec, Abstract!Safety
=============================================================================
