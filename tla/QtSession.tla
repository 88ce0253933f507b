------------------------------ MODULE QtSession ------------------------------
(***************************************************************************)
(* OmegaSshSession (qt/omegasshsession.cpp): the Qt object that owns a     *)
(* session handle and turns it into signals on the GUI thread, composed    *)
(* with the library threads of SessionHandle.                              *)
(*                                                                         *)
(* The GUI thread runs one slot at a time and every C call it makes is a   *)
(* step of its own, so the library moves between any two of them.  "gui"   *)
(* is where the GUI thread is: "starting" after omegassh_open and the      *)
(* arming of the notifier, "idle" in the event loop, "events", "bytes" and *)
(* "check" inside drain, "writing" inside write, "quit" inside terminate   *)
(* after its drain, "closing" in the teardown of a session that ended by   *)
(* itself and "done" when it has finished, "stopping" and "stopped" for    *)
(* one that was terminated, "dropping" and "gone" for the destructor.      *)
(***************************************************************************)
EXTENDS SessionHandle

VARIABLES
  gui,          (* where the GUI thread is                                  *)
  qState, qError, qExit,    (* m_state, m_error, m_exitCode                 *)
  shown,        (* what errorOccurred has carried so far                    *)
  last,         (* the state drain or terminate will leave behind           *)
  terminating,  (* the drain in progress was started by terminate           *)
  delivered     (* the chunks dataReceived has carried                      *)

qtVars  == <<gui, qState, qError, qExit, shown, last, terminating, delivered>>
allVars == <<vars, qtVars>>

QtInit ==
  /\ Init
  /\ gui = "starting"
  /\ qState = "disconnected" /\ qError = "none" /\ qExit = "unknown"
  /\ shown = {} /\ last = "disconnected" /\ terminating = FALSE
  /\ delivered = <<>>

Say(reason) == qError' = reason /\ shown' = shown \cup {reason}

-----------------------------------------------------------------------------
(* The tail of start: the state is read, then everything queued is drained.*)
StartReadsState ==
  /\ gui = "starting"
  /\ qState' = state
  /\ gui' = "events"
  /\ UNCHANGED <<vars, qError, qExit, shown, last, terminating, delivered>>

(* QSocketNotifier is level-triggered; drainNotify empties the pipe first. *)
Notified ==
  /\ gui = "idle" /\ readable
  /\ readable' = FALSE
  /\ gui' = "events"
  /\ UNCHANGED <<kind, handleVars, bufVars, baseVars, logVars, linkVars, farVars,
                 callVars, localVars, notifyGone, poke, wake, pc,
                 qState, qError, qExit, shown, last, terminating, delivered>>

(* drainEvents.                                                            *)
DrainEvent ==
  /\ gui = "events" /\ NextEvent
  /\ \/ /\ Head(events) \in States
        /\ qState' = Head(events)
        /\ UNCHANGED <<qError, shown>>
     \/ /\ Head(events) \in Errors
        /\ Say(Head(events))
        /\ UNCHANGED qState
  /\ UNCHANGED <<gui, qExit, last, terminating, delivered>>

EventsDrained ==
  /\ gui = "events" /\ events = <<>>
  /\ gui' = "bytes"
  /\ UNCHANGED <<vars, qState, qError, qExit, shown, last, terminating, delivered>>

DrainBytes ==
  /\ gui = "bytes"
  /\ \E n \in 1..Len(buf) : /\ Read(n)
                            /\ delivered' = delivered \o SubSeq(buf, 1, n)
  /\ UNCHANGED <<gui, qState, qError, qExit, shown, last, terminating>>

BytesDrained ==
  /\ gui = "bytes" /\ buf = <<>>
  /\ gui' = "check"
  /\ UNCHANGED <<vars, qState, qError, qExit, shown, last, terminating, delivered>>

(* Fault: the bytes that came since the read loop are not looked for.      *)
OverAtOnce == ~Alive

(* The end of drain.  Once alive says 0 nothing the library still does     *)
(* changes the exit code, the state or the error, so reading the three and *)
(* entering omegassh_close is one step.                                    *)
Over == ~Alive /\ buf = <<>>

(* Fault: the pipe is emptied after the drain instead of before it.        *)
CheckAliveThenClear ==
  /\ gui = "check" /\ ~Over
  /\ readable' = FALSE
  /\ gui' = IF terminating THEN "quit" ELSE "idle"
  /\ UNCHANGED <<kind, handleVars, bufVars, baseVars, logVars, linkVars, farVars,
                 callVars, localVars, notifyGone, poke, wake, pc,
                 qState, qError, qExit, shown, last, terminating, delivered>>

CheckAlive ==
  /\ gui = "check" /\ ~Over
  /\ gui' = IF terminating THEN "quit" ELSE "idle"
  /\ UNCHANGED <<vars, qState, qError, qExit, shown, last, terminating, delivered>>

(* Fault: the state left behind is the last one drained.                   *)
CheckOverStale ==
  /\ gui = "check" /\ Over
  /\ qExit' = exitCode /\ last' = qState
  /\ IF state = "failed" /\ qError = "none" /\ err # "none"
     THEN Say(err)
     ELSE UNCHANGED <<qError, shown>>
  /\ Close
  /\ gui' = "closing"
  /\ UNCHANGED <<qState, terminating, delivered>>

CheckOver ==
  /\ gui = "check" /\ Over
  /\ qExit' = exitCode /\ last' = state
  /\ IF state = "failed" /\ qError = "none" /\ err # "none"
     THEN Say(err)
     ELSE UNCHANGED <<qError, shown>>
  /\ Close
  /\ gui' = "closing"
  /\ UNCHANGED <<qState, terminating, delivered>>

(* The rest of terminate, when its drain has not already ended the session.*)
TerminateQuits ==
  /\ gui = "quit"
  /\ qExit' = exitCode /\ last' = "disconnected"
  /\ Close
  /\ gui' = "stopping"
  /\ UNCHANGED <<qState, qError, shown, terminating, delivered>>

(* omegassh_close has returned: the last state, then finished(exitCode).   *)
Finished ==
  /\ gui \in {"closing", "stopping"} /\ pc["caller"] = "closed"
  /\ qState' = last
  /\ gui' = IF gui = "closing" THEN "done" ELSE "stopped"
  /\ UNCHANGED <<vars, qError, qExit, shown, last, terminating, delivered>>

Drain == DrainEvent \/ EventsDrained \/ DrainBytes \/ BytesDrained
         \/ CheckAlive \/ CheckOver \/ TerminateQuits \/ Finished

-----------------------------------------------------------------------------
(* What the application asks of the object, from the event loop.           *)

Terminate ==
  /\ gui = "idle"
  /\ gui' = "events" /\ terminating' = TRUE
  /\ UNCHANGED <<vars, qState, qError, qExit, shown, last, delivered>>

(* ~OmegaSshSession: teardown, and no signal to anybody.                   *)
Destroy ==
  /\ gui = "idle" /\ Close
  /\ gui' = "dropping"
  /\ UNCHANGED <<qState, qError, qExit, shown, last, terminating, delivered>>

Destroyed ==
  /\ gui = "dropping" /\ pc["caller"] = "closed"
  /\ gui' = "gone"
  /\ UNCHANGED <<vars, qState, qError, qExit, shown, last, terminating, delivered>>

(* write, when the session is not there yet, and when the transport        *)
(* refuses.                                                                *)
WriteTurnedAway ==
  /\ gui = "idle" /\ ~filed /\ writeFailures < MaxWriteFailures
  /\ writeFailures' = writeFailures + 1
  /\ Say("notConnected")
  /\ UNCHANGED <<kind, handleVars, bufVars, baseVars, logVars, linkVars, farVars, asked,
                 localVars, wakeVars, pc,
                 gui, qState, qExit, last, terminating, delivered>>

WriteRefused ==
  /\ gui = "idle" /\ WriteFails
  /\ gui' = "writing"
  /\ UNCHANGED <<qState, qError, qExit, shown, last, terminating, delivered>>

WriteReturns ==
  /\ gui = "writing" /\ EmitWriteError
  /\ Say("writeError")
  /\ gui' = "idle"
  /\ UNCHANGED <<qState, qExit, last, terminating, delivered>>

ResizeCall ==
  /\ gui = "idle" /\ Resize
  /\ UNCHANGED qtVars

Application == \/ Terminate \/ Destroy \/ WriteTurnedAway \/ WriteRefused \/ ResizeCall

-----------------------------------------------------------------------------
GuiThread == StartReadsState \/ Notified \/ Drain \/ WriteReturns \/ Destroyed

QtNext ==
  \/ (Library \/ Closing \/ FarEnd) /\ UNCHANGED qtVars
  \/ GuiThread
  \/ Application

(* The GUI thread returns to its event loop and finishes its slots.        *)
QtSpec     == QtInit /\ [][QtNext]_allVars
QtFairSpec == QtSpec /\ Fairness /\ WF_allVars(GuiThread)

-----------------------------------------------------------------------------
(* No wake is lost: while the GUI thread sleeps in its event loop, bytes   *)
(* or events that wait in the library, and an end nobody has drained yet,  *)
(* always have a wake in the pipe or a thread about to write one.          *)
WakePending == readable \/ wake # "no" \/ \E t \in Threads : poke[t] # "no"
NoLostWake ==
  gui = "idle" /\ (buf # <<>> \/ events # <<>> \/ ~Alive) => WakePending

(* A remote status that arrived is the one finished reports, when the      *)
(* session ended by itself.                                                *)
StatusReported ==
  gui = "done" /\ exitStatus = "status" => qExit = "status"

(* A widget at rest shows what the library says: with the queue drained,   *)
(* state() and omegassh_state agree, and so do they once it has finished   *)
(* by itself.                                                              *)
UiAgrees == \/ gui = "idle" /\ events = <<>>
            \/ gui = "done"
            => qState = state

(* "or -> Failed, with the reason in errorOccurred": a session that ends   *)
(* failed has told the user why.                                           *)
ReasonIsShown == gui = "done" /\ qState = "failed" => "endError" \in shown

(* A session that ended by itself has said how: with its exit status, in   *)
(* the state the library came to, and, unless a refused write had already  *)
(* left a message, with the reason of a failure.                           *)
EndIsTold == StatusReported /\ UiAgrees /\ (writeFailures = 0 => ReasonIsShown)

(* The wrapper and the library together keep the promise of the header:    *)
(* QtSession implements SessionPromise.                                    *)
Told == terminating \/ gui \in {"dropping", "gone"}
Abstract == INSTANCE SessionPromise WITH
              sent <- sent, delivered <- delivered,
              hungUp <- (wireEnd # "up" \/ dialFailed),
              told <- Told, over <- gui \in {"done", "stopped", "gone"}
KeepsPromise == Abstract!Promise
=============================================================================
