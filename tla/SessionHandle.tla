---------------------------- MODULE SessionHandle ----------------------------
(***************************************************************************)
(* One session handle of the C surface, from omegassh_open to the last     *)
(* goroutine it left behind (capi/*.go, transport/session.go,              *)
(* sshcore/buffer.go, and the parts of telnetx and serialx the pipeline    *)
(* touches).                                                               *)
(*                                                                         *)
(* Threads: "dial" is runDial, "pump" is handleState.pump, "bridge" is the *)
(* goroutine transport.Wrap starts, "caller" is the application thread in  *)
(* a C call.  One action is one critical section, or one call that no      *)
(* other thread can observe half-done.  The model begins right after       *)
(* omegassh_open has filed the handle and started the dial goroutine, with *)
(* session logging on.                                                     *)
(***************************************************************************)
EXTENDS Naturals, Sequences

CONSTANTS
  Kinds,              (* transports that may be opened                     *)
  MaxQueuedEvents,    (* maxQueuedEvents: capacity of the event queue      *)
  MaxChunks,          (* bound: reads the far end gives data for           *)
  MaxResizes,         (* bound: calls of omegassh_resize                   *)
  MaxWriteFailures    (* bound: writes that fail on a live session         *)

ASSUME HandleAssumption ==
  /\ Kinds \subseteq {"ssh", "telnet", "serial"} /\ Kinds # {}
  /\ MaxQueuedEvents \in Nat \ {0}
  /\ MaxChunks \in Nat /\ MaxResizes \in Nat /\ MaxWriteFailures \in Nat

Threads  == {"dial", "pump", "bridge", "caller"}
States   == {"disconnected", "connecting", "authenticating", "connected", "failed"}
Terminal == {"disconnected", "failed"}
Errors   == {"writeError", "endError"}   (* a failed write; why it ended   *)
Events   == States \cup Errors

VARIABLES
  kind,          (* transport of the handle                                *)
  state, ended, dialFailed, err, filed, resize, closed, reaped, exitCode,
  events,        (* handleState; filed is "st.sess # nil"                  *)
  readable,      (* the notifier's read end has an unread wake             *)
  notifyGone,    (* the notifier is closed                                 *)
  buf, eof, bufClosed,                                   (* OutputBuffer   *)
  built, sessState, handler, closing, once,              (* base           *)
  fin,           (* base.finish in progress: who, what, where              *)
  logOpen, logged,                                       (* Logger         *)
  backendEnd,    (* Backend.done/err: "open" until it is closed            *)
  linkUp,        (* the socket, channel or port is open on this side       *)
  sent, taken, wireEnd, exitStatus, farSize,             (* the far end    *)
  asked,         (* calls of omegassh_resize; the n-th asks for size n     *)
  writeFailures,
  pc,            (* where each thread is                                   *)
  poke,          (* handleState.poke: "no", "want", or "held" (notifyMu)   *)
  wake,          (* OutputBuffer.notify: "no", "want", or "held" (wakeMu)  *)
  chunk, readErr, seen       (* locals of the pump and of adopt            *)

handleVars == <<state, ended, dialFailed, err, filed, resize, closed, reaped,
                exitCode, events>>
bufVars    == <<buf, eof, bufClosed>>
baseVars   == <<built, sessState, handler, closing, once, fin>>
logVars    == <<logOpen, logged>>
linkVars   == <<backendEnd, linkUp>>
farVars    == <<sent, taken, wireEnd, exitStatus, farSize>>
callVars   == <<asked, writeFailures>>
localVars  == <<chunk, readErr, seen>>
wakeVars   == <<readable, notifyGone, poke, wake>>
vars == <<kind, handleVars, bufVars, baseVars, logVars, linkVars, farVars,
          callVars, localVars, wakeVars, pc>>

NoFinish == [by |-> "none", failed |-> FALSE, step |-> "none"]

Init ==
  /\ kind \in Kinds
  /\ state = IF kind = "serial" THEN "disconnected" ELSE "connecting"
  /\ events = IF kind = "serial" THEN <<>> ELSE <<"connecting">>
  /\ ended = FALSE /\ dialFailed = FALSE /\ err = "none" /\ filed = FALSE
  /\ resize = 0 /\ closed = FALSE /\ reaped = FALSE /\ exitCode = "unknown"
  /\ readable = FALSE /\ notifyGone = FALSE
  /\ buf = <<>> /\ eof = FALSE /\ bufClosed = FALSE
  /\ built = FALSE /\ sessState = "connected" /\ handler = FALSE
  /\ closing = FALSE /\ once = "fresh" /\ fin = NoFinish
  /\ logOpen = TRUE /\ logged = {}
  /\ backendEnd = "open" /\ linkUp = FALSE
  /\ sent = 0 /\ taken = 0 /\ wireEnd = "up" /\ exitStatus = "pending" /\ farSize = 0
  /\ asked = 0 /\ writeFailures = 0
  /\ pc = [t \in Threads |-> IF t = "dial" THEN "connect"
                                 ELSE IF t = "caller" THEN "idle" ELSE "none"]
  /\ poke = [t \in Threads |-> "no"] /\ wake = "no"
  /\ chunk = 0 /\ readErr = "none" /\ seen = "connected"

-----------------------------------------------------------------------------
(* Waking the caller.  A thread that has queued an event must poke before  *)
(* it goes on; "held" is the stretch under the lock in which the write end *)
(* of the notifier is written.                                             *)

CanRun(t) == /\ poke[t] = "no"
             /\ fin.by # t
             /\ t = "pump" => wake = "no"

Goto(t, label) == pc' = [pc EXCEPT ![t] = label]

(* Fault: the lock is taken, notifyGone is not looked at.                  *)
PokeWithoutCheck(t) ==
  /\ poke[t] = "want"
  /\ \A u \in Threads : poke[u] # "held"
  /\ poke' = [poke EXCEPT ![t] = "held"]
  /\ UNCHANGED <<kind, handleVars, bufVars, baseVars, logVars, linkVars, farVars,
                 callVars, localVars, readable, notifyGone, wake, pc>>

PokeLock(t) ==
  /\ poke[t] = "want"
  /\ \A u \in Threads : poke[u] # "held"
  /\ poke' = [poke EXCEPT ![t] = IF notifyGone THEN "no" ELSE "held"]
  /\ UNCHANGED <<kind, handleVars, bufVars, baseVars, logVars, linkVars, farVars,
                 callVars, localVars, readable, notifyGone, wake, pc>>

PokeWake(t) ==
  /\ poke[t] = "held"
  /\ readable' = TRUE
  /\ poke' = [poke EXCEPT ![t] = "no"]
  /\ UNCHANGED <<kind, handleVars, bufVars, baseVars, logVars, linkVars, farVars,
                 callVars, localVars, notifyGone, wake, pc>>

NotifyLock ==
  /\ wake = "want"
  /\ wake' = IF bufClosed THEN "no" ELSE "held"
  /\ UNCHANGED <<kind, handleVars, bufVars, baseVars, logVars, linkVars, farVars,
                 callVars, localVars, readable, notifyGone, poke, pc>>

NotifyWake ==
  /\ wake = "held"
  /\ readable' = TRUE
  /\ wake' = "no"
  /\ UNCHANGED <<kind, handleVars, bufVars, baseVars, logVars, linkVars, farVars,
                 callVars, localVars, notifyGone, poke, pc>>

Waking == (\E t \in Threads : PokeLock(t) \/ PokeWake(t)) \/ NotifyLock \/ NotifyWake

-----------------------------------------------------------------------------
(* The handle's state and its event queue (capi/events.go).                *)

(* Fault: the queue has no capacity.                                       *)
QueueUnbounded(q, ev) == Append(q, ev)

QueueLocked(q, ev) == Append(IF Len(q) >= MaxQueuedEvents THEN Tail(q) ELSE q, ev)

(* Fault: the dial overrides an end that already happened.                 *)
PublishOverEnd(t, s) ==
  IF closed \/ state = s
  THEN UNCHANGED <<state, events, poke>>
  ELSE /\ state' = s
       /\ events' = QueueLocked(events, s)
       /\ poke' = [poke EXCEPT ![t] = "want"]

Publish(t, s) ==
  IF closed \/ ended \/ state = s
  THEN UNCHANGED <<state, events, poke>>
  ELSE /\ state' = s
       /\ events' = QueueLocked(events, s)
       /\ poke' = [poke EXCEPT ![t] = "want"]

(* Fault: the end is recorded, but not that it is one.                     *)
OnEventForgetsEnd(t, ev) ==
  IF closed \/ state = ev
  THEN UNCHANGED <<state, ended, err, events, poke>>
  ELSE /\ state' = IF ev \in States THEN ev ELSE state
       /\ UNCHANGED ended
       /\ err' = IF ev \in Errors THEN ev ELSE err
       /\ events' = QueueLocked(events, ev)
       /\ poke' = [poke EXCEPT ![t] = "want"]

(* Fault: the handler relies on SetEventHandler(nil) alone.                *)
OnEventWhenClosed(t, ev) ==
  IF state = ev
  THEN UNCHANGED <<state, ended, err, events, poke>>
  ELSE /\ state' = IF ev \in States THEN ev ELSE state
       /\ ended' = (ended \/ ev \in Terminal)
       /\ err' = IF ev \in Errors THEN ev ELSE err
       /\ events' = QueueLocked(events, ev)
       /\ poke' = [poke EXCEPT ![t] = "want"]

OnEvent(t, ev) ==
  IF closed \/ state = ev
  THEN UNCHANGED <<state, ended, err, events, poke>>
  ELSE /\ state' = IF ev \in States THEN ev ELSE state
       /\ ended' = (ended \/ ev \in Terminal)
       /\ err' = IF ev \in Errors THEN ev ELSE err
       /\ events' = QueueLocked(events, ev)
       /\ poke' = [poke EXCEPT ![t] = "want"]

-----------------------------------------------------------------------------
(* The end of a session, settled once by whichever thread gets there first *)
(* (base.finish); the others wait for it, as sync.Once makes them.         *)

FinishArg(t) == IF t = "pump" THEN readErr ELSE IF t = "bridge" THEN backendEnd ELSE "nil"

BeginFinish(t) ==
  /\ pc[t] = "finish" /\ CanRun(t) /\ once = "fresh"
  /\ once' = "running"
  /\ LET failed == FinishArg(t) = "error" /\ ~closing
     IN  fin' = [by |-> t, failed |-> failed,
                 step |-> IF failed /\ handler THEN "error" ELSE "state"]
  /\ UNCHANGED <<kind, handleVars, bufVars, built, sessState, handler, closing, logVars,
                 linkVars, farVars, callVars, localVars, wakeVars, pc>>

Verdict == IF fin.failed THEN "failed" ELSE "disconnected"

FinishError ==
  /\ fin.step = "error" /\ poke[fin.by] = "no"
  /\ OnEvent(fin.by, "endError")
  /\ fin' = [fin EXCEPT !.step = "state"]
  /\ UNCHANGED <<kind, dialFailed, filed, resize, closed, reaped, exitCode, bufVars,
                 built, sessState, handler, closing, once, logVars, linkVars, farVars,
                 callVars, localVars, readable, notifyGone, wake, pc>>

FinishState ==
  /\ fin.step = "state" /\ poke[fin.by] = "no"
  /\ sessState' = Verdict
  /\ fin' = [fin EXCEPT !.step = IF handler THEN "emit" ELSE "close"]
  /\ UNCHANGED <<kind, handleVars, bufVars, built, handler, closing, once, logVars,
                 linkVars, farVars, callVars, localVars, wakeVars, pc>>

FinishEmit ==
  /\ fin.step = "emit" /\ poke[fin.by] = "no"
  /\ OnEvent(fin.by, Verdict)
  /\ fin' = [fin EXCEPT !.step = "close"]
  /\ UNCHANGED <<kind, dialFailed, filed, resize, closed, reaped, exitCode, bufVars,
                 built, sessState, handler, closing, once, logVars, linkVars, farVars,
                 callVars, localVars, readable, notifyGone, wake, pc>>

FinishClose ==
  /\ fin.step = "close" /\ poke[fin.by] = "no"
  /\ logOpen' = FALSE
  /\ once' = "done"
  /\ fin' = NoFinish
  /\ UNCHANGED <<kind, handleVars, bufVars, built, sessState, handler, closing, logged,
                 linkVars, farVars, callVars, localVars, wakeVars, pc>>

AfterFinish(t) ==
  IF t = "pump" THEN "eof" ELSE IF t = "caller" THEN "notifyClose" ELSE "done"

FinishReturns(t) ==
  /\ pc[t] = "finish" /\ CanRun(t) /\ once = "done"
  /\ Goto(t, AfterFinish(t))
  /\ UNCHANGED <<kind, handleVars, bufVars, baseVars, logVars, linkVars, farVars,
                 callVars, localVars, wakeVars>>

Finishing ==
  \/ \E t \in Threads : BeginFinish(t) \/ FinishReturns(t)
  \/ FinishError \/ FinishState \/ FinishEmit \/ FinishClose

(* Session.Close, by omegassh_close or by adopt on a retired handle.       *)

MarkClosing(t) ==
  /\ pc[t] = "mark" /\ CanRun(t)
  /\ closing' = TRUE
  /\ Goto(t, "unlink")
  /\ UNCHANGED <<kind, handleVars, bufVars, built, sessState, handler, once, fin, logVars,
                 linkVars, farVars, callVars, localVars, wakeVars>>

(* Fault: the session is marked but its connection stays open.             *)
CloseLinkForgotten(t) ==
  /\ pc[t] = "unlink" /\ CanRun(t)
  /\ Goto(t, "finish")
  /\ UNCHANGED <<kind, handleVars, bufVars, baseVars, logVars, linkVars, farVars, callVars,
                 localVars, wakeVars>>

CloseLink(t) ==
  /\ pc[t] = "unlink" /\ CanRun(t)
  /\ linkUp' = FALSE
  /\ backendEnd' = IF kind # "ssh" /\ backendEnd = "open" THEN "nil" ELSE backendEnd
  /\ Goto(t, "finish")
  /\ UNCHANGED <<kind, handleVars, bufVars, baseVars, logVars, farVars, callVars,
                 localVars, wakeVars>>

-----------------------------------------------------------------------------
(* The dial goroutine (capi/dial.go).  StageConnecting is published over   *)
(* the connecting the handle was filed in, which publish drops.            *)

DialAuthenticating ==
  /\ pc["dial"] = "connect" /\ CanRun("dial") /\ kind = "ssh"
  /\ Publish("dial", "authenticating")
  /\ Goto("dial", "login")
  /\ UNCHANGED <<kind, ended, dialFailed, err, filed, resize, closed, reaped, exitCode,
                 bufVars, baseVars, logVars, linkVars, farVars, callVars, localVars,
                 readable, notifyGone, wake>>

DialFails ==
  /\ pc["dial"] \in {"connect", "login"} /\ CanRun("dial")
  /\ logOpen' = FALSE
  /\ Goto("dial", "report")
  /\ UNCHANGED <<kind, handleVars, bufVars, baseVars, logged, linkVars, farVars,
                 callVars, localVars, wakeVars>>

FailDial ==
  /\ pc["dial"] = "report" /\ CanRun("dial")
  /\ IF closed
     THEN UNCHANGED <<state, ended, dialFailed, err, events, poke>>
     ELSE /\ err' = "endError" /\ dialFailed' = TRUE /\ ended' = TRUE
          /\ state' = "failed"
          /\ events' = QueueLocked(QueueLocked(events, "endError"), "failed")
          /\ poke' = [poke EXCEPT !["dial"] = "want"]
  /\ Goto("dial", "done")
  /\ UNCHANGED <<kind, filed, resize, closed, reaped, exitCode, bufVars, baseVars,
                 logVars, linkVars, farVars, callVars, localVars, readable, notifyGone, wake>>

DialConnects ==
  /\ pc["dial"] = (IF kind = "ssh" THEN "login" ELSE "connect") /\ CanRun("dial")
  /\ built' = TRUE /\ linkUp' = TRUE
  /\ pc' = [pc EXCEPT !["dial"] = "adopt",
                      !["bridge"] = IF kind = "ssh" THEN @ ELSE "wait"]
  /\ UNCHANGED <<kind, handleVars, bufVars, sessState, handler, closing, once, fin,
                 logVars, backendEnd, farVars, callVars, localVars, wakeVars>>

(* Fault: a session built for a retired handle is dropped, not closed.     *)
AdoptDrops ==
  /\ pc["dial"] = "adopt" /\ CanRun("dial")
  /\ IF closed
     THEN Goto("dial", "done") /\ UNCHANGED <<filed, handler>>
     ELSE /\ filed' = TRUE /\ handler' = TRUE
          /\ pc' = [pc EXCEPT !["dial"] = "pending", !["pump"] = "read"]
  /\ UNCHANGED <<kind, state, ended, dialFailed, err, resize, closed, reaped, exitCode,
                 events, bufVars, built, sessState, closing, once, fin, logVars, linkVars,
                 farVars, callVars, localVars, wakeVars>>

Adopt ==
  /\ pc["dial"] = "adopt" /\ CanRun("dial")
  /\ IF closed
     THEN /\ Goto("dial", "mark")
          /\ UNCHANGED <<filed, handler>>
     ELSE /\ filed' = TRUE /\ handler' = TRUE
          /\ pc' = [pc EXCEPT !["dial"] = "pending", !["pump"] = "read"]
  /\ UNCHANGED <<kind, state, ended, dialFailed, err, resize, closed, reaped, exitCode,
                 events, bufVars, built, sessState, closing, once, fin, logVars, linkVars,
                 farVars, callVars, localVars, wakeVars>>

(* What Session.Resize does to the far end: nothing on serial or when the  *)
(* link is already closed.                                                 *)
FarSizeAfter(size) == IF kind # "serial" /\ linkUp THEN size ELSE farSize

(* Fault: the geometry remembered during the connect is never applied.     *)
PendingForgotten ==
  /\ pc["dial"] = "pending" /\ CanRun("dial")
  /\ Goto("dial", "readState")
  /\ UNCHANGED <<kind, handleVars, bufVars, baseVars, logVars, linkVars, farVars, callVars,
                 localVars, wakeVars>>

ApplyPending ==
  /\ pc["dial"] = "pending" /\ CanRun("dial")
  /\ farSize' = IF resize # 0 THEN FarSizeAfter(resize) ELSE farSize
  /\ Goto("dial", "readState")
  /\ UNCHANGED <<kind, handleVars, bufVars, baseVars, logVars, linkVars, sent, taken,
                 wireEnd, exitStatus, callVars, localVars, wakeVars>>

ReadState ==
  /\ pc["dial"] = "readState" /\ CanRun("dial")
  /\ seen' = sessState
  /\ Goto("dial", "publish")
  /\ UNCHANGED <<kind, handleVars, bufVars, baseVars, logVars, linkVars, farVars,
                 callVars, chunk, readErr, wakeVars>>

PublishSeen ==
  /\ pc["dial"] = "publish" /\ CanRun("dial")
  /\ Publish("dial", seen)
  /\ Goto("dial", "done")
  /\ UNCHANGED <<kind, ended, dialFailed, err, filed, resize, closed, reaped, exitCode,
                 bufVars, baseVars, logVars, linkVars, farVars, callVars, localVars,
                 readable, notifyGone, wake>>

Dialing == \/ DialAuthenticating \/ DialFails \/ FailDial \/ DialConnects
           \/ Adopt \/ ApplyPending \/ ReadState \/ PublishSeen
           \/ MarkClosing("dial") \/ CloseLink("dial")

-----------------------------------------------------------------------------
(* The read loop: OutputBuffer.Pump over readTap over the transport, then  *)
(* the reaping of the exit status.  A read gives bytes (chunk # 0) or an   *)
(* error; none of the three transports returns both at once.               *)

ReadReturns(n, e) ==
  /\ chunk' = n /\ readErr' = e
  /\ taken' = IF n = 0 THEN taken ELSE n
  /\ backendEnd' = IF kind # "ssh" /\ e # "none" /\ backendEnd = "open"
                   THEN e ELSE backendEnd

PumpRead ==
  /\ pc["pump"] = "read" /\ CanRun("pump")
  /\ \/ /\ linkUp /\ taken < sent
        /\ ReadReturns(taken + 1, "none")
     \/ /\ linkUp /\ taken = sent /\ wireEnd # "up"
        /\ ReadReturns(0, wireEnd)
     \/ /\ ~linkUp
        /\ ReadReturns(0, "error")
  /\ Goto("pump", "tap")
  /\ UNCHANGED <<kind, handleVars, bufVars, baseVars, logVars, linkUp, sent, wireEnd,
                 exitStatus, farSize, callVars, seen, wakeVars>>

PumpTap ==
  /\ pc["pump"] = "tap" /\ CanRun("pump")
  /\ logged' = IF chunk # 0 /\ logOpen THEN logged \cup {chunk} ELSE logged
  /\ Goto("pump", IF readErr = "none" THEN "append" ELSE "finish")
  /\ UNCHANGED <<kind, handleVars, bufVars, baseVars, logOpen, linkVars, farVars,
                 callVars, localVars, wakeVars>>

PumpAppend ==
  /\ pc["pump"] = "append" /\ CanRun("pump")
  /\ IF bufClosed
     THEN /\ Goto("pump", "check")
          /\ UNCHANGED <<buf, wake>>
     ELSE /\ buf' = Append(buf, chunk)
          /\ wake' = "want"
          /\ Goto("pump", "read")
  /\ UNCHANGED <<kind, handleVars, eof, bufClosed, baseVars, logVars, linkVars, farVars,
                 callVars, localVars, readable, notifyGone, poke>>

PumpEof ==
  /\ pc["pump"] = "eof" /\ CanRun("pump")
  /\ eof' = TRUE
  /\ wake' = "want"
  /\ Goto("pump", "check")
  /\ UNCHANGED <<kind, handleVars, buf, bufClosed, baseVars, logVars, linkVars, farVars,
                 callVars, localVars, readable, notifyGone, poke>>

PumpCheck ==
  /\ pc["pump"] = "check" /\ CanRun("pump")
  /\ Goto("pump", IF closed THEN "done" ELSE "reap")
  /\ UNCHANGED <<kind, handleVars, bufVars, baseVars, logVars, linkVars, farVars,
                 callVars, localVars, wakeVars>>

(* Fault: a channel that closes without a status is waited for.            *)
ExitMustArrive == IF kind = "ssh" THEN exitStatus = "status" ELSE once = "done"

(* WaitExit: the channel's exit status on SSH, base.done on the others.    *)
ExitIsKnown == IF kind = "ssh" THEN exitStatus # "pending" \/ ~linkUp ELSE once = "done"

PumpReap ==
  /\ pc["pump"] = "reap" /\ CanRun("pump") /\ ExitIsKnown
  /\ exitCode' = IF kind = "ssh" /\ exitStatus = "status" THEN "status" ELSE "unknown"
  /\ reaped' = TRUE
  /\ poke' = [poke EXCEPT !["pump"] = "want"]
  /\ Goto("pump", "done")
  /\ UNCHANGED <<kind, state, ended, dialFailed, err, filed, resize, closed, events,
                 bufVars, baseVars, logVars, linkVars, farVars, callVars, localVars,
                 readable, notifyGone, wake>>

Pumping == PumpRead \/ PumpTap \/ PumpAppend \/ PumpEof \/ PumpCheck \/ PumpReap

(* The goroutine Wrap starts for telnet and serial.                        *)
Bridge ==
  /\ pc["bridge"] = "wait" /\ backendEnd # "open"
  /\ Goto("bridge", "finish")
  /\ UNCHANGED <<kind, handleVars, bufVars, baseVars, logVars, linkVars, farVars,
                 callVars, localVars, wakeVars>>

-----------------------------------------------------------------------------
(* The far end, and the kernel between it and the link.                    *)

FarSends ==
  /\ linkUp /\ wireEnd = "up" /\ sent < MaxChunks
  /\ sent' = sent + 1
  /\ UNCHANGED <<kind, handleVars, bufVars, baseVars, logVars, linkVars, taken, wireEnd,
                 exitStatus, farSize, callVars, localVars, wakeVars, pc>>

(* An unplugged serial port is always an error to go.bug.st/serial.        *)
FarEnds ==
  /\ linkUp /\ wireEnd = "up"
  /\ wireEnd' \in {"error"} \cup (IF kind = "serial" THEN {} ELSE {"eof"})
  /\ UNCHANGED <<kind, handleVars, bufVars, baseVars, logVars, linkVars, sent, taken,
                 exitStatus, farSize, callVars, localVars, wakeVars, pc>>

FarExits ==
  /\ kind = "ssh" /\ wireEnd # "up" /\ exitStatus = "pending"
  /\ exitStatus' \in {"missing"} \cup (IF wireEnd = "eof" THEN {"status"} ELSE {})
  /\ UNCHANGED <<kind, handleVars, bufVars, baseVars, logVars, linkVars, sent, taken,
                 wireEnd, farSize, callVars, localVars, wakeVars, pc>>

FarEnd == FarSends \/ FarEnds \/ FarExits

-----------------------------------------------------------------------------
(* The C calls (capi/capi.go).  A caller thread makes one at a time.       *)

CallerIdle == pc["caller"] = "idle" /\ CanRun("caller")

NextEvent ==
  /\ CallerIdle /\ events # <<>>
  /\ events' = Tail(events)
  /\ UNCHANGED <<kind, state, ended, dialFailed, err, filed, resize, closed, reaped,
                 exitCode, bufVars, baseVars, logVars, linkVars, farVars, callVars,
                 localVars, wakeVars, pc>>

Read(n) ==
  /\ CallerIdle /\ n \in 1..Len(buf)
  /\ buf' = SubSeq(buf, n + 1, Len(buf))
  /\ UNCHANGED <<kind, handleVars, eof, bufClosed, baseVars, logVars, linkVars, farVars,
                 callVars, localVars, wakeVars, pc>>

Resize ==
  /\ CallerIdle /\ asked < MaxResizes
  /\ asked' = asked + 1
  /\ IF filed
     THEN farSize' = FarSizeAfter(asked + 1) /\ UNCHANGED resize
     ELSE resize' = asked + 1 /\ UNCHANGED farSize
  /\ UNCHANGED <<kind, state, ended, dialFailed, err, filed, closed, reaped, exitCode,
                 events, bufVars, baseVars, logVars, linkVars, sent, taken, wireEnd,
                 exitStatus, writeFailures, localVars, wakeVars, pc>>

(* A write the transport refuses.  Before the handoff omegassh_write turns *)
(* the caller away and leaves the handle alone, so only a live session is  *)
(* disturbed by one: the backend is over, and the error goes out.          *)
WriteFails ==
  /\ CallerIdle /\ filed /\ writeFailures < MaxWriteFailures
  /\ writeFailures' = writeFailures + 1
  /\ backendEnd' = IF kind # "ssh" /\ backendEnd = "open" THEN "error" ELSE backendEnd
  /\ Goto("caller", "writeError")
  /\ UNCHANGED <<kind, handleVars, bufVars, baseVars, logVars, linkUp, farVars, asked,
                 localVars, wakeVars>>

EmitWriteError ==
  /\ pc["caller"] = "writeError" /\ CanRun("caller")
  /\ OnEvent("caller", "writeError")
  /\ Goto("caller", "idle")
  /\ UNCHANGED <<kind, dialFailed, filed, resize, closed, reaped, exitCode, bufVars,
                 baseVars, logVars, linkVars, farVars, callVars, localVars, readable,
                 notifyGone, wake>>

Alive == ~(closed \/ dialFailed \/ (filed /\ eof /\ reaped))

(* omegassh_close, step by step.                                           *)

Close ==
  /\ CallerIdle /\ ~closed
  /\ closed' = TRUE
  /\ Goto("caller", IF filed THEN "detach" ELSE "bufClose")
  /\ UNCHANGED <<kind, state, ended, dialFailed, err, filed, resize, reaped, exitCode,
                 events, bufVars, baseVars, logVars, linkVars, farVars, callVars,
                 localVars, wakeVars>>

CloseHandler ==
  /\ pc["caller"] = "detach"
  /\ handler' = FALSE
  /\ Goto("caller", "bufClose")
  /\ UNCHANGED <<kind, handleVars, bufVars, built, sessState, closing, once, fin, logVars,
                 linkVars, farVars, callVars, localVars, wakeVars>>

CloseBuffer ==
  /\ pc["caller"] = "bufClose" /\ wake # "held"
  /\ bufClosed' = TRUE
  /\ buf' = <<>>
  /\ Goto("caller", IF filed THEN "mark" ELSE "notifyClose")
  /\ UNCHANGED <<kind, handleVars, eof, baseVars, logVars, linkVars, farVars, callVars,
                 localVars, wakeVars>>

CloseNotifier ==
  /\ pc["caller"] = "notifyClose"
  /\ \A t \in Threads : poke[t] # "held"
  /\ notifyGone' = TRUE
  /\ readable' = FALSE
  /\ Goto("caller", "closed")
  /\ UNCHANGED <<kind, handleVars, bufVars, baseVars, logVars, linkVars, farVars,
                 callVars, localVars, poke, wake>>

Closing == \/ CloseHandler \/ CloseBuffer \/ CloseNotifier
           \/ MarkClosing("caller") \/ CloseLink("caller")

Calling == \/ NextEvent \/ (\E n \in 1..MaxChunks : Read(n))
           \/ Resize \/ WriteFails \/ EmitWriteError \/ Close

-----------------------------------------------------------------------------
(* Every goroutine is scheduled, a telnet or serial connect ends within    *)
(* its timeout, and an SSH server that ends the stream closes the channel. *)
(* An SSH dial that waits for a bastion, a channel or a shell has no       *)
(* deadline and may wait for ever; Dial has its stages and their deadlines.*)
(* Nothing makes the far end speak or hang up, or the caller call.         *)

Library == Waking \/ Finishing \/ Dialing \/ Pumping \/ Bridge
Next    == Library \/ FarEnd \/ Calling \/ Closing

DialWaits == kind = "ssh" /\ pc["dial"] \in {"connect", "login"}

Fairness ==
  /\ \A t \in Threads : /\ WF_vars(PokeLock(t))
                        /\ WF_vars(PokeWake(t))
                        /\ WF_vars(BeginFinish(t) \/ FinishReturns(t))
  /\ WF_vars(NotifyLock \/ NotifyWake)
  /\ WF_vars(FinishError \/ FinishState \/ FinishEmit \/ FinishClose)
  /\ WF_vars(~DialWaits /\ Dialing) /\ WF_vars(Pumping) /\ WF_vars(Bridge)
  /\ WF_vars(EmitWriteError) /\ WF_vars(Closing) /\ WF_vars(FarExits)

Spec     == Init /\ [][Next]_vars
FairSpec == Spec /\ Fairness

-----------------------------------------------------------------------------
Labels == {"connect", "login", "report", "adopt", "pending", "readState", "publish",
           "mark", "unlink", "finish", "done", "none", "read", "tap", "append", "eof",
           "check", "reap", "wait", "idle", "writeError", "detach", "bufClose",
           "notifyClose", "closed"}

(* The variables have their types, and the event queue its capacity.       *)
TypeOK ==
  /\ kind \in {"ssh", "telnet", "serial"}
  /\ state \in States /\ err \in Errors \cup {"none"}
  /\ ended \in BOOLEAN /\ dialFailed \in BOOLEAN /\ filed \in BOOLEAN
  /\ closed \in BOOLEAN /\ reaped \in BOOLEAN
  /\ resize \in Nat /\ exitCode \in {"unknown", "status"}
  /\ events \in Seq(Events) /\ Len(events) <= MaxQueuedEvents
  /\ readable \in BOOLEAN /\ notifyGone \in BOOLEAN
  /\ buf \in Seq(Nat) /\ eof \in BOOLEAN /\ bufClosed \in BOOLEAN
  /\ built \in BOOLEAN /\ sessState \in States /\ handler \in BOOLEAN /\ closing \in BOOLEAN
  /\ once \in {"fresh", "running", "done"}
  /\ fin \in [by : Threads \cup {"none"}, failed : BOOLEAN,
              step : {"none", "error", "state", "emit", "close"}]
  /\ logOpen \in BOOLEAN /\ logged \subseteq Nat
  /\ backendEnd \in {"open", "nil", "eof", "error"} /\ linkUp \in BOOLEAN
  /\ sent \in Nat /\ taken \in Nat /\ farSize \in Nat
  /\ wireEnd \in {"up", "eof", "error"} /\ exitStatus \in {"pending", "status", "missing"}
  /\ asked \in Nat /\ writeFailures \in Nat
  /\ pc \in [Threads -> Labels]
  /\ poke \in [Threads -> {"no", "want", "held"}] /\ wake \in {"no", "want", "held"}
  /\ chunk \in Nat /\ readErr \in {"none", "eof", "error"} /\ seen \in States

(* The agreement between the threads that the safety properties rest on:   *)
(* how far omegassh_close has come, what the locks around a wake exclude,  *)
(* what the dial has built so far, and who has settled the end.            *)
CloseInv ==
  /\ pc["caller"] \in {"idle", "writeError", "detach", "bufClose", "mark", "unlink",
                       "finish", "notifyClose", "closed"}
  /\ pc["caller"] \notin {"idle", "writeError"} => closed
  /\ pc["caller"] \in {"detach", "mark", "unlink", "finish"} => filed
  /\ pc["caller"] \in {"mark", "unlink", "finish", "notifyClose", "closed"} => bufClosed
  /\ pc["caller"] \in {"finish", "notifyClose", "closed"} /\ filed => ~linkUp

WakeInv ==
  /\ wake = "held" => ~bufClosed
  /\ notifyGone => bufClosed /\ \A t \in Threads : poke[t] # "held"

DialInv ==
  /\ pc["dial"] \in {"connect", "login", "report"} => ~built /\ ~ended
  /\ ~built => /\ pc["dial"] \in {"connect", "login", "report", "done"}
               /\ pc["pump"] = "none" /\ pc["bridge"] = "none"
               /\ ~filed /\ ~linkUp /\ once = "fresh"
  /\ pc["dial"] \in {"pending", "readState", "publish"} => filed
  /\ pc["dial"] = "finish" => ~linkUp
  /\ built /\ pc["dial"] = "done" => filed \/ ~linkUp
  /\ dialFailed => ~built /\ pc["dial"] = "done"

FinishInv ==
  /\ once # "running" => fin.step = "none"
  /\ ended => dialFailed \/ once = "done" \/ fin.step = "close"

(* The four together are inductive: every step of every thread keeps them. *)
HandleInv == CloseInv /\ WakeInv /\ DialInv /\ FinishInv

(* No wake is written to the notifier once omegassh_close has closed it:   *)
(* the window notifyMu and wakeMu exist to shut.                           *)
NoStrayWake ==
  notifyGone => /\ wake # "held"
                /\ \A t \in Threads : poke[t] # "held"

(* A handle never shows failed before it can say why (omegassh_error).     *)
ReasonBeforeVerdict == state = "failed" => err # "none"

(* A session the dial built is filed or shut, never both forgotten and     *)
(* open, and adopt and omegassh_close never both leave it to the other.    *)
AdoptedOrShut ==
  /\ (built /\ pc["dial"] = "done") => (filed \/ ~linkUp)
  /\ pc["caller"] = "closed" /\ filed => ~linkUp

(* Once the session has ended and the dial goroutine has gone, the handle  *)
(* says what the session said: no late connected is left standing.         *)
StoryIsSettled ==
  (filed /\ ~closed /\ once = "done" /\ pc["dial"] = "done") => state = sessState

(* The handle's story is the session's: a failure has its reason, and the  *)
(* end is the one the session came to.                                     *)
StoryIsTrue == ReasonBeforeVerdict /\ StoryIsSettled

(* The remembered geometry is never left unapplied on a session that is    *)
(* still up once the dial goroutine has gone.                              *)
RememberedSizeApplied ==
  (filed /\ pc["dial"] = "done" /\ linkUp /\ kind # "serial") => farSize >= resize

(* Whatever the pump has read is in the log.                               *)
LogIsComplete == pc["pump"] \in {"append", "eof", "reap"} /\ ~closing => logged = 1..taken

(* What arrived before there was anybody to take it is not lost: a size    *)
(* given during the connect, and output read before the caller drains.     *)
NothingForgotten == RememberedSizeApplied /\ LogIsComplete

(* A terminal verdict of the session or of a failed dial is never taken    *)
(* back.                                                                   *)
VerdictIsFinal == [][ended => state' = state]_vars

(* Nothing is published to a handle that omegassh_close has retired.       *)
FrozenAfterClose == [][closed => state' = state /\ err' = err /\ Len(events') <= Len(events)]_vars

(* omegassh_close returns whatever the far end does, and in the end        *)
(* everything is released, the dial goroutine, the pump, the bridge, the   *)
(* link and the log, whatever they were doing at the time; unless it is an *)
(* SSH dial still waiting for an answer, which has no deadline: then all   *)
(* is released once the answer or an error comes.                          *)
Released == /\ pc["dial"] = "done" /\ pc["caller"] = "closed"
            /\ pc["pump"] \in {"none", "done"} /\ pc["bridge"] \in {"none", "done"}
            /\ ~linkUp /\ ~logOpen
CloseReleases == /\ closed ~> pc["caller"] = "closed"
                 /\ (closed /\ ~DialWaits) ~> Released

(* A link that dies under an open handle is noticed: the handle stops      *)
(* being alive.                                                            *)
EndIsNoticed == wireEnd # "up" ~> ~Alive
=============================================================================
