-------------------------------- MODULE Telnet --------------------------------
(***************************************************************************)
(* One telnet connection (telnetx/telnet.go): the reader goroutine, which  *)
(* filters the byte stream and answers option negotiation, the threads     *)
(* that write, resize and close, and a far end that keeps to RFC 854.      *)
(* Bytes are numbers; a frame on the way out is what one call of           *)
(* conn.Write puts on the socket.                                          *)
(***************************************************************************)
EXTENDS Naturals, Sequences, SequencesExt

CONSTANTS
  Callers,         (* threads that resize: the dial goroutine and the GUI   *)
  Sizes,           (* window sizes <<cols, rows>>                           *)
  Texts,           (* what the application writes in one call               *)
  Streams,         (* what the far end sends besides negotiation, in bytes  *)
  PeerWill, PeerDo,(* options the far end would perform, would ask for      *)
  MaxMoves         (* bound: writes, resizes, and what the far end starts *)

IAC == 255   DONT == 254   DO == 253   WONT == 252   WILL == 251   SB == 250   SE == 240
Echo == 1    SGA == 3      TType == 24 NAWS == 31
CR == 13     LF == 10      NUL == 0
Verbs == {DONT, DO, WONT, WILL}
Byte == 0 .. 255
MaxDim == 65535                            (* two bytes for a dimension      *)

ASSUME TelnetAssumption ==
  /\ PeerWill \subseteq Byte /\ PeerDo \subseteq Byte
  /\ Texts \subseteq Seq(Byte) /\ Streams \subseteq Seq(Byte)
  /\ Sizes \subseteq [1 .. 2 -> 1 .. MaxDim]
  /\ MaxMoves \in Nat

(* A map from options to flags: an option is absent (undeclared), true     *)
(* ("yes") or false ("no").                                                  *)
Flag(map, o) == IF o \in DOMAIN map THEN map[o] ELSE "undeclared"
Put(map, o, flag) == [x \in DOMAIN map \cup {o} |-> IF x = o THEN flag ELSE map[x]]
Of(yes) == IF yes THEN "yes" ELSE "no"

VARIABLES
  crlf,                          (* how it was opened: newlines translated  *)
  state, sbOpt, sbBuf, prevCR,   (* the filter, carried across Read calls   *)
  localWill, remoteDo,           (* what we declared, per option            *)
  size,                          (* cols, rows                              *)
  conn, err,                     (* the socket as b.conn; why it ended      *)
  hungUp,                        (* the far end closed its side             *)
  reader,                        (* the reader: command being answered      *)
  caller,                        (* per caller: a resize being sent         *)
  inbound, wire,                 (* bytes to us; frames from us             *)
  peerWill, peerDo, peerRead,    (* the far end's declarations; frames read *)
  again,                         (* history: what it took up once more      *)
  moves,                         (* writes, resizes, what the far end began *)
  crashed,                       (* the runtime stopped the process         *)
  consumed, got, written         (* history: bytes filtered, data returned  *)

filterVars == <<state, sbOpt, sbBuf, prevCR, consumed, got>>
optVars    == <<localWill, remoteDo>>
peerVars   == <<peerWill, peerDo, peerRead, again>>
vars == <<crlf, filterVars, optVars, size, conn, err, hungUp, reader, caller, inbound, wire, peerVars,
          moves, crashed, written>>

------------------------------------------------------------------------------
(* Frames.                                                                 *)

Command(verb, opt) == <<IAC, verb, opt>>

(* The four size bytes, a literal 255 among them doubled.                  *)
SizeBytes(sz) == <<sz[1] \div 256, sz[1] % 256, sz[2] \div 256, sz[2] % 256>>
Doubled(b) == IF b = IAC THEN <<IAC, IAC>> ELSE <<b>>
NawsFrame(sz) ==
  <<IAC, SB, NAWS>> \o FlattenSeq([i \in 1 .. 4 |-> Doubled(SizeBytes(sz)[i])]) \o <<IAC, SE>>

TTypeFrame == <<IAC, SB, TType, 0, 88, IAC, SE>>      (* TType IS "X"        *)

WirePieceBare(p, i) == IF crlf /\ p[i] = CR THEN <<CR, LF>> ELSE <<p[i]>>   (* Fault *)
(* What one character of user data becomes on the wire.                    *)
WirePiece(p, i) ==
  CASE crlf /\ p[i] = CR -> IF i < Len(p) /\ p[i + 1] = LF THEN <<CR>> ELSE <<CR, LF>>
    [] ~crlf \/ p[i] # CR -> Doubled(p[i])
TransformWrite(p) == FlattenSeq([i \in 1 .. Len(p) |-> WirePiece(p, i)])

Idle == [step |-> "idle", verb |-> 0, opt |-> 0, size |-> <<>>]

Move == moves < MaxMoves /\ moves' = moves + 1

(* rawWrite: dropped once the socket is gone.                              *)
Out(frame) == wire' = IF conn = "up" THEN Append(wire, frame) ELSE wire

------------------------------------------------------------------------------
(* New and Connect: our offers are declared before anything is read.       *)
Init ==
  /\ crlf \in BOOLEAN
  /\ state = "data" /\ sbOpt = 0 /\ sbBuf = <<>> /\ prevCR = FALSE
  /\ localWill = [o \in {TType, NAWS} |-> "yes"] /\ remoteDo = [o \in {SGA, Echo} |-> "yes"]
  /\ size = <<80, 24>> /\ conn = "up" /\ err = "none" /\ hungUp = FALSE
  /\ reader = Idle /\ caller = [c \in Callers |-> Idle]
  /\ inbound = <<>>
  /\ wire = <<Command(WILL, TType), Command(WILL, NAWS), Command(DO, SGA), Command(DO, Echo)>>
  /\ peerWill = <<>> /\ peerDo = <<>> /\ peerRead = 0 /\ again = {}
  /\ moves = 0
  /\ crashed = FALSE
  /\ consumed = <<>> /\ got = <<>> /\ written = <<>>

------------------------------------------------------------------------------
(* The reader: Read and filter, one byte at a time, so that every way the  *)
(* network may cut the stream is the same behaviour.                       *)

(* filter's emit: a NUL after a CR is dropped.                             *)
EmitByte(c) ==
  IF prevCR /\ c = NUL
  THEN prevCR' = FALSE /\ UNCHANGED got
  ELSE prevCR' = (c = CR) /\ got' = Append(got, c)

NoEmit == UNCHANGED <<prevCR, got>>

(* The commands that would change what we declared (onWill, onWont, onDo,  *)
(* onDont), and the answer.                                                *)
Wants(verb, opt) == \/ verb = WILL /\ opt \in {Echo, SGA}
                    \/ verb = DO /\ opt \in {NAWS, TType, SGA}
Declared(verb) == IF verb \in {WILL, WONT} THEN remoteDo ELSE localWill
ChangesAlways(verb, opt) == TRUE                                          (* Fault *)
ChangesOnce(verb, opt) == opt \notin DOMAIN Declared(verb)                (* Fault *)
Changes(verb, opt) ==
  Flag(Declared(verb), opt) # Of(verb \in {WILL, DO} /\ Wants(verb, opt))
Answer(verb, opt) ==
  IF verb \in {WILL, WONT} THEN (IF Wants(verb, opt) THEN DO ELSE DONT)
                           ELSE (IF Wants(verb, opt) THEN WILL ELSE WONT)

CommandState(c) ==
  CASE c = WILL -> "will" [] c = WONT -> "wont" [] c = DO -> "do" [] c = DONT -> "dont"
VerbOf(s) == CASE s = "will" -> WILL [] s = "wont" -> WONT [] s = "do" -> DO [] s = "dont" -> DONT

(* One turn of filter's loop that answers nothing.                         *)
FilterByte(c) ==
  \/ /\ state = "data" /\ c # IAC
     /\ EmitByte(c) /\ UNCHANGED <<state, sbOpt, sbBuf>>
  \/ /\ state = "data" /\ c = IAC
     /\ state' = "iac" /\ NoEmit /\ UNCHANGED <<sbOpt, sbBuf>>
  \/ /\ state = "iac" /\ c = IAC
     /\ EmitByte(IAC) /\ state' = "data" /\ UNCHANGED <<sbOpt, sbBuf>>
  \/ /\ state = "iac" /\ c \in Verbs
     /\ state' = CommandState(c) /\ NoEmit /\ UNCHANGED <<sbOpt, sbBuf>>
  \/ /\ state = "iac" /\ c = SB
     /\ state' = "sb" /\ sbOpt' = 0 /\ sbBuf' = <<>> /\ NoEmit
  \/ /\ state = "iac" /\ c \notin Verbs \cup {IAC, SB}
     /\ state' = "data" /\ NoEmit /\ UNCHANGED <<sbOpt, sbBuf>>
  \/ /\ state \in {"will", "wont", "do", "dont"} /\ ~Changes(VerbOf(state), c)
     /\ state' = "data" /\ NoEmit /\ UNCHANGED <<sbOpt, sbBuf>>
  \/ /\ state = "sb"
     /\ sbOpt' = c /\ state' = "sbData" /\ NoEmit /\ UNCHANGED sbBuf
  \/ /\ state = "sbData" /\ c # IAC
     /\ sbBuf' = Append(sbBuf, c) /\ NoEmit /\ UNCHANGED <<state, sbOpt>>
  \/ /\ state = "sbData" /\ c = IAC
     /\ state' = "sbIac" /\ NoEmit /\ UNCHANGED <<sbOpt, sbBuf>>
  \/ /\ state = "sbIac" /\ c = IAC
     /\ sbBuf' = Append(sbBuf, IAC) /\ state' = "sbData" /\ NoEmit /\ UNCHANGED sbOpt
  \/ /\ state = "sbIac" /\ c \notin {SE, IAC}
     /\ state' = "data" /\ NoEmit /\ UNCHANGED <<sbOpt, sbBuf>>

Consume == /\ conn # "gone" /\ ~crashed /\ reader = Idle /\ inbound # <<>>
           /\ inbound' = Tail(inbound) /\ consumed' = Append(consumed, Head(inbound))

Read == /\ Consume /\ FilterByte(Head(inbound))
        /\ UNCHANGED <<optVars, size, conn, err, hungUp, reader, caller, wire, peerVars, moves,
                       crashed, written>>

(* A command that changes a declaration: the reader is writing the map.    *)
ReadCommand ==
  /\ Consume /\ state \in {"will", "wont", "do", "dont"} /\ Changes(VerbOf(state), Head(inbound))
  /\ reader' = [step |-> "declare", verb |-> VerbOf(state), opt |-> Head(inbound), size |-> <<>>]
  /\ state' = "data" /\ NoEmit
  /\ UNCHANGED <<sbOpt, sbBuf, optVars, size, conn, err, hungUp, caller, wire, peerVars, moves,
                 crashed, written>>

Declare ==
  /\ reader.step = "declare" /\ ~crashed
  /\ LET now == Put(Declared(reader.verb), reader.opt, Of(Wants(reader.verb, reader.opt)))
     IN  IF reader.verb \in {WILL, WONT} THEN remoteDo' = now /\ UNCHANGED localWill
                                         ELSE localWill' = now /\ UNCHANGED remoteDo
  /\ Out(Command(Answer(reader.verb, reader.opt), reader.opt))
  /\ reader' = IF reader.verb = DO /\ reader.opt = NAWS THEN [Idle EXCEPT !.step = "size"] ELSE Idle
  /\ UNCHANGED <<filterVars, size, conn, err, hungUp, caller, inbound, peerVars, moves, crashed, written>>

(* sendNAWS on the reader: the size is copied under mu, sent without it.   *)
ReaderCopiesSize ==
  /\ reader.step = "size" /\ ~crashed
  /\ reader' = [reader EXCEPT !.step = "send", !.size = size]
  /\ UNCHANGED <<filterVars, optVars, size, conn, err, hungUp, caller, inbound, wire, peerVars,
                 moves, crashed, written>>

ReaderSendsSize ==
  /\ reader.step = "send" /\ ~crashed
  /\ Out(NawsFrame(reader.size)) /\ reader' = Idle
  /\ UNCHANGED <<filterVars, optVars, size, conn, err, hungUp, caller, inbound, peerVars, moves,
                 crashed, written>>

(* onSubneg answers a terminal type SEND only.                             *)
EndSubneg ==
  /\ Consume /\ state = "sbIac" /\ Head(inbound) = SE
  /\ IF sbOpt = TType /\ sbBuf # <<>> /\ sbBuf[1] = 1 THEN Out(TTypeFrame) ELSE UNCHANGED wire
  /\ state' = "data" /\ NoEmit
  /\ UNCHANGED <<sbOpt, sbBuf, optVars, size, conn, err, hungUp, reader, caller, peerVars, moves,
                 crashed, written>>

(* finish: the first reason stays.                                         *)
Finish(why) == err' = IF err = "none" THEN why ELSE err

(* conn.Read fails: the far end hung up, or Close closed the socket.       *)
ReadFails ==
  /\ err = "none" /\ ~crashed /\ reader = Idle
  /\ conn = "gone" \/ (hungUp /\ inbound = <<>>)
  /\ Finish("error")
  /\ UNCHANGED <<filterVars, optVars, size, conn, hungUp, reader, caller, inbound, wire,
                 peerVars, moves, crashed, written>>

Reader == Read \/ ReadCommand \/ Declare \/ ReaderCopiesSize \/ ReaderSendsSize
          \/ EndSubneg \/ ReadFails

------------------------------------------------------------------------------
(* The application: Write, Resize, Close.                                  *)

Write(p) ==
  /\ conn = "up" /\ ~crashed /\ Move
  /\ \/ wire' = Append(wire, TransformWrite(p)) /\ written' = Append(written, p)
        /\ UNCHANGED err
     \/ hungUp /\ Finish("error") /\ UNCHANGED <<wire, written>>
  /\ UNCHANGED <<filterVars, optVars, size, conn, hungUp, reader, caller, inbound, peerVars, crashed>>

(* The map is read under mu, which the reader does not take to write it:   *)
(* the runtime may stop the process.                                       *)
Resize(c, sz) ==
  /\ caller[c] = Idle /\ ~crashed /\ Move
  /\ size' = sz
  /\ \/ /\ caller' = [caller EXCEPT ![c] = IF Flag(localWill, NAWS) = "yes" THEN [Idle EXCEPT !.step = "size"]
                                                                   ELSE Idle]
        /\ UNCHANGED crashed
     \/ /\ reader.verb \in {DO, DONT} /\ crashed' = TRUE /\ UNCHANGED caller
  /\ UNCHANGED <<filterVars, optVars, conn, err, hungUp, reader, inbound, wire, peerVars, written>>

CopySize(c) ==
  /\ caller[c].step = "size" /\ ~crashed
  /\ caller' = [caller EXCEPT ![c] = [@ EXCEPT !.step = "send", !.size = size]]
  /\ UNCHANGED <<filterVars, optVars, size, conn, err, hungUp, reader, inbound, wire, peerVars,
                 moves, crashed, written>>

SendSize(c) ==
  /\ caller[c].step = "send" /\ ~crashed
  /\ Out(NawsFrame(caller[c].size)) /\ caller' = [caller EXCEPT ![c] = Idle]
  /\ UNCHANGED <<filterVars, optVars, size, conn, err, hungUp, reader, inbound, peerVars,
                 moves, crashed, written>>

(* Close: detached from the Backend, the reason recorded, then closed.     *)
Close ==
  /\ conn = "up" /\ ~crashed
  /\ conn' = "detached"
  /\ UNCHANGED <<filterVars, optVars, size, err, hungUp, reader, caller, inbound, wire,
                 peerVars, moves, crashed, written>>

CloseFinish ==
  /\ conn = "detached" /\ ~crashed
  /\ conn' = "finished" /\ Finish("nil")
  /\ UNCHANGED <<filterVars, optVars, size, hungUp, reader, caller, inbound, wire, peerVars,
                 moves, crashed, written>>

CloseSocket ==
  /\ conn = "finished" /\ ~crashed
  /\ conn' = "gone"
  /\ UNCHANGED <<filterVars, optVars, size, err, hungUp, reader, caller, inbound, wire,
                 peerVars, moves, crashed, written>>

Caller == \/ \E p \in Texts : Write(p)
          \/ \E c \in Callers : (\E sz \in Sizes : Resize(c, sz)) \/ CopySize(c) \/ SendSize(c)
          \/ Close \/ CloseFinish \/ CloseSocket

------------------------------------------------------------------------------
(* The far end (external).  It too answers only a change, and does not     *)
(* change its mind about an option it has declared while a command about   *)
(* it may be under way (RFC 1143).                                         *)

IsCommand(f) == Len(f) = 3 /\ f[1] = IAC /\ f[2] \in Verbs
Says(frames) == inbound' = inbound \o frames
PeerKeeps == UNCHANGED <<state, sbOpt, sbBuf, prevCR, consumed, got, optVars, size, conn, err,
                         reader, caller, wire, crashed, written>>

PeerReads ==
  /\ ~crashed /\ ~hungUp /\ peerRead < Len(wire) /\ peerRead' = peerRead + 1
  /\ LET f == wire[peerRead + 1]
         on(mine, wanted, yes, no) ==
           IF Flag(mine, f[3]) # Of(wanted)
           THEN Says(Command(IF wanted THEN yes ELSE no, f[3])) ELSE UNCHANGED inbound
         does == IsCommand(f) /\ f[2] = DO /\ f[3] \in PeerWill
         asks == IsCommand(f) /\ f[2] = WILL /\ f[3] \in PeerDo
     IN  \/ /\ IsCommand(f) /\ f[2] \in {DO, DONT}
            /\ peerWill' = Put(peerWill, f[3], Of(does))
            /\ on(peerWill, does, WILL, WONT) /\ UNCHANGED peerDo
         \/ /\ IsCommand(f) /\ f[2] \in {WILL, WONT}
            /\ peerDo' = Put(peerDo, f[3], Of(asks))
            /\ on(peerDo, asks, DO, DONT) /\ UNCHANGED peerWill
         \/ ~IsCommand(f) /\ UNCHANGED <<peerWill, peerDo, inbound>>
  /\ UNCHANGED <<hungUp, moves, again>> /\ PeerKeeps

Unheard(o) == \E i \in peerRead + 1 .. Len(wire) : IsCommand(wire[i]) /\ wire[i][3] = o
Settled(o) == inbound = <<>> /\ state = "data" /\ reader = Idle /\ ~Unheard(o)

PeerChanges(o) ==
  /\ ~crashed /\ ~hungUp /\ Move
  /\ \/ /\ o \in PeerWill /\ (o \notin DOMAIN peerWill \/ Settled(o))
        /\ peerWill' = Put(peerWill, o, Of(Flag(peerWill, o) # "yes")) /\ UNCHANGED peerDo
        /\ again' = IF Flag(peerWill, o) = "no" THEN again \cup {<<"theirs", o>>} ELSE again
        /\ Says(Command(IF Flag(peerWill, o) = "yes" THEN WONT ELSE WILL, o))
     \/ /\ o \in PeerDo /\ (o \notin DOMAIN peerDo \/ Settled(o))
        /\ peerDo' = Put(peerDo, o, Of(Flag(peerDo, o) # "yes")) /\ UNCHANGED peerWill
        /\ again' = IF Flag(peerDo, o) = "no" THEN again \cup {<<"ours", o>>} ELSE again
        /\ Says(Command(IF Flag(peerDo, o) = "yes" THEN DONT ELSE DO, o))
  /\ UNCHANGED <<hungUp, peerRead>> /\ PeerKeeps

PeerRepeats ==
  /\ ~crashed /\ ~hungUp /\ Move
  /\ \/ \E o \in DOMAIN peerWill : Says(Command(IF peerWill[o] = "yes" THEN WILL ELSE WONT, o))
     \/ \E o \in DOMAIN peerDo : Says(Command(IF peerDo[o] = "yes" THEN DO ELSE DONT, o))
  /\ UNCHANGED <<hungUp, peerVars>> /\ PeerKeeps

PeerSends(bytes) ==
  /\ ~crashed /\ ~hungUp /\ Move
  /\ Says(bytes)
  /\ UNCHANGED <<hungUp, peerVars>> /\ PeerKeeps

HangsUp ==
  /\ ~crashed /\ ~hungUp /\ hungUp' = TRUE
  /\ UNCHANGED <<peerVars, inbound, moves>> /\ PeerKeeps

Peer == PeerReads \/ (\E o \in PeerWill \cup PeerDo : PeerChanges(o)) \/ PeerRepeats
        \/ (\E b \in Streams : PeerSends(b)) \/ HangsUp

Next == (Reader \/ Caller \/ Peer) /\ UNCHANGED crlf
Spec == Init /\ [][Next]_vars

------------------------------------------------------------------------------
(* Reference: what a byte stream carries by RFC 854, read as a whole.      *)

From(s, k) == SubSeq(s, k, Len(s))

(* What follows a subnegotiation, of a stream that begins in its payload.  *)
AfterSubneg[s \in Seq(Byte)] ==
  IF Len(s) < 2 THEN <<>>
  ELSE IF s[1] # IAC THEN AfterSubneg[Tail(s)]
  ELSE IF s[2] = IAC THEN AfterSubneg[From(s, 3)]
  ELSE From(s, 3)

(* A stream begins with a byte of data, a doubled 255 or a command: what   *)
(* that carries, and what follows it.                                      *)
Carries(s) == IF s[1] # IAC THEN <<s[1]>>
              ELSE IF Len(s) > 1 /\ s[2] = IAC THEN <<IAC>> ELSE <<>>
Following(s) == IF s[1] # IAC THEN Tail(s)
                ELSE IF Len(s) = 1 THEN <<>>
                ELSE IF s[2] \in Verbs THEN From(s, 4)
                ELSE IF s[2] = SB THEN AfterSubneg[From(s, 4)]
                ELSE From(s, 3)

DataOf[s \in Seq(Byte)] == IF s = <<>> THEN <<>> ELSE Carries(s) \o DataOf[Following(s)]

(* CR NUL stands for CR.                                                   *)
Kept(s, i) == IF s[i] = NUL /\ i > 1 /\ s[i - 1] = CR THEN <<>> ELSE <<s[i]>>
BareCR(s) == FlattenSeq([i \in 1 .. Len(s) |-> Kept(s, i)])

(* A lone CR is the newline CR LF, where newlines are translated.          *)
Typed(p, i) == IF crlf /\ p[i] = CR /\ (i = Len(p) \/ p[i + 1] # LF) THEN <<CR, LF>> ELSE <<p[i]>>
Newlines(p) == FlattenSeq([i \in 1 .. Len(p) |-> Typed(p, i)])

(* The four bytes of a size frame, doubled ones read once.                 *)
SizeOf(f) ==
  LET d == DataOf[SubSeq(f, 4, Len(f) - 2)]
  IN  <<d[1] * 256 + d[2], d[3] * 256 + d[4]>>
IsSizeFrame(f) == Len(f) > 3 /\ f[1] = IAC /\ f[2] = SB /\ f[3] = NAWS

------------------------------------------------------------------------------
(* Properties.                                                             *)

(* Negotiation does not loop: the program never says the same thing about  *)
(* one option twice running, whatever the far end changes or repeats       *)
(* (package comment, telnet.go:24-27; onWill .. onDont).                   *)
Side(verb) == IF verb \in {DO, DONT} THEN "theirs" ELSE "ours"
SameMatter(f, g) == /\ IsCommand(f) /\ IsCommand(g) /\ f[3] = g[3]
                    /\ Side(f[2]) = Side(g[2])
NoPingPong ==
  \A i, j \in 1 .. Len(wire) :
    i < j /\ SameMatter(wire[i], wire[j]) /\ wire[i][2] = wire[j][2]
      => \E k \in i + 1 .. j - 1 : SameMatter(wire[k], wire[j]) /\ wire[k][2] # wire[j][2]

(* Once nothing is under way, both ends agree on every option either has   *)
(* spoken about, those the program refuses among them: onWill, onWont, onDo *)
(* and onDont miss no change.  But an option it refused, which the far end *)
(* took back and takes up once more, is not answered again                  *)
(* (telnet.go:359-361, 382-384): the far end holds it for agreed.           *)
Quiet == /\ conn = "up" /\ ~hungUp /\ ~crashed /\ inbound = <<>> /\ state = "data"
         /\ reader = Idle /\ peerRead = Len(wire)
Taken(side, o) == IF side = "theirs" THEN Wants(WILL, o) ELSE Wants(DO, o)
Agreed(side, mine, theirs, o) ==
  \/ (Flag(mine, o) = "yes") = (Flag(theirs, o) = "yes")
  \/ /\ ~Taken(side, o) /\ <<side, o>> \in again
     /\ Flag(mine, o) = "no" /\ Flag(theirs, o) = "yes"
Agreement ==
  Quiet => \A o \in UNION {DOMAIN localWill, DOMAIN remoteDo, DOMAIN peerWill, DOMAIN peerDo} :
             Agreed("ours", localWill, peerDo, o) /\ Agreed("theirs", remoteDo, peerWill, o)

(* The terminal gets the application's bytes and nothing else, however the *)
(* stream is cut into reads (filter), and the wire carries what was typed  *)
(* and sizes that were really set, though commands, sizes and text come    *)
(* from three goroutines (transformWrite, nawsFrame, rawWrite).            *)
ReadsIntact == got = BareCR(DataOf[consumed])
WritesIntact ==
  /\ DataOf[FlattenSeq(wire)] = FlattenSeq([i \in 1 .. Len(written) |-> Newlines(written[i])])
  /\ \A i \in 1 .. Len(wire) : IsSizeFrame(wire[i]) => SizeOf(wire[i]) \in Sizes \cup {<<80, 24>>}
DataIntact == ReadsIntact /\ WritesIntact

==============================================================================
