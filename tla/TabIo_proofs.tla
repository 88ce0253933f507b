------------------------------ MODULE TabIo_proofs ------------------------------
(***************************************************************************)
(* Proofs about what a terminal tab sends by itself and what it captures   *)
(* (TabIo).                                                                *)
(***************************************************************************)
EXTENDS TabIo, SequenceTheorems, WellFoundedInduction, TLAPS

------------------------------------------------------------------------------
(* Induction, over a set of numbers.                                       *)

(* A set of naturals that is not empty has a least element.                *)
LEMMA LeastOf ==
  ASSUME NEW T, T \subseteq Nat, T # {}
  PROVE  \E n \in T : \A m \in T : n <= m
  <1> DEFINE R == OpToRel(<, Nat)
  <1>1. IsWellFoundedOn(R, Nat)
    BY NatLessThanWellFounded
  <1>2. \A a, b \in Nat : a < b => <<a, b>> \in R
    BY DEF OpToRel
  <1> HIDE DEF R
  <1>3. \E n \in T : \A m \in T : ~(<<m, n>> \in R)
    BY <1>1, WFMin
  <1>4. PICK n \in T : \A m \in T : ~(<<m, n>> \in R)
    BY <1>3
  <1>5. ASSUME NEW m \in T PROVE n <= m
    <2>1. m \in Nat /\ n \in Nat
      OBVIOUS
    <2>2. ~(<<m, n>> \in R)
      BY <1>4
    <2>3. m < n => <<m, n>> \in R
      BY <1>2, <2>1
    <2> QED BY <2>1, <2>2, <2>3
  <1> QED BY <1>4, <1>5

(* A set that has 0 and is closed under successor has all of Nat.          *)
LEMMA AllOfNat ==
  ASSUME NEW T, 0 \in T, \A n \in Nat : n \in T => n + 1 \in T
  PROVE  Nat \subseteq T
  <1> DEFINE U == Nat \ T
  <1> SUFFICES ASSUME U # {} PROVE FALSE
    OBVIOUS
  <1>1. U \subseteq Nat
    OBVIOUS
  <1>2. \A n \in U : n \in Nat /\ n \notin T
    OBVIOUS
  <1>3. \A n \in Nat : n \notin U => n \in T
    OBVIOUS
  <1> HIDE DEF U
  <1>4. PICK n \in U : \A m \in U : n <= m
    BY <1>1, LeastOf
  <1>5. n # 0 /\ n \in Nat
    BY <1>2
  <1>6. n - 1 \in Nat /\ n - 1 < n /\ (n - 1) + 1 = n
    BY <1>5
  <1>7. n - 1 \in T
    BY <1>3, <1>4, <1>6
  <1> QED BY <1>2, <1>6, <1>7

------------------------------------------------------------------------------
(* FlattenSeq.                                                             *)

(* f is the running concatenation of s.                                    *)
Running(f, s, n) ==
  /\ DOMAIN f = 1 .. n
  /\ \A i \in 1 .. n : f[i] = IF i = 1 THEN s[i] ELSE f[i - 1] \o s[i]

LEMMA RunningExists ==
  ASSUME NEW S, NEW s \in Seq(Seq(S))
  PROVE  \E f \in [1 .. Len(s) -> Seq(S)] : Running(f, s, Len(s))
  <1> DEFINE L == Len(s)
             T == {n \in Nat : n <= L => \E f \in [1 .. n -> Seq(S)] : Running(f, s, n)}
  <1>1. L \in Nat /\ \A i \in 1 .. L : s[i] \in Seq(S)
    BY LenProperties
  <1>2. 0 \in T
    <2> DEFINE f == [i \in 1 .. 0 |-> <<>>]
    <2>1. f \in [1 .. 0 -> Seq(S)] /\ Running(f, s, 0)
      BY DEF Running
    <2> QED BY <2>1
  <1>3. ASSUME NEW n \in Nat, n \in T PROVE n + 1 \in T
    <2> SUFFICES ASSUME n + 1 <= L
                 PROVE  \E f \in [1 .. n + 1 -> Seq(S)] : Running(f, s, n + 1)
      OBVIOUS
    <2>1. PICK f \in [1 .. n -> Seq(S)] : Running(f, s, n)
      BY <1>1, <1>3
    <2> DEFINE last == IF n = 0 THEN s[1] ELSE f[n] \o s[n + 1]
               g == [i \in 1 .. n + 1 |-> IF i = n + 1 THEN last ELSE f[i]]
    <2>2. last \in Seq(S)
      <3>1. s[n + 1] \in Seq(S)
        BY <1>1
      <3>2. CASE n = 0
        BY <3>1, <3>2
      <3>3. CASE n # 0
        <4>1. f[n] \in Seq(S)
          BY <3>3
        <4> QED BY <3>1, <3>3, <4>1, ConcatProperties
      <3> QED BY <3>2, <3>3
    <2>3. g \in [1 .. n + 1 -> Seq(S)]
      <3> HIDE DEF last
      <3>1. \A i \in 1 .. n + 1 : i # n + 1 => i \in 1 .. n
        OBVIOUS
      <3> QED BY <2>2, <3>1
    <2>4. ASSUME NEW i \in 1 .. n + 1
          PROVE  g[i] = IF i = 1 THEN s[i] ELSE g[i - 1] \o s[i]
      <3>1. CASE i = n + 1
        <4>1. CASE n = 0
          BY <3>1, <4>1
        <4>2. CASE n # 0
          <5>1. g[i] = f[n] \o s[n + 1]
            BY <3>1, <4>2
          <5>2. n \in 1 .. n + 1 /\ n # n + 1 /\ i - 1 = n /\ i # 1
            BY <3>1, <4>2
          <5>3. g[n] = f[n]
            BY <5>2
          <5> QED BY <3>1, <5>1, <5>2, <5>3
        <4> QED BY <4>1, <4>2
      <3>2. CASE i # n + 1
        <4>1. i \in 1 .. n
          BY <3>2
        <4>2. g[i] = f[i]
          BY <3>2
        <4>3. f[i] = IF i = 1 THEN s[i] ELSE f[i - 1] \o s[i]
          BY <2>1, <4>1 DEF Running
        <4>4. i # 1 => i - 1 \in 1 .. n + 1 /\ i - 1 # n + 1
          BY <4>1
        <4>5. i # 1 => g[i - 1] = f[i - 1]
          BY <4>4
        <4> HIDE DEF g
        <4> QED BY <4>2, <4>3, <4>5
      <3> QED BY <3>1, <3>2
    <2>5. DOMAIN g = 1 .. n + 1
      OBVIOUS
    <2> HIDE DEF g
    <2> QED BY <2>3, <2>4, <2>5 DEF Running
  <1> HIDE DEF T
  <1>4. Nat \subseteq T
    BY <1>2, <1>3, AllOfNat
  <1>5. L \in T
    BY <1>1, <1>4
  <1> QED BY <1>5 DEF T

(* There is one, also over the beginning that two sequences share.         *)
LEMMA RunningUnique ==
  ASSUME NEW s, NEW t, NEW f, NEW g, NEW m \in Nat, NEW n \in Nat, m <= n,
         Running(f, s, m), Running(g, t, n), \A i \in 1 .. m : s[i] = t[i]
  PROVE  \A i \in 1 .. m : f[i] = g[i]
  <1> DEFINE T == {k \in Nat : k \in 1 .. m => f[k] = g[k]}
  <1>1. 0 \in T
    OBVIOUS
  <1>2. ASSUME NEW k \in Nat, k \in T PROVE k + 1 \in T
    <2> SUFFICES ASSUME k + 1 \in 1 .. m PROVE f[k + 1] = g[k + 1]
      OBVIOUS
    <2>1. k + 1 \in 1 .. n /\ s[k + 1] = t[k + 1] /\ (k + 1) - 1 = k
      OBVIOUS
    <2>2. f[k + 1] = IF k + 1 = 1 THEN s[k + 1] ELSE f[(k + 1) - 1] \o s[k + 1]
      BY DEF Running
    <2>3. g[k + 1] = IF k + 1 = 1 THEN t[k + 1] ELSE g[(k + 1) - 1] \o t[k + 1]
      BY <2>1 DEF Running
    <2>4. CASE k = 0
      BY <2>1, <2>2, <2>3, <2>4
    <2>5. CASE k # 0
      <3>1. f[k] = g[k]
        BY <1>2, <2>5
      <3> QED BY <2>1, <2>2, <2>3, <2>5, <3>1
    <2> QED BY <2>4, <2>5
  <1> HIDE DEF T
  <1>3. Nat \subseteq T
    BY <1>1, <1>2, AllOfNat
  <1> QED BY <1>3 DEF T

LEMMA FlattenRuns ==
  ASSUME NEW S, NEW s \in Seq(Seq(S)), s # <<>>
  PROVE  \E f \in [1 .. Len(s) -> Seq(S)] : Running(f, s, Len(s)) /\ FlattenSeq(s) = f[Len(s)]
  <1>1. Len(s) \in Nat \ {0}
    BY EmptySeq
  <1> DEFINE Is(f) == f = [i \in 1 .. Len(s) |-> IF i = 1 THEN s[i] ELSE f[i - 1] \o s[i]]
             flat == CHOOSE f : Is(f)
  <1>2. \A f : Running(f, s, Len(s)) /\ (\E D, R : f \in [D -> R]) => Is(f)
    BY DEF Running
  <1>3. \E f : Is(f)
    BY <1>2, RunningExists
  <1>4. Is(flat)
    BY <1>3
  <1>5. FlattenSeq(s) = flat[Len(s)]
    BY <1>1 DEF FlattenSeq
  <1> HIDE DEF flat
  <1>6. Running(flat, s, Len(s))
    BY <1>4 DEF Running
  <1>7. PICK g \in [1 .. Len(s) -> Seq(S)] : Running(g, s, Len(s))
    BY RunningExists
  <1>8. \A i \in 1 .. Len(s) : g[i] = flat[i]
    BY <1>1, <1>6, <1>7, RunningUnique
  <1>9. FlattenSeq(s) = g[Len(s)]
    BY <1>1, <1>5, <1>8
  <1> QED BY <1>7, <1>9

LEMMA FlattenEmpty == FlattenSeq(<<>>) = <<>>
  BY DEF FlattenSeq

LEMMA FlattenType ==
  ASSUME NEW S, NEW s \in Seq(Seq(S))
  PROVE  FlattenSeq(s) \in Seq(S)
  <1>1. CASE s = <<>>
    <2>1. <<>> \in Seq(S)
      BY EmptySeq
    <2> QED BY <1>1, <2>1, FlattenEmpty
  <1>2. CASE s # <<>>
    <2>1. Len(s) \in Nat \ {0}
      BY <1>2, EmptySeq
    <2>2. PICK f \in [1 .. Len(s) -> Seq(S)] : FlattenSeq(s) = f[Len(s)]
      BY <1>2, FlattenRuns
    <2>3. Len(s) \in 1 .. Len(s)
      BY <2>1
    <2>4. f[Len(s)] \in Seq(S)
      BY <2>3
    <2> QED BY <2>2, <2>4
  <1> QED BY <1>1, <1>2

(* A piece more at the end is that piece at the end of the whole.          *)
LEMMA FlattenAppend ==
  ASSUME NEW S, NEW s \in Seq(Seq(S)), NEW x \in Seq(S)
  PROVE  FlattenSeq(Append(s, x)) = FlattenSeq(s) \o x
  <1> DEFINE t == Append(s, x)
             n == Len(s)
  <1>1. /\ t \in Seq(Seq(S)) /\ t # <<>> /\ Len(t) = n + 1
        /\ \A i \in 1 .. n : t[i] = s[i]
        /\ t[n + 1] = x
    BY AppendProperties
  <1>2. n \in Nat
    BY LenProperties
  <1> HIDE DEF t
  <1>3. PICK g \in [1 .. Len(t) -> Seq(S)] : Running(g, t, Len(t)) /\ FlattenSeq(t) = g[Len(t)]
    BY <1>1, FlattenRuns
  <1>4. FlattenSeq(t) = IF n + 1 = 1 THEN x ELSE g[(n + 1) - 1] \o x
    <2> HIDE DEF n
    <2>1. Len(t) = n + 1 /\ n + 1 \in 1 .. n + 1
      BY <1>1, <1>2
    <2>2. g[n + 1] = IF n + 1 = 1 THEN t[n + 1] ELSE g[(n + 1) - 1] \o t[n + 1]
      BY <1>3, <2>1 DEF Running
    <2>3. t[n + 1] = x
      BY <1>1
    <2> QED BY <1>3, <2>1, <2>2, <2>3
  <1>5. CASE s = <<>>
    <2>1. n = 0
      BY <1>5
    <2>2. FlattenSeq(s) \o x = x
      BY <1>5, FlattenEmpty, ConcatEmptySeq
    <2> QED BY <1>4, <2>1, <2>2 DEF t
  <1>6. CASE s # <<>>
    <2>1. n \in Nat \ {0}
      BY <1>6, EmptySeq
    <2>2. PICK f \in [1 .. n -> Seq(S)] : Running(f, s, n) /\ FlattenSeq(s) = f[n]
      BY <1>6, FlattenRuns
    <2>3. Running(g, t, n + 1)
      BY <1>1, <1>3
    <2> HIDE DEF n
    <2>4. \A i \in 1 .. n : s[i] = t[i]
      BY <1>1
    <2> DEFINE k == n + 1
    <2>5. n <= k /\ k \in Nat
      BY <1>2
    <2>6. \A i \in 1 .. n : f[i] = g[i]
      <3>1. Running(f, s, n)
        BY <2>2
      <3>2. Running(g, t, k)
        BY <2>3
      <3> HIDE DEF k
      <3>3. n \in Nat
        BY <1>2
      <3> SUFFICES ASSUME NEW i \in 1 .. n PROVE f[i] = g[i]
        OBVIOUS
      <3> QED BY <2>4, <2>5, <3>1, <3>2, <3>3, RunningUnique
    <2>7. f[n] = g[n] /\ (n + 1) - 1 = n /\ n + 1 # 1
      BY <2>1, <2>6
    <2> QED BY <1>4, <2>2, <2>7 DEF t
  <1> QED BY <1>5, <1>6

LEMMA FlattenOne ==
  ASSUME NEW S, NEW x \in Seq(S)
  PROVE  FlattenSeq(<<x>>) = x
  <1>1. <<>> \in Seq(Seq(S)) /\ Append(<<>>, x) = <<x>>
    BY EmptySeq
  <1>2. FlattenSeq(<<x>>) = FlattenSeq(<<>>) \o x
    BY <1>1, FlattenAppend
  <1> QED BY <1>2, FlattenEmpty, ConcatEmptySeq

(* A sequence that is not empty is its beginning and its last element.     *)
LEMMA FrontLast ==
  ASSUME NEW S, NEW s \in Seq(S), NEW n \in Nat, Len(s) = n + 1
  PROVE  \E r \in Seq(S), x \in S : s = Append(r, x) /\ Len(r) = n
  <1> DEFINE r == SubSeq(s, 1, n)
             x == s[n + 1]
  <1>1. \A i \in 1 .. n + 1 : s[i] \in S
    BY LenProperties
  <1>2. x \in S
    BY <1>1
  <1>3. r \in Seq(S) /\ Len(r) = n /\ \A i \in 1 .. n : r[i] = s[i]
    <2>1. 1 \in Int /\ n \in Int /\ \A i \in 1 .. n : s[i] \in S
      BY <1>1
    <2>2. r \in Seq(S) /\ Len(r) = IF 1 <= n THEN n - 1 + 1 ELSE 0
      BY <2>1, SubSeqProperties
    <2>3. \A i \in 1 .. n - 1 + 1 : r[i] = s[1 + i - 1]
      BY <2>1, SubSeqProperties
    <2>4. \A i \in 1 .. n : i \in 1 .. n - 1 + 1 /\ 1 + i - 1 = i
      OBVIOUS
    <2>5. Len(r) = n
      BY <2>2
    <2> HIDE DEF r
    <2>6. \A i \in 1 .. n : r[i] = s[i]
      BY <2>3, <2>4
    <2> QED BY <2>2, <2>5, <2>6
  <1> HIDE DEF r, x
  <1>4. s = Append(r, x)
    <2>1. /\ Append(r, x) \in Seq(S) /\ Len(Append(r, x)) = n + 1
          /\ \A i \in 1 .. n : Append(r, x)[i] = r[i]
          /\ Append(r, x)[n + 1] = x
      BY <1>2, <1>3, AppendProperties
    <2>2. \A i \in 1 .. n + 1 : s[i] = Append(r, x)[i]
      BY <1>3, <2>1 DEF x
    <2> QED BY <2>1, <2>2, SeqEqual
  <1> QED BY <1>2, <1>3, <1>4

LEMMA FlattenConcat ==
  ASSUME NEW S, NEW s \in Seq(Seq(S)), NEW t \in Seq(Seq(S))
  PROVE  FlattenSeq(s \o t) = FlattenSeq(s) \o FlattenSeq(t)
  <1> DEFINE T == {n \in Nat : \A u \in Seq(Seq(S)) :
                     Len(u) = n => FlattenSeq(s \o u) = FlattenSeq(s) \o FlattenSeq(u)}
  <1>0. FlattenSeq(s) \in Seq(S)
    BY FlattenType
  <1>1. 0 \in T
    <2>1. ASSUME NEW u \in Seq(Seq(S)), Len(u) = 0
          PROVE  FlattenSeq(s \o u) = FlattenSeq(s) \o FlattenSeq(u)
      <3>1. u = <<>>
        BY <2>1, EmptySeq
      <3>2. s \o u = s
        BY <3>1, ConcatEmptySeq
      <3>3. FlattenSeq(s) \o <<>> = FlattenSeq(s)
        BY <1>0, ConcatEmptySeq
      <3> QED BY <3>1, <3>2, <3>3, FlattenEmpty
    <2> QED BY <2>1
  <1>2. ASSUME NEW n \in Nat, n \in T PROVE n + 1 \in T
    <2>1. ASSUME NEW u \in Seq(Seq(S)), Len(u) = n + 1
          PROVE  FlattenSeq(s \o u) = FlattenSeq(s) \o FlattenSeq(u)
      <3>1. PICK r \in Seq(Seq(S)), x \in Seq(S) : u = Append(r, x) /\ Len(r) = n
        BY <2>1, FrontLast
      <3>2. FlattenSeq(s \o r) = FlattenSeq(s) \o FlattenSeq(r)
        BY <1>2, <3>1
      <3>3. u = r \o <<x>> /\ <<x>> \in Seq(Seq(S))
        BY <3>1, AppendIsConcat
      <3>4. s \o r \in Seq(Seq(S))
        BY ConcatProperties
      <3>5. s \o u = Append(s \o r, x)
        <4>1. s \o (r \o <<x>>) = (s \o r) \o <<x>>
          BY <3>3, ConcatAssociative
        <4>2. Append(s \o r, x) = (s \o r) \o <<x>>
          BY <3>4, AppendIsConcat
        <4> QED BY <3>3, <4>1, <4>2
      <3>6. FlattenSeq(s \o u) = FlattenSeq(s \o r) \o x
        BY <3>4, <3>5, FlattenAppend
      <3>7. FlattenSeq(u) = FlattenSeq(r) \o x
        BY <3>1, FlattenAppend
      <3>8. FlattenSeq(r) \in Seq(S)
        BY FlattenType
      <3>9. (FlattenSeq(s) \o FlattenSeq(r)) \o x = FlattenSeq(s) \o (FlattenSeq(r) \o x)
        BY <1>0, <3>8, ConcatAssociative
      <3> QED BY <3>2, <3>6, <3>7, <3>9
    <2> QED BY <2>1
  <1> HIDE DEF T
  <1>3. Nat \subseteq T
    BY <1>1, <1>2, AllOfNat
  <1>4. Len(t) \in T
    BY <1>3, LenProperties
  <1> QED BY <1>4 DEF T

(* A function on the first n numbers is a sequence of length n.            *)
LEMMA FcnIsSeq ==
  ASSUME NEW S, NEW n \in Nat, NEW f \in [1 .. n -> S]
  PROVE  f \in Seq(S) /\ Len(f) = n
  <1>1. f \in Seq(S)
    BY SeqDef
  <1>2. Len(f) \in Nat /\ DOMAIN f = 1 .. Len(f)
    BY <1>1, LenProperties
  <1>3. 1 .. n = 1 .. Len(f)
    BY <1>2
  <1>4. ASSUME NEW k \in Nat, NEW m \in Nat, 1 .. k = 1 .. m, k < m PROVE FALSE
    <2>1. m \in 1 .. m /\ m \notin 1 .. k
      BY <1>4
    <2> QED BY <1>4, <2>1
  <1>5. ~(n < Len(f)) /\ ~(Len(f) < n)
    BY <1>2, <1>3, <1>4
  <1>6. Len(f) = n
    BY <1>2, <1>5
  <1> QED BY <1>1, <1>6

------------------------------------------------------------------------------
(* Types.                                                                  *)

Chars       == Seq(Nat)
Whats       == {"open", "chunk", "close", "whole", "bracketed", "key", "idle"}
Items       == [what : Whats, paste : Nat, chars : Chars]
Histories   == [text : Texts, conn : Nat]
StripStates == {"text", "escape", "csi", "string", "stringEsc"}

LinkOK    == link \in {"dialing", "connected", "down", "closed"} /\ conns \in Nat
FarOK     == far \in [bracketed : BOOLEAN, fullScreen : BOOLEAN]
PasteOK   == /\ asking \in Texts \cup {<<>>} /\ queue \in Seq(Chars) /\ bracketing \in BOOLEAN
             /\ pasteTimer \in BOOLEAN /\ pastes \in Seq(Histories)
GotOK     == got \in Seq(Items)
IdleOK    == paced \in BOOLEAN /\ idleOn \in BOOLEAN /\ idleTimer \in BOOLEAN
CaptureOK == /\ capture \in [open : BOOLEAN, state : StripStates, file : Seq(Byte)]
             /\ coming \in [bytes : Seq(Byte), text : BOOLEAN]
             /\ expected \in Seq(Byte) /\ aligned \in BOOLEAN
TypeOK    == LinkOK /\ FarOK /\ PasteOK /\ GotOK /\ IdleOK /\ CaptureOK

------------------------------------------------------------------------------
(* The capture.                                                            *)

(* From `state` the stripper reads `bytes`, drops them all and is back in  *)
(* the text: r is the states it goes through.                              *)
Run(r, state, bytes) ==
  /\ r \in [0 .. Len(bytes) -> StripStates]
  /\ r[0] = state /\ r[Len(bytes)] = "text"
  /\ \A i \in 1 .. Len(bytes) : /\ r[i] = StripState(r[i - 1], bytes[i])
                                /\ r[i - 1] = "text" => bytes[i] = ESC
Swallowed(state, bytes) == \E r : Run(r, state, bytes)

(* The rest of a word meets the stripper in the text; the rest of a control *)
(* sequence is swallowed from the state it is in.                          *)
Plain(bytes) == \A i \in DOMAIN bytes : bytes[i] # ESC
InStep(state, token) ==
  IF token.text THEN state = "text" /\ Plain(token.bytes) ELSE Swallowed(state, token.bytes)
InStepNow == capture.open /\ aligned => InStep(capture.state, coming)

LEMMA NothingSwallowed == Swallowed("text", <<>>)
  <1> DEFINE r == [i \in 0 .. 0 |-> "text"]
  <1>1. Len(<<>>) = 0
    OBVIOUS
  <1>2. r \in [0 .. 0 -> StripStates] /\ r[0] = "text"
    BY DEF StripStates
  <1> HIDE DEF r
  <1>3. Run(r, "text", <<>>)
    BY <1>1, <1>2 DEF Run
  <1> QED BY <1>3 DEF Swallowed

LEMMA InStepEmpty ==
  ASSUME NEW token, token.bytes = <<>>
  PROVE  InStep("text", token)
  BY NothingSwallowed DEF InStep, Plain

(* One byte on, the rest is still swallowed.                               *)
LEMMA SwallowOne ==
  ASSUME NEW state, NEW b \in Seq(Byte), b # <<>>, Swallowed(state, b)
  PROVE  /\ Swallowed(StripState(state, Head(b)), Tail(b))
         /\ state = "text" => Head(b) = ESC
  <1> DEFINE n == Len(b)
  <1>1. PICK r : Run(r, state, b)
    BY DEF Swallowed
  <1>2. n \in Nat \ {0} /\ Head(b) = b[1]
    BY EmptySeq
  <1>3. /\ Len(Tail(b)) = n - 1 /\ \A i \in 1 .. n - 1 : Tail(b)[i] = b[i + 1]
    BY <1>2, HeadTailProperties
  <1>4. /\ r \in [0 .. n -> StripStates] /\ r[0] = state /\ r[n] = "text"
        /\ \A i \in 1 .. n : /\ r[i] = StripState(r[i - 1], b[i])
                             /\ r[i - 1] = "text" => b[i] = ESC
    BY <1>1 DEF Run
  <1> HIDE DEF n
  <1>5. 1 \in 1 .. n /\ 1 - 1 = 0
    BY <1>2
  <1>6. r[1] = StripState(state, b[1]) /\ (state = "text" => b[1] = ESC)
    BY <1>4, <1>5
  <1> DEFINE q == [i \in 0 .. n - 1 |-> r[i + 1]]
  <1>7. \A i \in 0 .. n - 1 : i + 1 \in 0 .. n
    BY <1>2
  <1>8. q \in [0 .. n - 1 -> StripStates]
    BY <1>4, <1>7
  <1>9. q[0] = r[1] /\ q[n - 1] = "text"
    BY <1>2, <1>4
  <1>10. ASSUME NEW i \in 1 .. n - 1
         PROVE  /\ q[i] = StripState(q[i - 1], Tail(b)[i])
                /\ q[i - 1] = "text" => Tail(b)[i] = ESC
    <2>1. i + 1 \in 1 .. n /\ (i + 1) - 1 = i /\ i \in 0 .. n - 1 /\ i - 1 \in 0 .. n - 1 /\ (i - 1) + 1 = i
      BY <1>2
    <2>2. q[i] = r[i + 1] /\ q[i - 1] = r[i]
      BY <2>1
    <2>3. r[i + 1] = StripState(r[i], b[i + 1]) /\ (r[i] = "text" => b[i + 1] = ESC)
      BY <1>4, <2>1
    <2> HIDE DEF q
    <2> QED BY <1>3, <2>2, <2>3
  <1> HIDE DEF q
  <1>11. Run(q, StripState(state, b[1]), Tail(b))
    BY <1>3, <1>6, <1>8, <1>9, <1>10 DEF Run
  <1>12. Swallowed(StripState(state, b[1]), Tail(b))
    BY <1>11 DEF Swallowed
  <1> QED BY <1>2, <1>6, <1>12

(* A whole control sequence is swallowed from the text.                    *)
LEMMA SequenceSwallowed ==
  ASSUME NEW b \in Seq(Byte), ControlSequence(b)
  PROVE  Swallowed("text", b)
  <1> DEFINE n == Len(b)
  <1>1. n \in Nat /\ n >= 2 /\ b[1] = ESC
    BY LenProperties DEF ControlSequence
  <1>2. CASE n > 2 /\ b[2] = 91 /\ Final(b[n]) /\ \A i \in 3 .. n - 1 : ~Final(b[i])
    <2> DEFINE r == [i \in 0 .. n |-> IF i = 0 \/ i = n THEN "text" ELSE IF i = 1 THEN "escape" ELSE "csi"]
    <2>1. r \in [0 .. n -> StripStates] /\ r[0] = "text" /\ r[n] = "text"
      BY <1>1 DEF StripStates
    <2>2. ASSUME NEW i \in 1 .. n
          PROVE  r[i] = StripState(r[i - 1], b[i]) /\ (r[i - 1] = "text" => b[i] = ESC)
      <3>1. CASE i = 1
        BY <1>1, <1>2, <3>1 DEF StripState
      <3>2. CASE i = 2
        BY <1>1, <1>2, <3>2 DEF StripState
      <3>3. CASE i \in 3 .. n - 1
        <4>1. r[i] = "csi" /\ r[i - 1] = "csi"
          BY <3>3
        <4> QED BY <1>2, <3>3, <4>1 DEF StripState
      <3>4. CASE i = n /\ n > 2
        <4>1. r[i] = "text" /\ r[i - 1] = "csi"
          BY <1>1, <3>4
        <4> QED BY <1>2, <3>4, <4>1 DEF StripState
      <3> QED BY <1>1, <1>2, <3>1, <3>2, <3>3, <3>4
    <2> HIDE DEF r
    <2>3. Run(r, "text", b)
      BY <2>1, <2>2 DEF Run
    <2> QED BY <2>3 DEF Swallowed
  <1>3. CASE /\ n > 2 /\ Opener(b[2]) /\ \A i \in 3 .. n - 1 : b[i] # BEL
             /\ \A i \in 3 .. n - 1 : ~(b[i - 1] = ESC /\ b[i] = 92)
             /\ \/ b[n] = BEL /\ b[n - 1] # ESC
                \/ n > 3 /\ b[n] = 92 /\ b[n - 1] = ESC
    <2> DEFINE r == [i \in 0 .. n |-> IF i = 0 \/ i = n THEN "text"
                                      ELSE IF i = 1 THEN "escape"
                                      ELSE IF b[i] = ESC THEN "stringEsc" ELSE "string"]
    <2>0. b[2] # ESC
      BY <1>3 DEF Opener, ESC
    <2>1. r \in [0 .. n -> StripStates] /\ r[0] = "text" /\ r[n] = "text"
      BY <1>1 DEF StripStates
    <2>2. ASSUME NEW i \in 1 .. n
          PROVE  r[i] = StripState(r[i - 1], b[i]) /\ (r[i - 1] = "text" => b[i] = ESC)
      <3>1. CASE i = 1
        BY <1>1, <1>3, <3>1 DEF StripState
      <3>2. CASE i = 2
        <4>1. r[i] = "string" /\ r[i - 1] = "escape"
          BY <1>1, <1>3, <2>0, <3>2
        <4>2. b[i] # 91
          BY <1>3, <3>2 DEF Opener
        <4> QED BY <1>3, <3>2, <4>1, <4>2 DEF StripState
      <3>3. CASE i \in 3 .. n - 1
        <4>1. r[i] = (IF b[i] = ESC THEN "stringEsc" ELSE "string")
          BY <3>3
        <4>2. r[i - 1] = (IF b[i - 1] = ESC THEN "stringEsc" ELSE "string")
          BY <1>1, <3>3
        <4>3. b[i] # BEL /\ ~(b[i - 1] = ESC /\ b[i] = 92)
          BY <1>3, <3>3
        <4> QED BY <4>1, <4>2, <4>3 DEF StripState, ESC
      <3>4. CASE i = n /\ n > 2
        <4>1. r[i] = "text"
          BY <1>1, <3>4
        <4>2. r[i - 1] = (IF b[i - 1] = ESC THEN "stringEsc" ELSE "string")
          BY <1>1, <3>4
        <4> QED BY <1>3, <3>4, <4>1, <4>2 DEF StripState, ESC, BEL
      <3> QED BY <1>1, <1>3, <3>1, <3>2, <3>3, <3>4
    <2> HIDE DEF r
    <2>3. Run(r, "text", b)
      BY <2>1, <2>2 DEF Run
    <2> QED BY <2>3 DEF Swallowed
  <1>4. CASE /\ \A i \in 2 .. n - 1 : b[i] \in 32 .. 47
             /\ b[n] \in 48 .. 126 /\ b[n] # 91 /\ ~Opener(b[n])
    <2> DEFINE r == [i \in 0 .. n |-> IF i = 0 \/ i = n THEN "text" ELSE "escape"]
    <2>1. r \in [0 .. n -> StripStates] /\ r[0] = "text" /\ r[n] = "text"
      BY <1>1 DEF StripStates
    <2>2. ASSUME NEW i \in 1 .. n
          PROVE  r[i] = StripState(r[i - 1], b[i]) /\ (r[i - 1] = "text" => b[i] = ESC)
      <3>1. CASE i = 1
        BY <1>1, <1>4, <3>1 DEF StripState
      <3>2. CASE i \in 2 .. n - 1
        <4>1. r[i] = "escape" /\ r[i - 1] = "escape"
          BY <3>2
        <4>2. b[i] \in 32 .. 47
          BY <1>4, <3>2
        <4>3. b[i] # 91 /\ ~Opener(b[i])
          <5>1. \A c \in 32 .. 47 : c # 91 /\ c \notin {93, 80, 88, 94, 95}
            OBVIOUS
          <5> QED BY <4>2, <5>1 DEF Opener
        <4> QED BY <4>1, <4>2, <4>3 DEF StripState
      <3>3. CASE i = n
        <4>1. r[i] = "text" /\ r[i - 1] = "escape"
          BY <1>1, <3>3
        <4>2. b[i] # 91 /\ ~Opener(b[i]) /\ b[i] \notin 32 .. 47
          <5>1. \A c \in 48 .. 126 : c \notin 32 .. 47
            OBVIOUS
          <5>2. b[i] \in 48 .. 126 /\ b[i] # 91 /\ ~Opener(b[i])
            BY <1>4, <3>3
          <5> HIDE DEF r
          <5> QED BY <5>1, <5>2
        <4> QED BY <4>1, <4>2 DEF StripState
      <3> QED BY <1>1, <3>1, <3>2, <3>3
    <2> HIDE DEF r
    <2>3. Run(r, "text", b)
      BY <2>1, <2>2 DEF Run
    <2> QED BY <2>3 DEF Swallowed
  <1> QED BY <1>2, <1>3, <1>4 DEF ControlSequence

------------------------------------------------------------------------------
(* The conversion of newlines, character by character.                     *)

Conv(s) ==
  [i \in 1 .. Len(s) |->
     IF s[i] # LF THEN <<s[i]>> ELSE IF i > 1 /\ s[i - 1] = CR THEN <<>> ELSE <<CR>>]

LEMMA ConvFacts ==
  ASSUME NEW s \in Chars
  PROVE  /\ Conv(s) \in Seq(Chars) /\ Len(Conv(s)) = Len(s)
         /\ Converted(s) = FlattenSeq(Conv(s)) /\ Converted(s) \in Chars
  <1>1. Len(s) \in Nat /\ \A i \in 1 .. Len(s) : s[i] \in Nat
    BY LenProperties DEF Chars
  <1>2. <<>> \in Chars /\ <<CR>> \in Chars /\ \A c \in Nat : <<c>> \in Chars
    BY DEF Chars, CR
  <1>3. Conv(s) \in [1 .. Len(s) -> Chars]
    BY <1>1, <1>2 DEF Conv
  <1>4. Conv(s) \in Seq(Chars) /\ Len(Conv(s)) = Len(s)
    BY <1>1, <1>3, FcnIsSeq
  <1>5. Converted(s) = FlattenSeq(Conv(s))
    BY DEF Converted, Conv
  <1>6. FlattenSeq(Conv(s)) \in Chars
    BY <1>4, FlattenType DEF Chars
  <1> QED BY <1>4, <1>5, <1>6

(* A text that is cut anywhere but inside a CRLF is converted in two.      *)
LEMMA ConvertedConcat ==
  ASSUME NEW s \in Chars, NEW t \in Chars,
         ~(s # <<>> /\ s[Len(s)] = CR /\ t # <<>> /\ t[1] = LF)
  PROVE  Converted(s \o t) = Converted(s) \o Converted(t)
  <1> DEFINE u == s \o t
             m == Len(s)
             n == Len(t)
  <1>1. m \in Nat /\ n \in Nat
    BY LenProperties DEF Chars
  <1>2. /\ u \in Chars /\ Len(u) = m + n
        /\ \A i \in 1 .. m + n : u[i] = IF i <= m THEN s[i] ELSE t[i - m]
    BY ConcatProperties DEF Chars
  <1>3. /\ Conv(s) \in Seq(Chars) /\ Len(Conv(s)) = m
        /\ Conv(t) \in Seq(Chars) /\ Len(Conv(t)) = n
        /\ Conv(u) \in Seq(Chars) /\ Len(Conv(u)) = m + n
    BY <1>2, ConvFacts
  <1> DEFINE v == Conv(s) \o Conv(t)
  <1>4. /\ v \in Seq(Chars) /\ Len(v) = m + n
        /\ \A i \in 1 .. m + n : v[i] = IF i <= m THEN Conv(s)[i] ELSE Conv(t)[i - m]
    <2> DEFINE a == Conv(s)
               b == Conv(t)
    <2>1. a \in Seq(Chars) /\ Len(a) = m /\ b \in Seq(Chars) /\ Len(b) = n
      BY <1>3
    <2> HIDE DEF a, b, m, n
    <2>2. /\ a \o b \in Seq(Chars) /\ Len(a \o b) = Len(a) + Len(b)
          /\ \A i \in 1 .. Len(a) + Len(b) : (a \o b)[i] = IF i <= Len(a) THEN a[i] ELSE b[i - Len(a)]
      BY <2>1, ConcatProperties
    <2> QED BY <2>1, <2>2 DEF a, b
  <1>5. m > 0 => s # <<>>
    BY EmptySeq
  <1>6. n > 0 => t # <<>>
    BY EmptySeq
  <1> HIDE DEF m, n, u, v
  <1>7. \A i \in 1 .. m : Conv(s)[i] = IF s[i] # LF THEN <<s[i]>>
                                       ELSE IF i > 1 /\ s[i - 1] = CR THEN <<>> ELSE <<CR>>
    BY DEF Conv, m
  <1>8. \A i \in 1 .. n : Conv(t)[i] = IF t[i] # LF THEN <<t[i]>>
                                       ELSE IF i > 1 /\ t[i - 1] = CR THEN <<>> ELSE <<CR>>
    BY DEF Conv, n
  <1>9. \A i \in 1 .. m + n : Conv(u)[i] = IF u[i] # LF THEN <<u[i]>>
                                           ELSE IF i > 1 /\ u[i - 1] = CR THEN <<>> ELSE <<CR>>
    BY <1>2 DEF Conv
  <1>10. ASSUME NEW i \in 1 .. m + n PROVE Conv(u)[i] = v[i]
    <2>1. CASE i <= m
      <3>1. i \in 1 .. m /\ u[i] = s[i] /\ v[i] = Conv(s)[i]
        BY <1>1, <1>2, <1>4, <2>1
      <3>2. i > 1 => i - 1 \in 1 .. m + n /\ i - 1 <= m
        BY <1>1, <2>1
      <3>3. i > 1 => u[i - 1] = s[i - 1]
        BY <1>2, <3>2
      <3> QED BY <1>7, <1>9, <3>1, <3>3
    <2>2. CASE i > m + 1
      <3> DEFINE j == i - m
      <3>1. j \in 1 .. n /\ u[i] = t[j] /\ v[i] = Conv(t)[j] /\ j > 1 /\ i > 1
        BY <1>1, <1>2, <1>4, <2>2
      <3>2. i - 1 \in 1 .. m + n /\ ~(i - 1 <= m) /\ (i - 1) - m = j - 1
        BY <1>1, <2>2
      <3>3. u[i - 1] = t[j - 1]
        BY <1>2, <3>2
      <3> HIDE DEF j
      <3> QED BY <1>8, <1>9, <3>1, <3>3
    <2>3. CASE i = m + 1
      <3>1. 1 \in 1 .. n /\ u[i] = t[1] /\ v[i] = Conv(t)[1] /\ n > 0
        BY <1>1, <1>2, <1>4, <2>3
      <3>2. Conv(t)[1] = IF t[1] # LF THEN <<t[1]>> ELSE <<CR>>
        BY <1>8, <3>1
      <3>3. CASE m = 0
        <4>1. ~(i > 1)
          BY <2>3, <3>3
        <4> QED BY <1>9, <3>1, <3>2, <4>1
      <3>4. CASE m > 0
        <4>1. i - 1 = m /\ i - 1 \in 1 .. m + n /\ i - 1 <= m
          BY <1>1, <2>3, <3>4
        <4>2. u[i - 1] = s[m]
          BY <1>2, <4>1
        <4>3. ~(u[i - 1] = CR /\ t[1] = LF)
          BY <1>5, <1>6, <3>1, <3>4, <4>2 DEF m
        <4> QED BY <1>9, <3>1, <3>2, <4>3
      <3> QED BY <1>1, <3>3, <3>4
    <2> QED BY <1>1, <2>1, <2>2, <2>3
  <1>11. Conv(u) = v
    BY <1>3, <1>4, <1>10, SeqEqual
  <1>12. Converted(u) = FlattenSeq(Conv(s) \o Conv(t))
    BY <1>2, <1>11, ConvFacts DEF v
  <1>13. FlattenSeq(Conv(s) \o Conv(t)) = FlattenSeq(Conv(s)) \o FlattenSeq(Conv(t))
    BY <1>3, FlattenConcat DEF Chars
  <1> QED BY <1>12, <1>13, ConvFacts DEF u

(* What a queue of pieces still has to send.                               *)
Sends(q) == [i \in 1 .. Len(q) |-> Converted(q[i])]
Rest(q)  == FlattenSeq(Sends(q))

LEMMA SendsFacts ==
  ASSUME NEW q \in Seq(Chars)
  PROVE  Sends(q) \in Seq(Chars) /\ Len(Sends(q)) = Len(q) /\ Rest(q) \in Chars
  <1>1. Len(q) \in Nat /\ \A i \in 1 .. Len(q) : q[i] \in Chars
    BY LenProperties
  <1>2. \A i \in 1 .. Len(q) : Converted(q[i]) \in Chars
    BY <1>1, ConvFacts
  <1>3. Sends(q) \in [1 .. Len(q) -> Chars]
    BY <1>2 DEF Sends
  <1>4. Sends(q) \in Seq(Chars) /\ Len(Sends(q)) = Len(q)
    BY <1>1, <1>3, FcnIsSeq
  <1> QED BY <1>4, FlattenType DEF Rest, Chars

LEMMA RestEmpty == Rest(<<>>) = <<>>
  <1>1. <<>> \in Seq(Chars) /\ Len(<<>>) = 0
    BY EmptySeq
  <1>2. Sends(<<>>) \in Seq(Chars) /\ Len(Sends(<<>>)) = 0
    BY <1>1, SendsFacts
  <1>3. Sends(<<>>) = <<>>
    BY <1>2, EmptySeq
  <1> QED BY <1>3, FlattenEmpty DEF Rest

LEMMA RestOfPiece ==
  ASSUME NEW x \in Chars, NEW q \in Seq(Chars)
  PROVE  Rest(<<x>> \o q) = Converted(x) \o Rest(q)
  <1> DEFINE p == <<x>> \o q
             n == Len(q)
  <1>1. n \in Nat /\ <<x>> \in Seq(Chars) /\ Len(<<x>>) = 1 /\ <<x>>[1] = x
    BY LenProperties
  <1>2. /\ p \in Seq(Chars) /\ Len(p) = 1 + n
        /\ \A i \in 1 .. 1 + n : p[i] = IF i <= 1 THEN <<x>>[i] ELSE q[i - 1]
    BY <1>1, ConcatProperties
  <1>3. /\ Sends(p) \in Seq(Chars) /\ Len(Sends(p)) = 1 + n
        /\ Sends(q) \in Seq(Chars) /\ Len(Sends(q)) = n
    BY <1>2, SendsFacts
  <1>4. Converted(x) \in Chars /\ <<Converted(x)>> \in Seq(Chars) /\ Len(<<Converted(x)>>) = 1
        /\ <<Converted(x)>>[1] = Converted(x)
    BY ConvFacts
  <1> DEFINE v == <<Converted(x)>> \o Sends(q)
  <1>5. /\ v \in Seq(Chars) /\ Len(v) = 1 + n
        /\ \A i \in 1 .. 1 + n : v[i] = IF i <= 1 THEN <<Converted(x)>>[i] ELSE Sends(q)[i - 1]
    BY <1>3, <1>4, ConcatProperties
  <1> HIDE DEF p, v, n
  <1>6. \A i \in 1 .. 1 + n : Sends(p)[i] = Converted(p[i])
    BY <1>2 DEF Sends
  <1>7. \A i \in 1 .. n : Sends(q)[i] = Converted(q[i])
    BY DEF Sends, n
  <1>8. ASSUME NEW i \in 1 .. 1 + n PROVE Sends(p)[i] = v[i]
    <2>1. CASE i = 1
      <3>1. p[1] = x /\ v[1] = Converted(x)
        BY <1>1, <1>2, <1>4, <1>5, <2>1
      <3> QED BY <1>6, <2>1, <3>1
    <2>2. CASE i # 1
      <3>1. ~(i <= 1) /\ i - 1 \in 1 .. n
        BY <1>1, <2>2
      <3>2. p[i] = q[i - 1] /\ v[i] = Sends(q)[i - 1]
        BY <1>2, <1>5, <3>1
      <3> QED BY <1>6, <1>7, <3>1, <3>2
    <2> QED BY <2>1, <2>2
  <1>9. Sends(p) = v
    BY <1>3, <1>5, <1>8, SeqEqual
  <1>10. FlattenSeq(v) = FlattenSeq(<<Converted(x)>>) \o FlattenSeq(Sends(q))
    BY <1>3, <1>4, FlattenConcat DEF v, Chars
  <1>11. FlattenSeq(<<Converted(x)>>) = Converted(x)
    BY <1>4, FlattenOne DEF Chars
  <1> QED BY <1>9, <1>10, <1>11 DEF Rest, p

LEMMA RestHeadTail ==
  ASSUME NEW q \in Seq(Chars), q # <<>>
  PROVE  Rest(q) = Converted(Head(q)) \o Rest(Tail(q))
  <1>1. Head(q) \in Chars /\ Tail(q) \in Seq(Chars) /\ q = <<Head(q)>> \o Tail(q)
    BY HeadTailProperties
  <1> QED BY <1>1, RestOfPiece

------------------------------------------------------------------------------
(* The pieces of a paste: they are the text, cut where it may be.          *)

LEMMA LineEndFacts ==
  ASSUME NEW text \in Chars, NEW i \in 1 .. Len(text)
  PROVE  /\ LineEnd(text, i) \in i .. Len(text)
         /\ LineEnd(text, i) = Len(text) \/ text[LineEnd(text, i)] = LF
  <1> DEFINE ends == {j \in i .. Len(text) : text[j] = LF}
  <1>1. Len(text) \in Nat
    BY LenProperties DEF Chars
  <1>2. CASE ends = {}
    BY <1>1, <1>2 DEF LineEnd
  <1>3. CASE ends # {}
    <2> DEFINE to == CHOOSE j \in ends : \A m \in ends : j <= m
    <2>1. ends \subseteq Nat
      BY <1>1
    <2>2. \E j \in ends : \A m \in ends : j <= m
      <3> HIDE DEF ends
      <3> QED BY <1>3, <2>1, LeastOf
    <2>3. to \in ends
      BY <2>2
    <2>4. LineEnd(text, i) = to
      BY <1>3 DEF LineEnd
    <2> HIDE DEF to
    <2> QED BY <2>3, <2>4
  <1> QED BY <1>2, <1>3

LEMMA PieceEndFacts ==
  ASSUME NEW text \in Chars, NEW i \in 1 .. Len(text), NEW to \in i .. Len(text),
         to = Len(text) \/ text[to] = LF
  PROVE  /\ PieceEnd(text, i, to) \in i .. Len(text)
         /\ PieceEnd(text, i, to) < Len(text) =>
              ~(text[PieceEnd(text, i, to)] = CR /\ text[PieceEnd(text, i, to) + 1] = LF)
  <1>1. Len(text) \in Nat /\ MaxChunk \in Nat /\ MaxChunk >= 2
    BY LenProperties, TabIoAssumption DEF Chars
  <1> DEFINE cut == i + MaxChunk - 1
  <1>2. CASE to - i + 1 <= MaxChunk
    <2>1. PieceEnd(text, i, to) = to
      BY <1>2 DEF PieceEnd
    <2> QED BY <1>1, <2>1 DEF CR, LF
  <1>3. CASE ~(to - i + 1 <= MaxChunk) /\ text[cut] = CR /\ text[cut + 1] = LF
    <2>1. PieceEnd(text, i, to) = cut - 1
      BY <1>3 DEF PieceEnd
    <2>2. cut - 1 \in i .. Len(text) /\ (cut - 1) + 1 = cut
      BY <1>1, <1>3
    <2> HIDE DEF cut
    <2> QED BY <1>3, <2>1, <2>2 DEF CR, LF
  <1>4. CASE ~(to - i + 1 <= MaxChunk) /\ ~(text[cut] = CR /\ text[cut + 1] = LF)
    <2>1. PieceEnd(text, i, to) = cut
      BY <1>4 DEF PieceEnd
    <2>2. cut \in i .. Len(text)
      BY <1>1, <1>4
    <2> QED BY <1>4, <2>1, <2>2
  <1> QED BY <1>2, <1>3, <1>4

(* Where the piece that begins at i ends.                                  *)
Stop(text, i) == PieceEnd(text, i, LineEnd(text, i))

LEMMA StopFacts ==
  ASSUME NEW text \in Chars, NEW i \in 1 .. Len(text)
  PROVE  /\ Stop(text, i) \in i .. Len(text)
         /\ Stop(text, i) < Len(text) => ~(text[Stop(text, i)] = CR /\ text[Stop(text, i) + 1] = LF)
  <1> DEFINE to == LineEnd(text, i)
  <1>1. to \in i .. Len(text) /\ (to = Len(text) \/ text[to] = LF)
    BY LineEndFacts
  <1> HIDE DEF to
  <1>2. /\ PieceEnd(text, i, to) \in i .. Len(text)
        /\ PieceEnd(text, i, to) < Len(text) =>
             ~(text[PieceEnd(text, i, to)] = CR /\ text[PieceEnd(text, i, to) + 1] = LF)
    BY <1>1, PieceEndFacts
  <1> QED BY <1>2 DEF Stop, to

(* The text from i on is the piece that begins there and the rest.         *)
LEMMA CutAtStop ==
  ASSUME NEW text \in Chars, NEW i \in 1 .. Len(text)
  PROVE  LET e == Stop(text, i)
         IN  /\ SubSeq(text, i, e) \in Chars
             /\ Converted(SubSeq(text, i, Len(text)))
                  = Converted(SubSeq(text, i, e)) \o Converted(SubSeq(text, e + 1, Len(text)))
  <1> DEFINE e == Stop(text, i)
             L == Len(text)
             s == SubSeq(text, i, e)
             t == SubSeq(text, e + 1, L)
  <1>1. L \in Nat /\ \A j \in 1 .. L : text[j] \in Nat
    BY LenProperties DEF Chars
  <1>2. e \in i .. L /\ (e < L => ~(text[e] = CR /\ text[e + 1] = LF))
    BY StopFacts
  <1> HIDE DEF e, L
  <1>3. i \in 1 .. L
    BY DEF L
  <1>4. s \in Chars /\ Len(s) = e - i + 1 /\ \A j \in 1 .. e - i + 1 : s[j] = text[i + j - 1]
    <2>1. i \in Int /\ e \in Int /\ i <= e /\ \A j \in i .. e : text[j] \in Nat
      BY <1>1, <1>2, <1>3
    <2> QED BY <2>1, SubSeqProperties DEF Chars
  <1>5. s[Len(s)] = text[e]
    <2>1. e - i + 1 \in 1 .. e - i + 1 /\ i + (e - i + 1) - 1 = e
      BY <1>1, <1>2, <1>3
    <2> HIDE DEF s
    <2> QED BY <1>4, <2>1
  <1>6. t \in Chars /\ (t # <<>> => e < L /\ t[1] = text[e + 1])
    <2>1. e + 1 \in Int /\ L \in Int /\ \A j \in e + 1 .. L : text[j] \in Nat
      BY <1>1, <1>2, <1>3
    <2>2. t \in Chars /\ \A j \in 1 .. L - (e + 1) + 1 : t[j] = text[(e + 1) + j - 1]
      BY <2>1, SubSeqProperties DEF Chars
    <2>3. L < e + 1 => t = <<>>
      BY <2>1, SubSeqEmpty
    <2>4. ~(L < e + 1) => e < L /\ 1 \in 1 .. L - (e + 1) + 1 /\ (e + 1) + 1 - 1 = e + 1
      BY <1>1, <1>2, <1>3
    <2> HIDE DEF t
    <2> QED BY <2>2, <2>3, <2>4
  <1>7. s \o t = SubSeq(text, i, L)
    <2>1. i \in 1 .. L + 1 /\ e \in i - 1 .. L /\ L \in e .. L
      BY <1>1, <1>2, <1>3
    <2> QED BY <2>1, ConcatAdjacentSubSeq DEF Chars, L
  <1> HIDE DEF s, t
  <1>8. Converted(s \o t) = Converted(s) \o Converted(t)
    BY <1>2, <1>4, <1>5, <1>6, ConvertedConcat
  <1>9. /\ s \in Chars
        /\ Converted(SubSeq(text, i, L)) = Converted(s) \o Converted(t)
    BY <1>4, <1>7, <1>8
  <1> QED BY <1>9 DEF s, t, e, L

(* The function `from` of Pieces, on the positions from `low` on.          *)
Cuts(f, text, low) ==
  \A i \in low .. Len(text) + 1 :
    f[i] = IF i > Len(text) THEN <<>>
           ELSE <<SubSeq(text, i, Stop(text, i))>> \o f[Stop(text, i) + 1]

LEMMA CutsExist ==
  ASSUME NEW text \in Chars
  PROVE  \E f \in [1 .. Len(text) + 1 -> Seq(Chars)] : Cuts(f, text, 1)
  <1> DEFINE L == Len(text)
             T == {k \in Nat : k <= L =>
                     \E f \in [L + 1 - k .. L + 1 -> Seq(Chars)] : Cuts(f, text, L + 1 - k)}
  <1>1. L \in Nat
    BY LenProperties DEF Chars
  <1>2. 0 \in T
    <2> DEFINE f == [i \in L + 1 .. L + 1 |-> <<>>]
    <2>1. f \in [L + 1 .. L + 1 -> Seq(Chars)]
      BY EmptySeq
    <2>2. \A i \in L + 1 .. L + 1 : i > L /\ f[i] = <<>>
      BY <1>1
    <2>3. L + 1 - 0 = L + 1
      BY <1>1
    <2> HIDE DEF f
    <2>4. Cuts(f, text, L + 1)
      BY <2>2 DEF Cuts
    <2> QED BY <2>1, <2>3, <2>4
  <1>3. ASSUME NEW k \in Nat, k \in T PROVE k + 1 \in T
    <2> SUFFICES ASSUME k + 1 <= L
                 PROVE  \E f \in [L + 1 - (k + 1) .. L + 1 -> Seq(Chars)] : Cuts(f, text, L + 1 - (k + 1))
      OBVIOUS
    <2> DEFINE low == L + 1 - k
               new == L + 1 - (k + 1)
               e == Stop(text, new)
    <2>0. PICK f \in [low .. L + 1 -> Seq(Chars)] : Cuts(f, text, low)
      BY <1>1, <1>3
    <2>1. new \in 1 .. L /\ low = new + 1 /\ low \in 1 .. L + 1
      BY <1>1
    <2>2. e \in new .. L
      BY <2>1, StopFacts
    <2> HIDE DEF low, new
    <2>3. e + 1 \in low .. L + 1 /\ SubSeq(text, new, e) \in Chars
      BY <1>1, <2>1, <2>2, CutAtStop
    <2> HIDE DEF e
    <2> DEFINE first == <<SubSeq(text, new, e)>> \o f[e + 1]
               g == [i \in new .. L + 1 |-> IF i = new THEN first ELSE f[i]]
    <2>4. first \in Seq(Chars)
      <3>1. f[e + 1] \in Seq(Chars) /\ <<SubSeq(text, new, e)>> \in Seq(Chars)
        BY <2>3
      <3> QED BY <3>1, ConcatProperties
    <2>5. \A i \in new .. L + 1 : i # new => i \in low .. L + 1
      BY <1>1, <2>1
    <2>6. \A i \in low .. L + 1 : i # new /\ i \in new .. L + 1
      BY <1>1, <2>1
    <2>7. g \in [new .. L + 1 -> Seq(Chars)]
      <3> HIDE DEF first
      <3> QED BY <2>4, <2>5
    <2>8. new \in new .. L + 1
      BY <1>1, <2>1
    <2>9. g[new] = first /\ \A i \in low .. L + 1 : g[i] = f[i]
      <3> HIDE DEF first
      <3> QED BY <2>6, <2>8
    <2> HIDE DEF g
    <2>10. ASSUME NEW i \in new .. L + 1
           PROVE  g[i] = IF i > L THEN <<>> ELSE <<SubSeq(text, i, Stop(text, i))>> \o g[Stop(text, i) + 1]
      <3>1. CASE i = new
        <4>1. ~(i > L) /\ g[e + 1] = f[e + 1]
          BY <1>1, <2>1, <2>3, <2>9, <3>1
        <4> QED BY <2>9, <3>1, <4>1 DEF e
      <3>2. CASE i # new
        <4>1. i \in low .. L + 1
          BY <2>5, <3>2
        <4>2. g[i] = IF i > L THEN <<>> ELSE <<SubSeq(text, i, Stop(text, i))>> \o f[Stop(text, i) + 1]
          BY <2>0, <2>9, <4>1 DEF Cuts
        <4>3. ASSUME ~(i > L) PROVE g[Stop(text, i) + 1] = f[Stop(text, i) + 1]
          <5>1. i \in 1 .. L /\ i >= low
            BY <1>1, <2>1, <4>1, <4>3
          <5>2. Stop(text, i) \in i .. L
            BY <5>1, StopFacts
          <5>3. Stop(text, i) + 1 \in low .. L + 1
            BY <1>1, <2>1, <5>1, <5>2
          <5> QED BY <2>9, <5>3
        <4> QED BY <4>2, <4>3
      <3> QED BY <3>1, <3>2
    <2>11. Cuts(g, text, new)
      BY <2>10 DEF Cuts
    <2> QED BY <2>7, <2>11 DEF new
  <1> HIDE DEF T
  <1>4. Nat \subseteq T
    BY <1>2, <1>3, AllOfNat
  <1>5. L \in T
    BY <1>1, <1>4
  <1>6. L + 1 - L = 1
    BY <1>1
  <1> HIDE DEF L
  <1>7. \E f \in [1 .. L + 1 -> Seq(Chars)] : Cuts(f, text, 1)
    <2>1. \E f \in [L + 1 - L .. L + 1 -> Seq(Chars)] : Cuts(f, text, L + 1 - L)
      BY <1>1, <1>5 DEF T
    <2> QED BY <1>6, <2>1
  <1> QED BY <1>7 DEF L

LEMMA CutsMakeTheText ==
  ASSUME NEW text \in Chars, NEW f, Cuts(f, text, 1)
  PROVE  \A i \in 1 .. Len(text) + 1 :
           /\ f[i] \in Seq(Chars) /\ (i <= Len(text) => f[i] # <<>>)
           /\ Rest(f[i]) = Converted(SubSeq(text, i, Len(text)))
  <1> DEFINE L == Len(text)
             Good(i) == /\ f[i] \in Seq(Chars) /\ (i <= L => f[i] # <<>>)
                        /\ Rest(f[i]) = Converted(SubSeq(text, i, L))
             T == {k \in Nat : \A i \in 1 .. L + 1 : i + k >= L + 1 => Good(i)}
  <1>1. L \in Nat
    BY LenProperties DEF Chars
  <1>2. ASSUME NEW i \in 1 .. L + 1, i > L PROVE Good(i)
    <2>1. f[i] = <<>>
      BY <1>2 DEF Cuts
    <2>2. ~(i <= L) /\ i = L + 1 /\ L < i /\ i \in Int /\ L \in Int
      BY <1>1, <1>2
    <2>3. SubSeq(text, i, L) = <<>>
      BY <2>2, SubSeqEmpty
    <2>4. Converted(<<>>) = <<>>
      <3>1. <<>> \in Chars /\ Len(<<>>) = 0
        BY EmptySeq DEF Chars
      <3>2. Conv(<<>>) \in Seq(Chars) /\ Len(Conv(<<>>)) = 0 /\ Converted(<<>>) = FlattenSeq(Conv(<<>>))
        BY <3>1, ConvFacts
      <3>3. Conv(<<>>) = <<>>
        BY <3>2, EmptySeq
      <3> QED BY <3>2, <3>3, FlattenEmpty
    <2>5. <<>> \in Seq(Chars)
      BY EmptySeq
    <2> QED BY <2>1, <2>2, <2>3, <2>4, <2>5, RestEmpty
  <1>3. 0 \in T
    <2>1. \A i \in 1 .. L + 1 : i + 0 >= L + 1 => i > L
      BY <1>1
    <2> HIDE DEF Good
    <2> QED BY <1>2, <2>1
  <1>4. ASSUME NEW k \in Nat, k \in T PROVE k + 1 \in T
    <2> SUFFICES ASSUME NEW i \in 1 .. L + 1, i + (k + 1) >= L + 1 PROVE Good(i)
      OBVIOUS
    <2>1. CASE i > L
      BY <1>2, <2>1
    <2>2. CASE ~(i > L)
      <3> DEFINE e == Stop(text, i)
                 s == SubSeq(text, i, e)
      <3>1. i \in 1 .. L
        BY <1>1, <2>2
      <3>2. e \in i .. L
        BY <3>1, StopFacts
      <3>3. s \in Chars /\ Converted(SubSeq(text, i, L)) = Converted(s) \o Converted(SubSeq(text, e + 1, L))
        BY <3>1, CutAtStop
      <3>4. f[i] = <<s>> \o f[e + 1]
        BY <2>2 DEF Cuts
      <3> HIDE DEF e, s, Good
      <3>5. e + 1 \in 1 .. L + 1 /\ (e + 1) + k >= L + 1
        BY <1>1, <3>1, <3>2
      <3>6. Good(e + 1)
        BY <1>4, <3>5
      <3>7. f[e + 1] \in Seq(Chars) /\ Rest(f[e + 1]) = Converted(SubSeq(text, e + 1, L))
        BY <3>6 DEF Good
      <3> DEFINE q == f[e + 1]
      <3> HIDE DEF q
      <3>8. q \in Seq(Chars) /\ Rest(q) = Converted(SubSeq(text, e + 1, L)) /\ f[i] = <<s>> \o q
        BY <3>4, <3>7 DEF q
      <3>9. Rest(<<s>> \o q) = Converted(s) \o Rest(q)
        BY <3>3, <3>8, RestOfPiece
      <3>10. <<s>> \o q \in Seq(Chars) /\ <<s>> \o q # <<>>
        <4>1. <<s>> \in Seq(Chars) /\ <<s>> # <<>>
          BY <3>3
        <4> QED BY <3>8, <4>1, ConcatProperties, ConcatEqualIffEmpty
      <3> QED BY <3>3, <3>8, <3>9, <3>10 DEF Good
    <2> QED BY <2>1, <2>2
  <1> HIDE DEF T
  <1>5. Nat \subseteq T
    BY <1>3, <1>4, AllOfNat
  <1>6. L \in T
    BY <1>1, <1>5
  <1>7. \A i \in 1 .. L + 1 : i + L >= L + 1
    BY <1>1
  <1>8. \A i \in 1 .. L + 1 : Good(i)
    <2> HIDE DEF Good
    <2> QED BY <1>6, <1>7 DEF T
  <1> QED BY <1>8

LEMMA PiecesMakeTheText ==
  ASSUME NEW text \in Chars, text # <<>>
  PROVE  /\ Pieces(text) \in Seq(Chars) /\ Pieces(text) # <<>>
         /\ Rest(Pieces(text)) = Converted(text)
  <1> DEFINE Is(f) == f = [i \in 1 .. Len(text) + 1 |->
                             IF i > Len(text) THEN <<>>
                             ELSE <<SubSeq(text, i, Stop(text, i))>> \o f[Stop(text, i) + 1]]
             from == CHOOSE f : Is(f)
  <1>1. Len(text) \in Nat \ {0}
    BY EmptySeq DEF Chars
  <1>2. \E f : Is(f)
    BY CutsExist DEF Cuts
  <1>3. Is(from)
    BY <1>2
  <1>4. Pieces(text) = from[1]
    BY DEF Pieces, Stop
  <1> HIDE DEF from
  <1>5. Cuts(from, text, 1)
    BY <1>3 DEF Cuts
  <1>6. 1 \in 1 .. Len(text) + 1 /\ 1 <= Len(text)
    BY <1>1
  <1>7. from[1] \in Seq(Chars) /\ from[1] # <<>> /\ Rest(from[1]) = Converted(SubSeq(text, 1, Len(text)))
    BY <1>5, <1>6, CutsMakeTheText
  <1>8. SubSeq(text, 1, Len(text)) = text
    BY SubSeqFull DEF Chars
  <1> QED BY <1>4, <1>7, <1>8

------------------------------------------------------------------------------
(* What a step does to the wire and to the paste.                          *)

Paced(item) == item.what \in {"open", "chunk", "close"}
PasteStill  == UNCHANGED <<queue, bracketing, pasteTimer, pastes>>

(* Nothing is sent; the connection may go.                                 *)
Silent == /\ UNCHANGED <<got, conns>> /\ PasteStill
          /\ link' = link \/ link' # "connected"
(* One thing that is not of a paced paste.                                 *)
Plainly(item) == item \in Items /\ ~Paced(item) /\ Put(<<item>>) /\ OnWire /\ PasteStill
Idly    == ~Pasting /\ Plainly(Item("idle", 0, <<>>))
Whole(item) == item.what \in {"whole", "bracketed"}
Typed   == \E item : /\ item.what # "idle" /\ Plainly(item)
                     /\ Whole(item) /\ Pasting => Current \in hurried'
Begin   == \E text \in Texts : beginThrottledPaste(text) /\ OnWire
Onward  == /\ Pasting /\ OnWire
           /\ Put(<<Item("chunk", Current, Converted(Head(queue)))>>
                  \o (IF Len(queue) = 1 THEN Closing ELSE <<>>))
           /\ queue' = Tail(queue) /\ pasteTimer' = (Len(queue) # 1)
           /\ bracketing' = (bracketing /\ Len(queue) # 1) /\ UNCHANGED pastes
Dropped == Put(Cancelling) /\ Stopped /\ UNCHANGED conns /\ (link' = link \/ link' # "connected")
Fresh   == link' = "connected" /\ conns' = conns + 1 /\ got' = <<>> /\ PasteStill

LEMMA ItemTypes ==
  ASSUME NEW what \in Whats, NEW n \in Nat, NEW chars \in Chars
  PROVE  /\ Item(what, n, chars) \in Items
         /\ Item(what, n, chars).what = what /\ Item(what, n, chars).paste = n
         /\ Item(what, n, chars).chars = chars
  BY DEF Item, Items

LEMMA NoChars == <<>> \in Chars
  BY EmptySeq DEF Chars

LEMMA TextTypes ==
  ASSUME NEW text \in Texts
  PROVE  text \in Chars /\ text # <<>> /\ Converted(text) \in Chars
  <1>1. text \in Chars /\ text # <<>>
    BY TabIoAssumption DEF Chars
  <1> QED BY <1>1, ConvFacts

LEMMA LoadedTypes ==
  ASSUME NEW text \in Texts
  PROVE  /\ Loaded(text) \in Seq(Chars) /\ Loaded(text) # <<>> /\ Loaded(text)[1] = Head(Loaded(text))
         /\ Head(Loaded(text)) \in Chars /\ Tail(Loaded(text)) \in Seq(Chars)
         /\ Rest(Loaded(text)) = Converted(text)
  <1>1. Loaded(text) \in Seq(Chars) /\ Loaded(text) # <<>> /\ Rest(Loaded(text)) = Converted(text)
    BY TextTypes, PiecesMakeTheText DEF Loaded
  <1> DEFINE q == Loaded(text)
  <1> HIDE DEF q
  <1>2. q \in Seq(Chars) /\ q # <<>>
    BY <1>1 DEF q
  <1>3. q[1] = Head(q) /\ Head(q) \in Chars /\ Tail(q) \in Seq(Chars)
    BY <1>2, HeadTailProperties
  <1> QED BY <1>1, <1>3 DEF q

(* One of two ways the text of the clipboard leaves.                       *)
LEMMA DeliverSteps ==
  ASSUME TypeOK, NEW text \in Texts, NEW slowly, Deliver(text, slowly), OnWire,
         ~slowly /\ Pasting => Current \in hurried'
  PROVE  Begin \/ Typed
  <1>1. CASE slowly
    BY <1>1 DEF Deliver, Begin
  <1>2. CASE ~slowly
    <2> DEFINE what == IF far.bracketed THEN "bracketed" ELSE "whole"
               item == Item(what, 0, Converted(text))
    <2>1. what \in {"whole", "bracketed"} /\ 0 \in Nat
      OBVIOUS
    <2>2. Put(<<item>>) /\ PasteStill
      BY <1>2 DEF Deliver, pasteAtOnce, Send, PasteStill
    <2> HIDE DEF what
    <2>3. item \in Items /\ item.what = what
      <3>1. what \in Whats
        BY <2>1 DEF Whats
      <3> QED BY <2>1, <3>1, TextTypes, ItemTypes
    <2> HIDE DEF item
    <2>4. Plainly(item) /\ item.what # "idle"
      BY <2>1, <2>2, <2>3 DEF Plainly, Paced
    <2> QED BY <1>2, <2>4 DEF Typed
  <1> QED BY <1>1, <1>2

LEMMA WireSteps ==
  ASSUME TypeOK, [Next]_vars, ~paced /\ Pasting => Current \in hurried
  PROVE  Silent \/ Idly \/ Typed \/ Begin \/ Onward \/ Dropped \/ Fresh
  <1>0. asking \in Texts \cup {<<>>} /\ 0 \in Nat /\ <<>> \in Chars
    BY NoChars DEF TypeOK, PasteOK
  <1>1. CASE paste
    <2>1. PICK text \in Texts :
            IF Threshold > 0 /\ Len(SelectSeq(text, LAMBDA c : c = LF)) > Threshold
            THEN asking' = text /\ UNCHANGED <<queue, bracketing, pasteTimer, pastes, got, idleTimer>>
            ELSE Deliver(text, paced) /\ UNCHANGED asking
      BY <1>1 DEF paste
    <2>2. OnWire
      BY <1>1 DEF paste
    <2>3. CASE Deliver(text, paced)
      <3>1. hurried' = hurried
        BY <1>1 DEF paste, rateVars
      <3> QED BY <2>2, <2>3, <3>1, DeliverSteps
    <2>4. CASE UNCHANGED <<queue, bracketing, pasteTimer, pastes, got, idleTimer>>
      BY <2>2, <2>4 DEF OnWire, Silent, PasteStill
    <2> QED BY <2>1, <2>3, <2>4
  <1>2. CASE confirmPaste
    <2>1. PICK slowly \in BOOLEAN : SetRate(slowly) /\ Deliver(asking, slowly)
      BY <1>2 DEF confirmPaste
    <2>2. OnWire /\ asking \in Texts
      BY <1>0, <1>2 DEF confirmPaste
    <2>3. ~slowly => Current \in hurried'
      BY <2>1 DEF SetRate
    <2> QED BY <2>1, <2>2, <2>3, DeliverSteps
  <1>3. CASE refusePaste
    BY <1>3 DEF refusePaste, OnWire, Silent, PasteStill
  <1>4. CASE sendNextPasteChunk
    <2>1. Onward
      BY <1>4 DEF sendNextPasteChunk, Onward, Send
    <2> QED BY <2>1
  <1>5. CASE cancelPaste
    BY <1>5 DEF cancelPaste, Dropped, OnWire
  <1>6. CASE Key
    <2> DEFINE item == Item("key", 0, <<>>)
    <2>1. item \in Items /\ item.what = "key"
      BY <1>0, ItemTypes DEF Whats
    <2>2. Put(<<item>>) /\ OnWire /\ PasteStill
      BY <1>6 DEF Key, Send, PasteStill, pasteVars
    <2> HIDE DEF item
    <2>3. Plainly(item) /\ item.what # "idle" /\ ~Whole(item)
      BY <2>1, <2>2 DEF Plainly, Paced, Whole
    <2> QED BY <2>3 DEF Typed
  <1>7. CASE setPasteBaud
    BY <1>7 DEF setPasteBaud, OnWire, Silent, PasteStill, pasteVars
  <1>8. CASE setAntiIdle
    BY <1>8 DEF setAntiIdle, OnWire, Silent, PasteStill, pasteVars
  <1>9. CASE sendAntiIdle
    <2>0. OnWire /\ PasteStill
      BY <1>9 DEF sendAntiIdle, PasteStill, pasteVars
    <2>1. CASE antiIdleAllowed
      <3> DEFINE item == Item("idle", 0, <<>>)
      <3>1. item \in Items /\ item.what = "idle"
        BY <1>0, ItemTypes DEF Whats
      <3>2. Put(<<item>>) /\ ~Pasting
        BY <1>9, <2>1 DEF sendAntiIdle, antiIdleAllowed
      <3> HIDE DEF item
      <3>3. Plainly(item)
        BY <2>0, <3>1, <3>2 DEF Plainly, Paced
      <3> QED BY <3>2, <3>3 DEF Idly, item
    <2>2. CASE ~antiIdleAllowed
      BY <1>9, <2>0, <2>2 DEF sendAntiIdle, OnWire, Silent
    <2> QED BY <2>1, <2>2
  <1>10. CASE Receive
    BY <1>10 DEF Receive, OnWire, Silent, PasteStill, pasteVars
  <1>11. CASE Say
    BY <1>11 DEF Say, OnWire, Silent, PasteStill, pasteVars
  <1>12. CASE FarModes
    BY <1>12 DEF FarModes, Silent, PasteStill, pasteVars
  <1>13. CASE startCapture
    BY <1>13 DEF startCapture, OnWire, Silent, PasteStill, pasteVars
  <1>14. CASE stopCapture
    BY <1>14 DEF stopCapture, OnWire, Silent, PasteStill, pasteVars
  <1>15. CASE Connect
    BY <1>15 DEF Connect, Fresh, PasteStill, pasteVars
  <1>16. CASE End
    BY <1>16 DEF End, Silent, PasteStill, pasteVars
  <1>17. CASE reconnect
    BY <1>17 DEF reconnect, Silent, PasteStill, pasteVars
  <1>18. CASE terminate
    BY <1>18 DEF terminate, Dropped
  <1>19. CASE UNCHANGED vars
    BY <1>19 DEF vars, Silent, PasteStill, pasteVars
  <1> QED BY <1>1, <1>2, <1>3, <1>4, <1>5, <1>6, <1>7, <1>8, <1>9, <1>10, <1>11, <1>12, <1>13,
             <1>14, <1>15, <1>16, <1>17, <1>18, <1>19 DEF Next

------------------------------------------------------------------------------
(* What can be said of the items a connection was given, and what one item *)
(* more does to it.                                                        *)

Numbered(g, c)  == \A i \in DOMAIN g : Paced(g[i]) => g[i].paste \in 1 .. c
Undisturbed(g)  == \A i, k \in DOMAIN g :
                     i < k /\ Paced(g[i]) /\ Paced(g[k]) /\ g[i].paste = g[k].paste =>
                       \A j \in i .. k : g[j].what # "idle" /\ (Paced(g[j]) => g[j].paste = g[i].paste)
(* From the first item of paste n on there is no other paste and no idling. *)
Alone(g, n)     == \A i \in DOMAIN g : Paced(g[i]) /\ g[i].paste = n =>
                     \A j \in i .. Len(g) : g[j].what # "idle" /\ (Paced(g[j]) => g[j].paste = n)
Fine(g, n)      == g \in Seq(Items) /\ Undisturbed(g) /\ Alone(g, n) /\ Numbered(g, n)
(* Paste m opened the bracket and has not closed it.                       *)
Hanging(g, m)   == \E i \in DOMAIN g : /\ g[i].what = "open" /\ g[i].paste = m
                                       /\ \A k \in i + 1 .. Len(g) : g[k] # Item("close", m, <<>>)
SaidBy(item, n) == IF item.what = "chunk" /\ item.paste = n THEN item.chars ELSE <<>>
Said(g, n)      == FlattenSeq([i \in DOMAIN g |-> SaidBy(g[i], n)])

LEMMA OneMore ==
  ASSUME NEW g \in Seq(Items), NEW item \in Items
  PROVE  LET h == Append(g, item)   n == Len(g)
         IN  /\ h \in Seq(Items) /\ Len(h) = n + 1 /\ n \in Nat
             /\ DOMAIN g = 1 .. n /\ DOMAIN h = 1 .. n + 1
             /\ \A i \in 1 .. n : h[i] = g[i]
             /\ h[n + 1] = item
             /\ \A i \in 1 .. n + 1 : i \in 1 .. n \/ i = n + 1
  <1> DEFINE h == Append(g, item)
             n == Len(g)
  <1>1. /\ h \in Seq(Items) /\ Len(h) = n + 1 /\ \A i \in 1 .. n : h[i] = g[i]
        /\ h[n + 1] = item
    BY AppendProperties
  <1>2. n \in Nat /\ DOMAIN g = 1 .. n
    BY LenProperties
  <1> HIDE DEF h, n
  <1>3. DOMAIN h = 1 .. n + 1
    BY <1>1, LenProperties
  <1>4. \A i \in 1 .. n + 1 : i \in 1 .. n \/ i = n + 1
    BY <1>2
  <1> QED BY <1>1, <1>2, <1>3, <1>4 DEF h, n

(* An item of the paste that is alone.                                     *)
LEMMA AddPaced ==
  ASSUME NEW n \in Nat \ {0}, NEW g, Fine(g, n), NEW item \in Items, Paced(item), item.paste = n
  PROVE  Fine(Append(g, item), n)
  <1> DEFINE h == Append(g, item)
             L == Len(g)
  <1>1. g \in Seq(Items) /\ Undisturbed(g) /\ Alone(g, n) /\ Numbered(g, n)
    BY DEF Fine
  <1>2. /\ h \in Seq(Items) /\ Len(h) = L + 1 /\ L \in Nat
        /\ DOMAIN g = 1 .. L /\ DOMAIN h = 1 .. L + 1
        /\ \A i \in 1 .. L : h[i] = g[i]
        /\ h[L + 1] = item
        /\ \A i \in 1 .. L + 1 : i \in 1 .. L \/ i = L + 1
    BY <1>1, OneMore
  <1> HIDE DEF h, L
  <1>3. item.what # "idle"
    BY DEF Paced
  <1>4. ASSUME NEW i \in 1 .. L + 1, Paced(h[i]), h[i].paste = n, NEW j \in i .. L + 1
        PROVE  h[j].what # "idle" /\ (Paced(h[j]) => h[j].paste = n)
    <2>1. CASE j = L + 1
      BY <1>2, <1>3, <2>1
    <2>2. CASE j # L + 1
      <3>1. i \in 1 .. L /\ j \in 1 .. L /\ j \in i .. L
        BY <1>2, <2>2
      <3>2. h[i] = g[i] /\ h[j] = g[j]
        BY <1>2, <3>1
      <3>3. g[j].what # "idle" /\ (Paced(g[j]) => g[j].paste = n)
        BY <1>1, <1>2, <1>4, <3>1, <3>2 DEF Alone, L
      <3> QED BY <3>2, <3>3
    <2> QED BY <2>1, <2>2
  <1>5. Alone(h, n)
    BY <1>2, <1>4 DEF Alone
  <1>6. ASSUME NEW i \in 1 .. L + 1, NEW k \in 1 .. L + 1, i < k, Paced(h[i]), Paced(h[k]),
               h[i].paste = h[k].paste, NEW j \in i .. k
        PROVE  h[j].what # "idle" /\ (Paced(h[j]) => h[j].paste = h[i].paste)
    <2>1. CASE k = L + 1
      <3>1. h[i].paste = n /\ j \in i .. L + 1
        BY <1>2, <1>6, <2>1
      <3> QED BY <1>4, <1>6, <3>1
    <2>2. CASE k # L + 1
      <3>1. i \in 1 .. L /\ j \in 1 .. L /\ k \in 1 .. L
        BY <1>2, <1>6, <2>2
      <3>2. h[i] = g[i] /\ h[j] = g[j] /\ h[k] = g[k]
        BY <1>2, <3>1
      <3>3. g[j].what # "idle" /\ (Paced(g[j]) => g[j].paste = g[i].paste)
        BY <1>1, <1>2, <1>6, <3>1, <3>2 DEF Undisturbed
      <3> QED BY <3>2, <3>3
    <2> QED BY <2>1, <2>2
  <1>7. Undisturbed(h)
    BY <1>2, <1>6 DEF Undisturbed
  <1>8. ASSUME NEW i \in 1 .. L + 1, Paced(h[i]) PROVE h[i].paste \in 1 .. n
    <2>1. CASE i = L + 1
      BY <1>2, <2>1
    <2>2. CASE i \in 1 .. L
      BY <1>1, <1>2, <1>8, <2>2 DEF Numbered
    <2> QED BY <1>2, <2>1, <2>2
  <1>9. Numbered(h, n)
    BY <1>2, <1>8 DEF Numbered
  <1> QED BY <1>2, <1>5, <1>7, <1>9 DEF Fine, h

(* An item of no paced paste.                                              *)
LEMMA AddPlain ==
  ASSUME NEW g \in Seq(Items), NEW item \in Items, ~Paced(item)
  PROVE  /\ Undisturbed(g) => Undisturbed(Append(g, item))
         /\ \A c \in Nat : Numbered(g, c) => Numbered(Append(g, item), c)
         /\ item.what # "idle" => \A n \in Nat : Alone(g, n) => Alone(Append(g, item), n)
  <1> DEFINE h == Append(g, item)
             L == Len(g)
  <1>2. /\ h \in Seq(Items) /\ Len(h) = L + 1 /\ L \in Nat
        /\ DOMAIN g = 1 .. L /\ DOMAIN h = 1 .. L + 1
        /\ \A i \in 1 .. L : h[i] = g[i]
        /\ h[L + 1] = item
        /\ \A i \in 1 .. L + 1 : i \in 1 .. L \/ i = L + 1
    BY OneMore
  <1> HIDE DEF h, L
  <1>3. \A i \in 1 .. L + 1 : Paced(h[i]) => i \in 1 .. L
    BY <1>2
  <1>4. ASSUME Undisturbed(g), NEW i \in 1 .. L + 1, NEW k \in 1 .. L + 1, i < k, Paced(h[i]),
               Paced(h[k]), h[i].paste = h[k].paste, NEW j \in i .. k
        PROVE  h[j].what # "idle" /\ (Paced(h[j]) => h[j].paste = h[i].paste)
    <2>1. k \in 1 .. L
      BY <1>3, <1>4
    <2>2. i \in 1 .. L /\ j \in 1 .. L
      BY <1>2, <1>4, <2>1
    <2>3. h[i] = g[i] /\ h[j] = g[j] /\ h[k] = g[k]
      BY <1>2, <2>1, <2>2
    <2>4. g[j].what # "idle" /\ (Paced(g[j]) => g[j].paste = g[i].paste)
      BY <1>2, <1>4, <2>1, <2>2, <2>3 DEF Undisturbed
    <2> QED BY <2>3, <2>4
  <1>5. Undisturbed(g) => Undisturbed(h)
    BY <1>2, <1>4 DEF Undisturbed
  <1>6. ASSUME NEW c \in Nat, Numbered(g, c) PROVE Numbered(h, c)
    BY <1>2, <1>3, <1>6 DEF Numbered
  <1>7. ASSUME item.what # "idle", NEW n \in Nat, Alone(g, n), NEW i \in 1 .. L + 1, Paced(h[i]),
               h[i].paste = n, NEW j \in i .. L + 1
        PROVE  h[j].what # "idle" /\ (Paced(h[j]) => h[j].paste = n)
    <2>1. i \in 1 .. L /\ h[i] = g[i]
      BY <1>2, <1>3, <1>7
    <2>2. CASE j = L + 1
      BY <1>2, <1>7, <2>2
    <2>3. CASE j # L + 1
      <3>1. j \in i .. L /\ j \in 1 .. L
        BY <1>2, <2>1, <2>3
      <3>2. g[j].what # "idle" /\ (Paced(g[j]) => g[j].paste = n)
        BY <1>2, <1>7, <2>1, <3>1 DEF Alone, L
      <3> QED BY <1>2, <3>1, <3>2
    <2> QED BY <2>2, <2>3
  <1>8. ASSUME item.what # "idle", NEW n \in Nat, Alone(g, n) PROVE Alone(h, n)
    BY <1>2, <1>7, <1>8 DEF Alone
  <1> QED BY <1>5, <1>6, <1>8 DEF h

(* A bracket that hangs was hanging already, unless this opened it.        *)
LEMMA AddHanging ==
  ASSUME NEW g \in Seq(Items), NEW item \in Items, NEW m, Hanging(Append(g, item), m)
  PROVE  \/ item.what = "open" /\ item.paste = m
         \/ Hanging(g, m) /\ item # Item("close", m, <<>>)
  <1> DEFINE h == Append(g, item)
             L == Len(g)
  <1>2. /\ Len(h) = L + 1 /\ L \in Nat
        /\ DOMAIN g = 1 .. L /\ DOMAIN h = 1 .. L + 1
        /\ \A i \in 1 .. L : h[i] = g[i]
        /\ h[L + 1] = item
        /\ \A i \in 1 .. L + 1 : i \in 1 .. L \/ i = L + 1
    BY OneMore
  <1>3. Hanging(h, m)
    OBVIOUS
  <1> HIDE DEF h, L
  <1>4. PICK i \in 1 .. L + 1 : /\ h[i].what = "open" /\ h[i].paste = m
                                /\ \A k \in i + 1 .. L + 1 : h[k] # Item("close", m, <<>>)
    BY <1>2, <1>3 DEF Hanging
  <1>5. CASE i = L + 1
    BY <1>2, <1>4, <1>5
  <1>6. CASE i \in 1 .. L
    <2>1. L + 1 \in i + 1 .. L + 1
      BY <1>2, <1>6
    <2>2. item # Item("close", m, <<>>)
      BY <1>2, <1>4, <2>1
    <2>3. \A k \in i + 1 .. L : k \in i + 1 .. L + 1 /\ k \in 1 .. L
      BY <1>2, <1>6
    <2>4. \A k \in i + 1 .. L : g[k] # Item("close", m, <<>>)
      BY <1>2, <1>4, <2>3
    <2>5. g[i].what = "open" /\ g[i].paste = m
      BY <1>2, <1>4, <1>6
    <2>6. Hanging(g, m)
      BY <1>2, <1>6, <2>4, <2>5 DEF Hanging, L
    <2> QED BY <2>2, <2>6
  <1> QED BY <1>2, <1>5, <1>6

LEMMA SaidTypes ==
  ASSUME NEW g \in Seq(Items), NEW n
  PROVE  /\ [i \in DOMAIN g |-> SaidBy(g[i], n)] \in Seq(Chars)
         /\ Len([i \in DOMAIN g |-> SaidBy(g[i], n)]) = Len(g)
         /\ Said(g, n) \in Chars
  <1> DEFINE s == [i \in DOMAIN g |-> SaidBy(g[i], n)]
  <1>1. DOMAIN g = 1 .. Len(g) /\ Len(g) \in Nat /\ \A i \in 1 .. Len(g) : g[i] \in Items
    BY LenProperties
  <1>2. \A item \in Items : SaidBy(item, n) \in Chars
    BY NoChars DEF SaidBy, Items
  <1>3. s \in [1 .. Len(g) -> Chars]
    BY <1>1, <1>2
  <1> HIDE DEF s
  <1>4. s \in Seq(Chars) /\ Len(s) = Len(g)
    BY <1>1, <1>3, FcnIsSeq
  <1>5. FlattenSeq(s) \in Chars
    BY <1>4, FlattenType DEF Chars
  <1> QED BY <1>4, <1>5 DEF s, Said

LEMMA AddSaid ==
  ASSUME NEW g \in Seq(Items), NEW item \in Items, NEW n
  PROVE  Said(Append(g, item), n) = Said(g, n) \o SaidBy(item, n)
  <1> DEFINE h == Append(g, item)
             L == Len(g)
             s == [i \in DOMAIN g |-> SaidBy(g[i], n)]
             t == [i \in DOMAIN h |-> SaidBy(h[i], n)]
             x == SaidBy(item, n)
  <1>1. /\ h \in Seq(Items) /\ Len(h) = L + 1 /\ L \in Nat
        /\ DOMAIN g = 1 .. L /\ DOMAIN h = 1 .. L + 1
        /\ \A i \in 1 .. L : h[i] = g[i]
        /\ h[L + 1] = item
        /\ \A i \in 1 .. L + 1 : i \in 1 .. L \/ i = L + 1
    BY OneMore
  <1>2. s \in Seq(Chars) /\ Len(s) = L /\ Said(g, n) = FlattenSeq(s)
    BY SaidTypes DEF Said
  <1> HIDE DEF h
  <1>3. t \in Seq(Chars) /\ Len(t) = L + 1 /\ Said(h, n) = FlattenSeq(t)
    BY <1>1, SaidTypes DEF Said
  <1>4. x \in Chars
    BY NoChars DEF SaidBy, Items
  <1> HIDE DEF L, x
  <1>5. \A i \in 1 .. L : t[i] = s[i]
    BY <1>1
  <1>6. t[L + 1] = x
    BY <1>1 DEF x
  <1> HIDE DEF s, t
  <1>7. /\ Append(s, x) \in Seq(Chars) /\ Len(Append(s, x)) = L + 1
        /\ \A i \in 1 .. L : Append(s, x)[i] = s[i]
        /\ Append(s, x)[L + 1] = x
    <2>1. /\ Append(s, x) \in Seq(Chars) /\ Len(Append(s, x)) = Len(s) + 1
          /\ \A i \in 1 .. Len(s) : Append(s, x)[i] = s[i]
          /\ Append(s, x)[Len(s) + 1] = x
      BY <1>2, <1>4, AppendProperties
    <2> QED BY <1>2, <2>1
  <1>8. \A i \in 1 .. L + 1 : t[i] = Append(s, x)[i]
    BY <1>1, <1>5, <1>6, <1>7
  <1>9. t = Append(s, x)
    BY <1>3, <1>7, <1>8, SeqEqual
  <1>10. FlattenSeq(Append(s, x)) = FlattenSeq(s) \o x
    BY <1>2, <1>4, FlattenAppend DEF Chars
  <1> QED BY <1>2, <1>3, <1>9, <1>10 DEF h, x

LEMMA PrefixOfConcat ==
  ASSUME NEW s \in Chars, NEW t \in Chars
  PROVE  IsPrefix(s, s \o t)
  <1> DEFINE m == Len(s)
  <1>1. m \in Nat /\ Len(t) \in Nat
    BY LenProperties DEF Chars
  <1>2. Len(s \o t) = m + Len(t)
    BY ConcatProperties DEF Chars
  <1>3. SubSeq(s, 1, m) = SubSeq(s \o t, 1, m)
    <2>1. CASE m = 0
      <3>1. 1 \in Int /\ m \in Int /\ m < 1
        BY <2>1
      <3> QED BY <3>1, SubSeqEmpty
    <2>2. CASE m # 0
      <3>1. 1 \in 1 .. m /\ m \in 1 .. m
        BY <1>1, <2>2
      <3> QED BY <3>1, SubSeqOfConcat1 DEF Chars
    <2> QED BY <2>1, <2>2
  <1> QED BY <1>1, <1>2, <1>3 DEF IsPrefix

LEMMA FlattenNothing ==
  ASSUME NEW s \in Seq(Chars), \A i \in 1 .. Len(s) : s[i] = <<>>
  PROVE  FlattenSeq(s) = <<>>
  <1> DEFINE Blank(u) == \A i \in 1 .. Len(u) : u[i] = <<>>
             T == {n \in Nat : \A u \in Seq(Chars) : Len(u) = n /\ Blank(u) => FlattenSeq(u) = <<>>}
  <1>1. 0 \in T
    <2>1. \A u \in Seq(Chars) : Len(u) = 0 => u = <<>>
      BY EmptySeq
    <2> HIDE DEF Blank
    <2> QED BY <2>1, FlattenEmpty
  <1>2. ASSUME NEW n \in Nat, n \in T PROVE n + 1 \in T
    <2>1. ASSUME NEW u \in Seq(Chars), Len(u) = n + 1, Blank(u)
          PROVE  FlattenSeq(u) = <<>>
      <3>1. PICK r \in Seq(Chars), x \in Chars : u = Append(r, x) /\ Len(r) = n
        BY <2>1, FrontLast
      <3>2. /\ \A i \in 1 .. n : Append(r, x)[i] = r[i]
            /\ Append(r, x)[n + 1] = x
        BY <3>1, AppendProperties
      <3>3. \A i \in 1 .. n : r[i] = <<>>
        <4>1. \A i \in 1 .. n : i \in 1 .. n + 1
          OBVIOUS
        <4> QED BY <2>1, <3>1, <3>2, <4>1
      <3>4. x = <<>>
        <4>1. n + 1 \in 1 .. n + 1
          OBVIOUS
        <4> QED BY <2>1, <3>1, <3>2, <4>1
      <3>5. Blank(r)
        BY <3>1, <3>3
      <3> HIDE DEF Blank
      <3>6. FlattenSeq(r) = <<>>
        BY <1>2, <3>1, <3>5
      <3>7. FlattenSeq(u) = FlattenSeq(r) \o x
        BY <3>1, FlattenAppend DEF Chars
      <3>8. <<>> \o <<>> = <<>>
        BY NoChars, ConcatEmptySeq DEF Chars
      <3> QED BY <3>4, <3>6, <3>7, <3>8
    <2> HIDE DEF Blank
    <2> QED BY <2>1
  <1>3. Nat \subseteq T
    <2> HIDE DEF T
    <2> QED BY <1>1, <1>2, AllOfNat
  <1>4. Len(s) \in T
    <2> HIDE DEF T
    <2> QED BY <1>3, LenProperties
  <1>5. Blank(s)
    OBVIOUS
  <1> HIDE DEF Blank
  <1> QED BY <1>4, <1>5

(* Nothing was said yet of a paste that is new.                            *)
LEMMA SaidNothing ==
  ASSUME NEW g \in Seq(Items), NEW c \in Nat, Numbered(g, c)
  PROVE  Said(g, c + 1) = <<>>
  <1> DEFINE s == [i \in DOMAIN g |-> SaidBy(g[i], c + 1)]
  <1>1. s \in Seq(Chars) /\ Len(s) = Len(g) /\ Said(g, c + 1) = FlattenSeq(s)
    BY SaidTypes DEF Said
  <1>2. DOMAIN g = 1 .. Len(g)
    BY LenProperties
  <1>3. ASSUME NEW i \in DOMAIN g PROVE SaidBy(g[i], c + 1) = <<>>
    <2>1. g[i].what = "chunk" => g[i].paste \in 1 .. c
      BY DEF Numbered, Paced
    <2>2. c + 1 \notin 1 .. c
      OBVIOUS
    <2> QED BY <2>1, <2>2 DEF SaidBy
  <1>4. \A i \in 1 .. Len(s) : s[i] = <<>>
    BY <1>1, <1>2, <1>3
  <1> HIDE DEF s
  <1> QED BY <1>1, <1>4, FlattenNothing

(* A mark of paste n, if there is one; h is g after it.                    *)
Mark(what, n, there) == IF there THEN <<Item(what, n, <<>>)>> ELSE <<>>
Marked(g, h, what, n, there) ==
  /\ Fine(h, n) /\ \A m : Said(h, m) = Said(g, m)
  /\ \A m \in Nat : Hanging(h, m) =>
       \/ there /\ what = "open" /\ m = n
       \/ Hanging(g, m) /\ ~(there /\ what = "close" /\ m = n)

LEMMA AddMark ==
  ASSUME NEW n \in Nat \ {0}, NEW g, Fine(g, n), NEW what \in {"open", "close"}, NEW there \in BOOLEAN
  PROVE  /\ Mark(what, n, there) \in Seq(Items)
         /\ Marked(g, g \o Mark(what, n, there), what, n, there)
  <1> DEFINE mark == Mark(what, n, there)
  <1>0. g \in Seq(Items)
    BY DEF Fine
  <1>1. CASE ~there
    <2>1. mark = <<>> /\ g \o mark = g /\ mark \in Seq(Items)
      BY <1>0, <1>1, ConcatEmptySeq, EmptySeq DEF Mark
    <2> QED BY <1>1, <2>1 DEF Marked
  <1>2. CASE there
    <2> DEFINE item == Item(what, n, <<>>)
    <2>1. item \in Items /\ item.what = what /\ item.paste = n
      BY ItemTypes, NoChars DEF Whats
    <2>2. Paced(item) /\ mark = <<item>>
      BY <1>2, <2>1 DEF Paced, Mark
    <2>3. \A m : m = n => item = Item(what, m, <<>>)
      OBVIOUS
    <2> HIDE DEF item
    <2>4. mark \in Seq(Items) /\ g \o mark = Append(g, item)
      <3>1. <<item>> \in Seq(Items)
        BY <2>1
      <3>2. Append(g, item) = g \o <<item>>
        BY <1>0, <2>1, AppendIsConcat
      <3> QED BY <2>2, <3>1, <3>2
    <2>5. Fine(Append(g, item), n)
      BY <2>1, <2>2, AddPaced
    <2>6. ASSUME NEW m PROVE Said(Append(g, item), m) = Said(g, m)
      <3>1. SaidBy(item, m) = <<>>
        BY <2>1 DEF SaidBy
      <3>2. Said(g, m) \in Chars
        BY <1>0, SaidTypes
      <3>3. Said(g, m) \o <<>> = Said(g, m)
        BY <3>2, ConcatEmptySeq DEF Chars
      <3> QED BY <1>0, <2>1, <3>1, <3>3, AddSaid
    <2>7. ASSUME NEW m \in Nat, Hanging(Append(g, item), m)
          PROVE  \/ there /\ what = "open" /\ m = n
                 \/ Hanging(g, m) /\ ~(there /\ what = "close" /\ m = n)
      <3>1. \/ item.what = "open" /\ item.paste = m
            \/ Hanging(g, m) /\ item # Item("close", m, <<>>)
        BY <1>0, <2>1, <2>7, AddHanging
      <3> QED BY <1>2, <2>1, <2>3, <3>1
    <2> QED BY <2>4, <2>5, <2>6, <2>7 DEF Marked
  <1> QED BY <1>1, <1>2

(* A chunk of paste n.                                                     *)
Chunk(n, chars) == <<Item("chunk", n, chars)>>
Chunked(g, h, n, chars) ==
  /\ Fine(h, n)
  /\ Said(h, n) = Said(g, n) \o chars
  /\ \A m : m # n => Said(h, m) = Said(g, m)
  /\ \A m : Hanging(h, m) => Hanging(g, m)

LEMMA AddChunk ==
  ASSUME NEW n \in Nat \ {0}, NEW g, Fine(g, n), NEW chars \in Chars
  PROVE  Chunk(n, chars) \in Seq(Items) /\ Chunked(g, g \o Chunk(n, chars), n, chars)
  <1> DEFINE chunk == Chunk(n, chars)
  <1> DEFINE item == Item("chunk", n, chars)
  <1>0. g \in Seq(Items)
    BY DEF Fine
  <1>1. item \in Items /\ item.what = "chunk" /\ item.paste = n /\ item.chars = chars
    BY ItemTypes DEF Whats
  <1> HIDE DEF item
  <1>2. chunk \in Seq(Items) /\ g \o chunk = Append(g, item)
    BY <1>0, <1>1, AppendIsConcat DEF item, Chunk
  <1>3. Fine(Append(g, item), n)
    BY <1>1, AddPaced DEF Paced
  <1>4. SaidBy(item, n) = chars /\ \A m : m # n => SaidBy(item, m) = <<>>
    BY <1>1 DEF SaidBy
  <1>5. Said(Append(g, item), n) = Said(g, n) \o chars
    BY <1>0, <1>1, <1>4, AddSaid
  <1>6. ASSUME NEW m, m # n PROVE Said(Append(g, item), m) = Said(g, m)
    <2>1. Said(g, m) \in Chars
      BY <1>0, SaidTypes
    <2>2. Said(g, m) \o <<>> = Said(g, m)
      BY <2>1, ConcatEmptySeq DEF Chars
    <2>3. Said(Append(g, item), m) = Said(g, m) \o SaidBy(item, m)
      BY <1>0, <1>1, AddSaid
    <2> QED BY <1>4, <1>6, <2>2, <2>3
  <1>7. ASSUME NEW m, Hanging(Append(g, item), m) PROVE Hanging(g, m)
    BY <1>0, <1>1, <1>7, AddHanging
  <1> QED BY <1>2, <1>3, <1>5, <1>6, <1>7 DEF Chunked

------------------------------------------------------------------------------
(* The wire: the invariant.                                                *)

(* A paste in progress is the last one; no connection is met twice.        *)
Pasted    == /\ Pasting => Current # 0
             /\ \A n \in DOMAIN pastes : pastes[n].conn <= conns
             /\ link = "connected" => conns # 0
Ordered   == Numbered(got, Current) /\ Undisturbed(got) /\ (Pasting => Alone(got, Current))
(* A bracket hangs only for the paste in progress, which knows of it.      *)
Bracketed == link = "connected" =>
               \A m \in Nat : Hanging(got, m) => Pasting /\ m = Current /\ bracketing
Begun     == \A n \in DOMAIN pastes : Here(n) => IsPrefix(Said(got, n), Converted(pastes[n].text))
(* What was said of the paste in progress and what is queued make the text. *)
Owed      == Pasting /\ Here(Current) => Said(got, Current) \o Rest(queue) = Converted(pastes[Current].text)
Wired     == Pasted /\ Ordered /\ Bracketed /\ Begun /\ Owed

QueueOK   == queue \in Seq(Chars) /\ bracketing \in BOOLEAN /\ pasteTimer \in BOOLEAN
             /\ pastes \in Seq(Histories)
Sound     == QueueOK /\ GotOK /\ LinkOK /\ Wired

LEMMA CurrentFacts ==
  ASSUME QueueOK
  PROVE  /\ Current \in Nat /\ DOMAIN pastes = 1 .. Current
         /\ \A n \in DOMAIN pastes : pastes[n] \in Histories
  BY LenProperties DEF QueueOK, Current

(* What the far end has been given once the paste in progress is cancelled. *)
LEMMA Cancelled ==
  ASSUME Sound
  PROVE  LET g == got \o Cancelling
         IN  /\ Cancelling \in Seq(Items) /\ g \in Seq(Items)
             /\ Numbered(g, Current) /\ Undisturbed(g)
             /\ \A m : Said(g, m) = Said(got, m)
             /\ link = "connected" => \A m \in Nat : ~Hanging(g, m)
  <1>0. got \in Seq(Items) /\ Numbered(got, Current) /\ Undisturbed(got) /\ bracketing \in BOOLEAN
    BY DEF Sound, GotOK, Wired, Ordered, QueueOK
  <1>1. CASE Pasting
    <2> DEFINE n == Current
    <2>1. n \in Nat \ {0} /\ Alone(got, n)
      BY <1>1, CurrentFacts DEF Sound, Wired, Pasted, Ordered
    <2>2. Cancelling = Mark("close", n, bracketing)
      BY <1>1 DEF Cancelling, Closing, Mark
    <2>3. link = "connected" => \A m \in Nat : Hanging(got, m) => m = n /\ bracketing
      BY DEF Sound, Wired, Bracketed
    <2>4. Numbered(got, n)
      BY <1>0
    <2> HIDE DEF n
    <2>5. Fine(got, n)
      BY <1>0, <2>1, <2>4 DEF Fine
    <2>6. Cancelling \in Seq(Items) /\ Marked(got, got \o Cancelling, "close", n, bracketing)
      BY <1>0, <2>1, <2>2, <2>5, AddMark
    <2>7. link = "connected" => \A m \in Nat : ~Hanging(got \o Cancelling, m)
      BY <2>3, <2>6 DEF Marked
    <2> QED BY <2>6, <2>7 DEF Marked, Fine, n
  <1>2. CASE ~Pasting
    <2>1. Cancelling = <<>> /\ got \o Cancelling = got /\ <<>> \in Seq(Items)
      BY <1>0, <1>2, ConcatEmptySeq, EmptySeq DEF Cancelling
    <2>2. link = "connected" => \A m \in Nat : ~Hanging(got, m)
      BY <1>2 DEF Sound, Wired, Bracketed
    <2> QED BY <1>0, <2>1, <2>2
  <1> QED BY <1>1, <1>2

LEMMA SoundSilent ==
  ASSUME Sound, LinkOK', Silent
  PROVE  Sound'
  <1>1. /\ got' = got /\ conns' = conns /\ queue' = queue /\ bracketing' = bracketing
        /\ pasteTimer' = pasteTimer /\ pastes' = pastes /\ (link' = link \/ link' # "connected")
    BY DEF Silent, PasteStill
  <1>2. QueueOK' /\ GotOK'
    BY <1>1 DEF Sound, QueueOK, GotOK
  <1>3. Pasting' = Pasting /\ Current' = Current /\ \A n : Here(n)' => Here(n) /\ link' = link
    BY <1>1 DEF Pasting, Current, Here
  <1>4. Pasted'
    BY <1>1, <1>3 DEF Sound, Wired, Pasted
  <1>5. Ordered'
    BY <1>1, <1>3 DEF Sound, Wired, Ordered
  <1>6. Bracketed'
    BY <1>1, <1>3 DEF Sound, Wired, Bracketed
  <1>7. Begun'
    BY <1>1, <1>3 DEF Sound, Wired, Begun
  <1>8. Owed'
    BY <1>1, <1>3 DEF Sound, Wired, Owed
  <1> QED BY <1>2, <1>4, <1>5, <1>6, <1>7, <1>8 DEF Sound, Wired

LEMMA SoundPlainly ==
  ASSUME Sound, LinkOK', NEW item, Plainly(item), item.what # "idle" \/ ~Pasting
  PROVE  Sound'
  <1>1. /\ conns' = conns /\ queue' = queue /\ bracketing' = bracketing /\ link' = link
        /\ pasteTimer' = pasteTimer /\ pastes' = pastes /\ item \in Items /\ ~Paced(item)
        /\ got' = IF link = "connected" THEN got \o <<item>> ELSE got
    BY DEF Plainly, OnWire, PasteStill, Put
  <1>2. CASE link # "connected"
    BY <1>1, <1>2, SoundSilent DEF Silent, PasteStill
  <1>3. CASE link = "connected"
    <2>0. got \in Seq(Items) /\ Current \in Nat
      BY CurrentFacts DEF Sound, GotOK
    <2>1. got' = Append(got, item)
      BY <1>1, <1>3, <2>0, AppendIsConcat
    <2>2. QueueOK' /\ GotOK'
      <3>1. Append(got, item) \in Seq(Items)
        BY <1>1, <2>0, AppendProperties
      <3> QED BY <1>1, <2>1, <3>1 DEF Sound, QueueOK, GotOK
    <2>3. Pasting' = Pasting /\ Current' = Current /\ \A n : Here(n)' => Here(n)
      BY <1>1 DEF Pasting, Current, Here
    <2>4. Pasted'
      BY <1>1, <2>3 DEF Sound, Wired, Pasted
    <2>5. Ordered'
      <3>1. Undisturbed(Append(got, item)) /\ Numbered(Append(got, item), Current)
        BY <1>1, <2>0, AddPlain DEF Sound, Wired, Ordered
      <3>2. Pasting => Alone(Append(got, item), Current)
        BY <1>1, <2>0, AddPlain DEF Sound, Wired, Ordered
      <3> QED BY <2>1, <2>3, <3>1, <3>2 DEF Ordered
    <2>6. Bracketed'
      <3>1. ASSUME NEW m \in Nat, Hanging(Append(got, item), m) PROVE Hanging(got, m)
        BY <1>1, <2>0, <3>1, AddHanging DEF Paced
      <3> QED BY <1>1, <1>3, <2>1, <2>3, <3>1 DEF Sound, Wired, Bracketed
    <2>7. ASSUME NEW n PROVE Said(Append(got, item), n) = Said(got, n)
      <3>1. SaidBy(item, n) = <<>>
        BY <1>1 DEF SaidBy, Paced
      <3>2. Said(got, n) \o <<>> = Said(got, n)
        BY <2>0, SaidTypes, ConcatEmptySeq DEF Chars
      <3>3. Said(Append(got, item), n) = Said(got, n) \o SaidBy(item, n)
        BY <1>1, <2>0, AddSaid
      <3> QED BY <3>1, <3>2, <3>3
    <2>8. Begun'
      BY <1>1, <2>1, <2>3, <2>7 DEF Sound, Wired, Begun
    <2>9. Owed'
      BY <1>1, <2>1, <2>3, <2>7 DEF Sound, Wired, Owed
    <2> QED BY <2>2, <2>4, <2>5, <2>6, <2>8, <2>9 DEF Sound, Wired
  <1> QED BY <1>2, <1>3

LEMMA SoundDropped ==
  ASSUME Sound, LinkOK', Dropped
  PROVE  Sound'
  <1>1. /\ conns' = conns /\ queue' = <<>> /\ bracketing' = FALSE /\ pasteTimer' = FALSE
        /\ pastes' = pastes /\ (link' = link \/ link' # "connected")
        /\ got' = IF link = "connected" THEN got \o Cancelling ELSE got
    BY DEF Dropped, Stopped, Put
  <1>2. /\ got' \in Seq(Items) /\ Numbered(got', Current) /\ Undisturbed(got')
        /\ \A m : Said(got', m) = Said(got, m)
        /\ link = "connected" => \A m \in Nat : ~Hanging(got', m)
    <2>1. CASE link = "connected"
      BY <1>1, <2>1, Cancelled
    <2>2. CASE link # "connected"
      BY <1>1, <2>2 DEF Sound, GotOK, Wired, Ordered
    <2> QED BY <2>1, <2>2
  <1>3. ~Pasting' /\ Current' = Current /\ \A n : Here(n)' => Here(n)
    BY <1>1 DEF Pasting, Current, Here
  <1>4. QueueOK' /\ GotOK'
    <2>1. <<>> \in Seq(Chars)
      BY EmptySeq
    <2> QED BY <1>1, <1>2, <2>1 DEF Sound, QueueOK, GotOK
  <1>5. Pasted'
    BY <1>1, <1>3 DEF Sound, Wired, Pasted
  <1>6. Ordered'
    BY <1>2, <1>3 DEF Ordered
  <1>7. Bracketed'
    BY <1>1, <1>2 DEF Bracketed
  <1>8. Begun'
    BY <1>1, <1>2, <1>3 DEF Sound, Wired, Begun
  <1>9. Owed'
    BY <1>3 DEF Owed
  <1> QED BY <1>4, <1>5, <1>6, <1>7, <1>8, <1>9 DEF Sound, Wired

LEMMA SoundFresh ==
  ASSUME Sound, LinkOK', Fresh
  PROVE  Sound'
  <1>1. /\ conns' = conns + 1 /\ queue' = queue /\ bracketing' = bracketing /\ link' = "connected"
        /\ pasteTimer' = pasteTimer /\ pastes' = pastes /\ got' = <<>>
    BY DEF Fresh, PasteStill
  <1>2. conns \in Nat /\ DOMAIN pastes = 1 .. Current /\ \A n \in DOMAIN pastes : pastes[n].conn \in Nat
    BY CurrentFacts DEF Sound, LinkOK, Histories
  <1>3. QueueOK' /\ GotOK'
    <2>1. <<>> \in Seq(Items)
      BY EmptySeq
    <2> QED BY <1>1, <2>1 DEF Sound, QueueOK, GotOK
  <1>4. Pasting' = Pasting /\ Current' = Current
    BY <1>1 DEF Pasting, Current
  <1>5. \A n : ~Here(n)'
    <2>1. \A n \in DOMAIN pastes : pastes[n].conn # conns + 1
      BY <1>2 DEF Sound, Wired, Pasted
    <2> QED BY <1>1, <2>1 DEF Here
  <1>6. Pasted'
    <2>1. \A n \in DOMAIN pastes : pastes[n].conn <= conns + 1
      BY <1>2 DEF Sound, Wired, Pasted
    <2> QED BY <1>1, <1>2, <1>4, <2>1 DEF Sound, Wired, Pasted
  <1>7. DOMAIN got' = {}
    <2>1. DOMAIN got' = 1 .. 0
      BY <1>1
    <2> QED BY <2>1
  <1>8. Ordered'
    BY <1>7 DEF Ordered, Numbered, Undisturbed, Alone
  <1>9. Bracketed'
    BY <1>7 DEF Bracketed, Hanging
  <1>10. Begun'
    BY <1>5 DEF Begun
  <1>11. Owed'
    BY <1>5 DEF Owed
  <1> QED BY <1>3, <1>6, <1>8, <1>9, <1>10, <1>11 DEF Sound, Wired

LEMMA TailOf ==
  ASSUME NEW q \in Seq(Chars), q # <<>>
  PROVE  Tail(q) = <<>> <=> Len(q) = 1
  <1> DEFINE t == Tail(q)
  <1>1. Len(q) \in Nat \ {0} /\ t \in Seq(Chars) /\ Len(t) = Len(q) - 1
    BY EmptySeq, HeadTailProperties
  <1> HIDE DEF t
  <1>2. t = <<>> => Len(t) = 0
    OBVIOUS
  <1>3. t # <<>> => Len(t) # 0
    BY <1>1, EmptySeq
  <1> QED BY <1>1, <1>2, <1>3 DEF t

LEMMA SoundOnward ==
  ASSUME Sound, LinkOK', Onward
  PROVE  Sound'
  <1> DEFINE n == Current
             last == Len(queue) = 1
             chunk == Chunk(n, Converted(Head(queue)))
             mark == IF last THEN Closing ELSE <<>>
  <1>1. /\ conns' = conns /\ link' = link /\ pastes' = pastes /\ queue' = Tail(queue)
        /\ bracketing' = (bracketing /\ ~last) /\ pasteTimer' = ~last
        /\ got' = IF link = "connected" THEN got \o (chunk \o mark) ELSE got
        /\ queue # <<>>
    BY DEF Onward, OnWire, Put, Pasting, Chunk
  <1>2. /\ queue \in Seq(Chars) /\ bracketing \in BOOLEAN /\ got \in Seq(Items) /\ n \in Nat \ {0}
        /\ DOMAIN pastes = 1 .. n
    BY <1>1, CurrentFacts DEF Sound, QueueOK, GotOK, Wired, Pasted, Pasting
  <1>3. /\ Head(queue) \in Chars /\ Tail(queue) \in Seq(Chars) /\ Len(queue) \in Nat
        /\ Len(Tail(queue)) = Len(queue) - 1
    BY <1>1, <1>2, HeadTailProperties, LenProperties
  <1>4. Fine(got, n)
    BY <1>1, <1>2 DEF Sound, Wired, Ordered, Fine, Pasting
  <1>5. mark = Mark("close", n, last /\ bracketing)
    BY DEF Closing, Mark
  <1>6. last \in BOOLEAN /\ (Pasting' <=> ~last)
    <2>1. Tail(queue) = <<>> <=> last
      BY <1>1, <1>2, TailOf
    <2> HIDE DEF last
    <2>2. last \in BOOLEAN
      BY DEF last
    <2> QED BY <1>1, <2>1, <2>2 DEF Pasting
  <1>8. Current' = n /\ \A m : Here(m)' <=> Here(m)
    BY <1>1 DEF Current, Here
  <1> DEFINE conv == Converted(Head(queue))
  <1>9. conv \in Chars /\ chunk = Chunk(n, conv)
    BY <1>3, ConvFacts
  <1> HIDE DEF n, last, chunk, mark, conv
  <1>10. ASSUME link = "connected"
         PROVE  /\ got' \in Seq(Items) /\ Fine(got', n)
                /\ Said(got', n) = Said(got, n) \o conv
                /\ \A m : m # n => Said(got', m) = Said(got, m)
                /\ \A m \in Nat : Hanging(got', m) => Hanging(got, m) /\ ~(last /\ bracketing /\ m = n)
    <2> DEFINE g == got \o chunk
               there == last /\ bracketing
    <2>1. chunk \in Seq(Items) /\ Chunked(got, g, n, conv)
      BY <1>2, <1>4, <1>9, AddChunk
    <2> HIDE DEF g
    <2>2. n \in Nat \ {0} /\ Fine(g, n) /\ there \in BOOLEAN /\ mark = Mark("close", n, there)
      BY <1>2, <1>5, <1>6, <2>1 DEF Chunked
    <2> HIDE DEF there
    <2>3. mark \in Seq(Items) /\ Marked(g, g \o mark, "close", n, there)
      BY <2>2, AddMark
    <2>4. got' = g \o mark
      <3>1. (got \o chunk) \o mark = got \o (chunk \o mark)
        BY <1>2, <2>1, <2>3, ConcatAssociative
      <3> QED BY <1>1, <1>10, <3>1 DEF g
    <2>5. Fine(got', n) /\ got' \in Seq(Items)
      BY <2>3, <2>4 DEF Marked, Fine
    <2>6. Said(got', n) = Said(got, n) \o conv /\ \A m : m # n => Said(got', m) = Said(got, m)
      BY <2>1, <2>3, <2>4 DEF Marked, Chunked
    <2>7. \A m \in Nat : Hanging(got', m) => Hanging(got, m) /\ ~(there /\ m = n)
      BY <2>1, <2>3, <2>4 DEF Marked, Chunked
    <2> QED BY <2>5, <2>6, <2>7 DEF there
  <1>11. got' \in Seq(Items) /\ Fine(got', n)
    BY <1>1, <1>2, <1>4, <1>10
  <1>12. QueueOK' /\ GotOK'
    <2>1. bracketing' \in BOOLEAN /\ pasteTimer' \in BOOLEAN
      BY <1>1, <1>2, <1>6
    <2> QED BY <1>1, <1>3, <1>11, <2>1 DEF Sound, QueueOK, GotOK
  <1>13. Pasted'
    BY <1>1, <1>2, <1>8 DEF Sound, Wired, Pasted
  <1>14. Ordered'
    BY <1>8, <1>11 DEF Ordered, Fine
  <1>15. Bracketed'
    <2> SUFFICES ASSUME link = "connected", NEW m \in Nat, Hanging(got', m)
                 PROVE  Pasting' /\ m = n /\ bracketing'
      BY <1>1, <1>8 DEF Bracketed
    <2>1. Hanging(got, m) /\ ~(last /\ bracketing /\ m = n)
      BY <1>10
    <2>2. m = n /\ bracketing
      BY <2>1 DEF Sound, Wired, Bracketed, n
    <2> QED BY <1>1, <1>6, <2>1, <2>2
  <1>16. ASSUME Here(n)
         PROVE  /\ Said(got', n) \o Rest(queue') = Converted(pastes[n].text)
                /\ Said(got', n) \in Chars /\ Rest(queue') \in Chars
    <2>0. link = "connected"
      BY <1>16 DEF Here
    <2>1. Said(got, n) \o Rest(queue) = Converted(pastes[n].text)
      BY <1>1, <1>16 DEF Sound, Wired, Owed, Pasting, n
    <2>2. Rest(queue) = conv \o Rest(Tail(queue))
      BY <1>1, <1>2, RestHeadTail DEF conv
    <2>3. Said(got, n) \in Chars /\ Rest(Tail(queue)) \in Chars
      BY <1>2, <1>3, SaidTypes, SendsFacts
    <2>4. (Said(got, n) \o conv) \o Rest(Tail(queue)) = Said(got, n) \o (conv \o Rest(Tail(queue)))
      BY <1>9, <2>3, ConcatAssociative DEF Chars
    <2>5. Said(got', n) = Said(got, n) \o conv
      BY <1>10, <2>0
    <2>6. Said(got', n) \in Chars
      BY <1>11, SaidTypes
    <2> QED BY <1>1, <2>1, <2>2, <2>3, <2>4, <2>5, <2>6
  <1>17. Begun'
    <2> SUFFICES ASSUME NEW m \in DOMAIN pastes, Here(m)
                 PROVE  IsPrefix(Said(got', m), Converted(pastes[m].text))
      BY <1>1, <1>8 DEF Begun
    <2>0. link = "connected"
      BY DEF Here
    <2>1. CASE m = n
      BY <1>16, <2>1, PrefixOfConcat
    <2>2. CASE m # n
      BY <1>10, <2>0, <2>2 DEF Sound, Wired, Begun
    <2> QED BY <2>1, <2>2
  <1>18. Owed'
    BY <1>1, <1>8, <1>16 DEF Owed
  <1> QED BY <1>12, <1>13, <1>14, <1>15, <1>17, <1>18 DEF Sound, Wired

(* What is put on the wire, piece after piece.                             *)
LEMMA Joins == \A s, t, u \in Seq(Items) : s \o (t \o u) = (s \o t) \o u
  <1>1. ASSUME NEW s \in Seq(Items), NEW t \in Seq(Items), NEW u \in Seq(Items)
        PROVE  s \o (t \o u) = (s \o t) \o u
    BY ConcatAssociative
  <1> QED BY <1>1

LEMMA SoundBegin ==
  ASSUME Sound, FarOK, LinkOK', Begin
  PROVE  Sound'
  <1>0. PICK text \in Texts : beginThrottledPaste(text) /\ OnWire
    BY DEF Begin
  <1> DEFINE n == Current + 1
             chunks == Loaded(text)
             last == Len(chunks) = 1
             open == Mark("open", n, far.bracketed)
             chunk == Chunk(n, Converted(chunks[1]))
             close == IF last THEN Mark("close", n, far.bracketed) ELSE <<>>
             h == [text |-> text, conn |-> IF link = "connected" THEN conns ELSE 0]
  <1>1. /\ conns' = conns /\ link' = link /\ pastes' = Append(pastes, h) /\ queue' = Tail(chunks)
        /\ bracketing' = (far.bracketed /\ ~last) /\ pasteTimer' = ~last
        /\ got' = IF link = "connected" THEN got \o (((Cancelling \o open) \o chunk) \o close) ELSE got
    BY <1>0 DEF beginThrottledPaste, Send, Put, OnWire, Mark, Chunk
  <1>2. /\ got \in Seq(Items) /\ Current \in Nat /\ n \in Nat \ {0} /\ pastes \in Seq(Histories)
        /\ conns \in Nat /\ far.bracketed \in BOOLEAN
    BY CurrentFacts DEF Sound, QueueOK, GotOK, LinkOK, FarOK
  <1> DEFINE conv == Converted(Head(chunks))
  <1>3. /\ chunks \in Seq(Chars) /\ chunks # <<>> /\ Tail(chunks) \in Seq(Chars)
        /\ Head(chunks) \in Chars /\ chunks[1] = Head(chunks)
        /\ Rest(chunks) = Converted(text) /\ Converted(text) \in Chars
    BY LoadedTypes, TextTypes
  <1>4. conv \in Chars /\ chunk = Chunk(n, conv)
    BY <1>3, ConvFacts
  <1>5. h \in Histories
    BY <1>2 DEF Histories
  <1> HIDE DEF n, chunks, h, chunk, conv
  <1>6. last \in BOOLEAN /\ (Pasting' <=> ~last)
    <2>1. Tail(chunks) = <<>> <=> last
      BY <1>3, TailOf
    <2>2. last \in BOOLEAN
      OBVIOUS
    <2> HIDE DEF last
    <2> QED BY <1>1, <2>1, <2>2 DEF Pasting
  <1>7. close = Mark("close", n, last /\ far.bracketed)
    BY DEF Mark
  <1> HIDE DEF last, open, close
  <1>8. /\ pastes' \in Seq(Histories) /\ Current' = n /\ DOMAIN pastes' = 1 .. n
        /\ \A m \in 1 .. Current : pastes'[m] = pastes[m]
        /\ pastes'[n] = h /\ DOMAIN pastes = 1 .. Current
        /\ \A m \in 1 .. n : m \in 1 .. Current \/ m = n
    <2>1. /\ Append(pastes, h) \in Seq(Histories) /\ Len(Append(pastes, h)) = Len(pastes) + 1
          /\ \A m \in 1 .. Len(pastes) : Append(pastes, h)[m] = pastes[m]
          /\ Append(pastes, h)[Len(pastes) + 1] = h
      BY <1>2, <1>5, AppendProperties
    <2>2. pastes' \in Seq(Histories) /\ Current' = n /\ pastes'[n] = h
      BY <1>1, <2>1 DEF Current, n
    <2>3. DOMAIN pastes' = 1 .. n
      BY <2>2, LenProperties DEF Current
    <2>4. \A m \in 1 .. Current : pastes'[m] = pastes[m]
      BY <1>1, <2>1 DEF Current
    <2>5. DOMAIN pastes = 1 .. Current
      BY <1>2, LenProperties DEF Current
    <2>6. \A m \in 1 .. n : m \in 1 .. Current \/ m = n
      BY <1>2 DEF n
    <2> QED BY <2>2, <2>3, <2>4, <2>5, <2>6
  <1>9. n \notin 1 .. Current
    BY <1>2 DEF n
  <1> DEFINE g1 == got \o Cancelling
             g2 == g1 \o open
             g3 == g2 \o chunk
             g4 == g3 \o close
  <1>10. /\ Cancelling \in Seq(Items) /\ g1 \in Seq(Items)
         /\ Numbered(g1, Current) /\ Undisturbed(g1)
         /\ \A m : Said(g1, m) = Said(got, m)
         /\ link = "connected" => \A m \in Nat : ~Hanging(g1, m)
    BY Cancelled
  <1> HIDE DEF g1
  <1>11. ASSUME NEW g \in Seq(Items), Numbered(g, Current), Undisturbed(g) PROVE Fine(g, n)
    <2>1. \A i \in DOMAIN g : Paced(g[i]) => g[i].paste # n
      BY <1>9, <1>11 DEF Numbered
    <2>2. Alone(g, n)
      BY <2>1 DEF Alone
    <2>3. \A p \in 1 .. Current : p \in 1 .. n
      BY <1>2 DEF n
    <2>4. Numbered(g, n)
      BY <1>11, <2>3 DEF Numbered
    <2> QED BY <1>11, <2>2, <2>4 DEF Fine
  <1>12. Fine(g1, n)
    BY <1>10, <1>11
  <1>13. open \in Seq(Items) /\ Marked(g1, g2, "open", n, far.bracketed)
    BY <1>2, <1>12, AddMark DEF open
  <1> HIDE DEF g2
  <1>14. chunk \in Seq(Items) /\ Chunked(g2, g3, n, conv)
    <2>1. Fine(g2, n)
      BY <1>13 DEF Marked
    <2> QED BY <1>2, <1>4, <2>1, AddChunk
  <1> HIDE DEF g3
  <1>15. close \in Seq(Items) /\ Marked(g3, g4, "close", n, last /\ far.bracketed)
    <2> DEFINE there == last /\ far.bracketed
    <2>1. Fine(g3, n) /\ there \in BOOLEAN /\ close = Mark("close", n, there)
      BY <1>2, <1>6, <1>7, <1>14 DEF Chunked
    <2> HIDE DEF there
    <2>2. close \in Seq(Items) /\ Marked(g3, g4, "close", n, there)
      BY <1>2, <2>1, AddMark
    <2> QED BY <2>2 DEF there
  <1> HIDE DEF g4
  <1>16. link = "connected" => got' = g4
    <2>2. got \in Seq(Items) /\ Cancelling \in Seq(Items) /\ open \in Seq(Items)
          /\ chunk \in Seq(Items) /\ close \in Seq(Items)
      BY <1>2, <1>10, <1>13, <1>14, <1>15
    <2>3. got \o (((Cancelling \o open) \o chunk) \o close) = (((got \o Cancelling) \o open) \o chunk) \o close
      <3> DEFINE p == Cancelling \o open
                 q == p \o chunk
      <3>1. p \in Seq(Items)
        BY <2>2, ConcatProperties
      <3>2. got \o p = (got \o Cancelling) \o open
        BY <2>2, Joins
      <3> HIDE DEF p
      <3>3. q \in Seq(Items)
        BY <2>2, <3>1, ConcatProperties
      <3>4. got \o q = (got \o p) \o chunk
        <4>1. got \in Seq(Items) /\ chunk \in Seq(Items)
          BY <2>2
        <4>2. got \o (p \o chunk) = (got \o p) \o chunk
          BY <3>1, <4>1, ConcatAssociative
        <4> QED BY <4>2
      <3> HIDE DEF q
      <3>5. got \o (q \o close) = (got \o q) \o close
        <4>1. got \in Seq(Items) /\ close \in Seq(Items)
          BY <2>2
        <4> QED BY <3>3, <4>1, ConcatAssociative
      <3> QED BY <3>2, <3>4, <3>5 DEF p, q
    <2> QED BY <1>1, <2>3 DEF g1, g2, g3, g4
  <1>17. Fine(got', n) /\ got' \in Seq(Items)
    <2>1. CASE link = "connected"
      BY <1>15, <1>16, <2>1 DEF Fine, Marked
    <2>2. CASE link # "connected"
      BY <1>1, <1>2, <1>11, <2>2 DEF Sound, Wired, Ordered
    <2> QED BY <2>1, <2>2
  <1>18. QueueOK' /\ GotOK'
    <2>1. bracketing' \in BOOLEAN /\ pasteTimer' \in BOOLEAN
      BY <1>1, <1>2, <1>6
    <2> QED BY <1>1, <1>3, <1>8, <1>17, <2>1 DEF QueueOK, GotOK
  <1>19. Pasted'
    <2>1. h.conn <= conns
      BY <1>2 DEF h
    <2>2. \A m \in 1 .. n : pastes'[m].conn <= conns
      BY <1>8, <2>1 DEF Sound, Wired, Pasted
    <2> QED BY <1>1, <1>2, <1>8, <2>2 DEF Sound, Wired, Pasted
  <1>20. Ordered'
    BY <1>8, <1>17 DEF Ordered, Fine
  <1>21. Bracketed'
    <2> SUFFICES ASSUME link = "connected", NEW m \in Nat, Hanging(g4, m)
                 PROVE  Pasting' /\ m = n /\ bracketing'
      BY <1>1, <1>8, <1>16 DEF Bracketed
    <2>1. Hanging(g3, m) /\ ~(last /\ far.bracketed /\ m = n)
      BY <1>15 DEF Marked
    <2>2. Hanging(g2, m)
      BY <1>14, <2>1 DEF Chunked
    <2>3. far.bracketed /\ m = n
      BY <1>10, <1>13, <2>2 DEF Marked
    <2> QED BY <1>1, <1>6, <2>1, <2>3
  <1>22. ASSUME link = "connected"
         PROVE  /\ Said(got', n) \o Rest(queue') = Converted(text)
                /\ Said(got', n) \in Chars /\ Rest(queue') \in Chars
    <2>1. Said(got', n) = Said(got, n) \o conv
      BY <1>10, <1>13, <1>14, <1>15, <1>16, <1>22 DEF Marked, Chunked
    <2>2. Said(got, n) = <<>>
      BY <1>2, SaidNothing DEF Sound, Wired, Ordered, n
    <2>3. Said(got', n) = conv
      BY <1>4, <2>1, <2>2, ConcatEmptySeq DEF Chars
    <2>4. Rest(chunks) = conv \o Rest(Tail(chunks))
      BY <1>3, RestHeadTail DEF conv
    <2>5. Rest(Tail(chunks)) \in Chars
      BY <1>3, SendsFacts
    <2> QED BY <1>1, <1>3, <1>4, <2>3, <2>4, <2>5
  <1>23. pastes'[n].text = text
    BY <1>8 DEF h
  <1>24. Begun'
    <2> SUFFICES ASSUME NEW m \in 1 .. n, Here(m)'
                 PROVE  IsPrefix(Said(got', m), Converted(pastes'[m].text))
      BY <1>8 DEF Begun
    <2>0. link = "connected" /\ pastes'[m].conn = conns
      BY <1>1 DEF Here
    <2>1. CASE m = n
      BY <1>22, <1>23, <2>0, <2>1, PrefixOfConcat
    <2>2. CASE m \in 1 .. Current
      <3>1. m # n /\ m \in DOMAIN pastes /\ pastes'[m] = pastes[m]
        BY <1>8, <1>9, <2>2
      <3>2. Here(m)
        BY <2>0, <3>1 DEF Here
      <3>3. IsPrefix(Said(got, m), Converted(pastes[m].text))
        BY <3>1, <3>2 DEF Sound, Wired, Begun
      <3>4. Said(got', m) = Said(got, m)
        BY <1>10, <1>13, <1>14, <1>15, <1>16, <2>0, <3>1 DEF Marked, Chunked
      <3> QED BY <3>1, <3>3, <3>4
    <2> QED BY <1>8, <2>1, <2>2
  <1>25. Owed'
    <2> SUFFICES ASSUME Here(Current)'
                 PROVE  Said(got', n) \o Rest(queue') = Converted(pastes'[n].text)
      BY <1>8 DEF Owed
    <2>0. link = "connected"
      BY <1>1 DEF Here
    <2> QED BY <1>22, <1>23, <2>0
  <1> QED BY <1>18, <1>19, <1>20, <1>21, <1>24, <1>25 DEF Sound, Wired

------------------------------------------------------------------------------
(* The types, the idle clock and the capture: one step.                    *)

LEMMA LinkStep ==
  ASSUME TypeOK, [Next]_vars
  PROVE  LinkOK' /\ FarOK'
  <1>0. LinkOK /\ FarOK
    BY DEF TypeOK
  <1>1. CASE UNCHANGED <<link, conns, far>>
    BY <1>0, <1>1 DEF LinkOK, FarOK
  <1>2. CASE FarModes
    <2>1. PICK mode \in {"bracketed", "fullScreen"} : far' = [far EXCEPT ![mode] = ~@]
      BY <1>2 DEF FarModes
    <2>2. far' \in [bracketed : BOOLEAN, fullScreen : BOOLEAN]
      BY <1>0, <2>1 DEF FarOK
    <2> QED BY <1>0, <1>2, <2>2 DEF FarModes, LinkOK, FarOK
  <1>3. CASE Connect
    BY <1>0, <1>3 DEF Connect, LinkOK, FarOK
  <1>4. CASE End
    BY <1>0, <1>4 DEF End, LinkOK, FarOK
  <1>5. CASE reconnect
    BY <1>0, <1>5 DEF reconnect, LinkOK, FarOK
  <1>6. CASE terminate
    BY <1>0, <1>6 DEF terminate, LinkOK, FarOK
  <1>7. CASE UNCHANGED vars
    BY <1>1, <1>7 DEF vars
  <1>8. CASE \/ paste \/ confirmPaste \/ refusePaste \/ sendNextPasteChunk \/ cancelPaste
             \/ Key \/ setPasteBaud \/ setAntiIdle \/ sendAntiIdle
             \/ Receive \/ Say \/ startCapture \/ stopCapture
    BY <1>1, <1>8 DEF paste, confirmPaste, refusePaste, sendNextPasteChunk, cancelPaste, Key, setPasteBaud,
                      setAntiIdle, sendAntiIdle, Receive, Say, startCapture, stopCapture, OnWire
  <1> QED BY <1>2, <1>3, <1>4, <1>5, <1>6, <1>7, <1>8 DEF Next

LEMMA AskingStep ==
  ASSUME TypeOK, [Next]_vars
  PROVE  asking' \in Texts \cup {<<>>}
  <1>0. asking \in Texts \cup {<<>>}
    BY DEF TypeOK, PasteOK
  <1>1. CASE paste
    BY <1>0, <1>1 DEF paste
  <1>2. CASE confirmPaste \/ refusePaste
    BY <1>2 DEF confirmPaste, refusePaste
  <1>3. CASE \/ sendNextPasteChunk \/ cancelPaste
             \/ Key \/ setPasteBaud \/ setAntiIdle \/ sendAntiIdle
             \/ Receive \/ Say \/ FarModes \/ startCapture \/ stopCapture
             \/ Connect \/ End \/ reconnect \/ terminate
    BY <1>0, <1>3 DEF sendNextPasteChunk, cancelPaste, Key, setPasteBaud, setAntiIdle, sendAntiIdle, Receive,
                      Say, FarModes, startCapture, stopCapture, Connect, End, reconnect, terminate, pasteVars
  <1>4. CASE UNCHANGED vars
    BY <1>0, <1>4 DEF vars, pasteVars
  <1> QED BY <1>1, <1>2, <1>3, <1>4 DEF Next

(* Whatever is sent rearms the clock, and so does coming up.               *)
LEMMA DeliverClock ==
  ASSUME NEW text, NEW slowly, Deliver(text, slowly)
  PROVE  Rearm
  BY DEF Deliver, beginThrottledPaste, pasteAtOnce, Send

LEMMA ClockStep ==
  ASSUME TypeOK, [Next]_vars, IdleClockRuns
  PROVE  IdleOK' /\ IdleClockRuns'
  <1>0. IdleOK
    BY DEF TypeOK
  <1>1. CASE paste
    <2>1. PICK text \in Texts :
            IF Threshold > 0 /\ Len(SelectSeq(text, LAMBDA c : c = LF)) > Threshold
            THEN asking' = text /\ UNCHANGED <<queue, bracketing, pasteTimer, pastes, got, idleTimer>>
            ELSE Deliver(text, paced) /\ UNCHANGED asking
      BY <1>1 DEF paste
    <2>2. UNCHANGED idleTimer \/ Rearm
      BY <2>1, DeliverClock
    <2> QED BY <1>0, <1>1, <2>2 DEF paste, OnWire, Rearm, rateVars, IdleOK, IdleClockRuns
  <1>2. CASE confirmPaste
    <2>1. PICK slowly \in BOOLEAN : paced' = slowly /\ Deliver(asking, slowly)
      BY <1>2 DEF confirmPaste, SetRate
    <2>2. Rearm
      BY <2>1, DeliverClock
    <2> QED BY <1>0, <1>2, <2>1, <2>2 DEF confirmPaste, OnWire, Rearm, rateVars, IdleOK, IdleClockRuns
  <1>3. CASE refusePaste
    BY <1>0, <1>3 DEF refusePaste, OnWire, idleVars, rateVars, IdleOK, IdleClockRuns
  <1>4. CASE sendNextPasteChunk
    BY <1>0, <1>4 DEF sendNextPasteChunk, Send, Rearm, OnWire, rateVars, IdleOK, IdleClockRuns
  <1>5. CASE cancelPaste
    BY <1>0, <1>5 DEF cancelPaste, Rearm, OnWire, rateVars, IdleOK, IdleClockRuns
  <1>6. CASE Key
    BY <1>0, <1>6 DEF Key, Send, Rearm, OnWire, rateVars, IdleOK, IdleClockRuns
  <1>7. CASE setPasteBaud
    BY <1>0, <1>7 DEF setPasteBaud, SetRate, OnWire, idleVars, rateVars, IdleOK, IdleClockRuns
  <1>8. CASE setAntiIdle
    BY <1>0, <1>8 DEF setAntiIdle, OnWire, rateVars, IdleOK, IdleClockRuns
  <1>9. CASE sendAntiIdle
    BY <1>0, <1>9 DEF sendAntiIdle, Rearm, OnWire, rateVars, IdleOK, IdleClockRuns
  <1>10. CASE Receive
    BY <1>0, <1>10 DEF Receive, OnWire, idleVars, rateVars, IdleOK, IdleClockRuns
  <1>11. CASE Say
    BY <1>0, <1>11 DEF Say, OnWire, idleVars, rateVars, IdleOK, IdleClockRuns
  <1>12. CASE FarModes
    BY <1>0, <1>12 DEF FarModes, idleVars, rateVars, IdleOK, IdleClockRuns
  <1>13. CASE startCapture
    BY <1>0, <1>13 DEF startCapture, OnWire, idleVars, rateVars, IdleOK, IdleClockRuns
  <1>14. CASE stopCapture
    BY <1>0, <1>14 DEF stopCapture, OnWire, idleVars, rateVars, IdleOK, IdleClockRuns
  <1>15. CASE Connect
    BY <1>0, <1>15 DEF Connect, ConnectedRearms, rateVars, IdleOK, IdleClockRuns
  <1>16. CASE End
    BY <1>0, <1>16 DEF End, rateVars, IdleOK, IdleClockRuns
  <1>17. CASE reconnect
    BY <1>0, <1>17 DEF reconnect, idleVars, rateVars, IdleOK, IdleClockRuns
  <1>18. CASE terminate
    <2>1. link' # "connected"
      BY <1>18 DEF terminate
    <2> QED BY <1>0, <1>18, <2>1 DEF terminate, rateVars, IdleOK, IdleClockRuns
  <1>19. CASE UNCHANGED vars
    BY <1>0, <1>19 DEF vars, idleVars, rateVars, IdleOK, IdleClockRuns
  <1> QED BY <1>1, <1>2, <1>3, <1>4, <1>5, <1>6, <1>7, <1>8, <1>9, <1>10, <1>11, <1>12, <1>13,
             <1>14, <1>15, <1>16, <1>17, <1>18, <1>19 DEF Next

LEMMA CodeTypes == CR \in Nat /\ ESC \in Byte /\ "text" \in StripStates
  BY DEF CR, ESC, Byte, StripStates

LEMMA StripTypes ==
  ASSUME NEW state \in StripStates, NEW c
  PROVE  StripState(state, c) \in StripStates
  BY DEF StripState, StripStates

(* Between two tokens the stripper is in the text.                         *)
LEMMA Between ==
  ASSUME NEW state, NEW token, token.bytes = <<>>, InStep(state, token)
  PROVE  state = "text"
  <1>1. CASE token.text
    BY <1>1 DEF InStep
  <1>2. CASE ~token.text
    <2>1. PICK r : Run(r, state, token.bytes)
      BY <1>2 DEF InStep, Swallowed
    <2>2. Len(<<>>) = 0
      OBVIOUS
    <2> QED BY <2>1, <2>2 DEF Run
  <1> QED BY <1>1, <1>2

(* One byte, received in step.                                             *)
LEMMA ReceiveOne ==
  ASSUME NEW state \in StripStates, NEW token \in [bytes : Seq(Byte), text : BOOLEAN],
         token.bytes # <<>>, InStep(state, token)
  PROVE  /\ (state = "text" /\ Head(token.bytes) # ESC) <=> token.text
         /\ InStep(StripState(state, Head(token.bytes)), [token EXCEPT !.bytes = Tail(@)])
  <1> DEFINE b == token.bytes
             next == [token EXCEPT !.bytes = Tail(@)]
  <1>0. b \in Seq(Byte) /\ b # <<>> /\ next.text = token.text /\ next.bytes = Tail(b) /\ token.text \in BOOLEAN
    OBVIOUS
  <1> HIDE DEF b, next
  <1>1. CASE token.text
    <2>1. state = "text" /\ Plain(b)
      BY <1>1 DEF InStep, b
    <2>2. DOMAIN b = 1 .. Len(b) /\ Len(b) \in Nat \ {0} /\ Head(b) = b[1]
      BY <1>0, LenProperties, EmptySeq
    <2>3. Head(b) # ESC
      BY <2>1, <2>2 DEF Plain
    <2>4. Plain(Tail(b))
      <3>1. /\ Tail(b) \in Seq(Byte) /\ Len(Tail(b)) = Len(b) - 1
            /\ \A i \in 1 .. Len(Tail(b)) : Tail(b)[i] = b[i + 1]
        BY <1>0, HeadTailProperties
      <3>2. DOMAIN Tail(b) = 1 .. Len(b) - 1
        BY <3>1, LenProperties
      <3>3. \A i \in 1 .. Len(b) - 1 : i + 1 \in 1 .. Len(b)
        BY <2>2
      <3> QED BY <2>1, <2>2, <3>1, <3>2, <3>3 DEF Plain
    <2>5. StripState("text", Head(b)) = "text"
      BY <2>3 DEF StripState
    <2>6. InStep("text", next)
      BY <1>0, <1>1, <2>4 DEF InStep
    <2> QED BY <1>1, <2>1, <2>3, <2>5, <2>6 DEF b, next
  <1>2. CASE ~token.text
    <2>1. Swallowed(state, b)
      BY <1>2 DEF InStep, b
    <2>2. /\ Swallowed(StripState(state, Head(b)), Tail(b))
          /\ state = "text" => Head(b) = ESC
      BY <1>0, <2>1, SwallowOne
    <2>3. InStep(StripState(state, Head(b)), next)
      BY <1>0, <1>2, <2>2 DEF InStep
    <2> QED BY <1>2, <2>2, <2>3 DEF b, next
  <1> QED BY <1>0, <1>1, <1>2

LEMMA CaptureStep ==
  ASSUME TypeOK, [Next]_vars, InStepNow, CaptureIsTheText
  PROVE  CaptureOK' /\ InStepNow' /\ CaptureIsTheText'
  <1>0. CaptureOK
    BY DEF TypeOK
  <1>1. CASE UNCHANGED captureVars
    BY <1>0, <1>1 DEF captureVars, CaptureOK, InStepNow, CaptureIsTheText
  <1>2. CASE Receive
    <2> DEFINE c == Head(coming.bytes)
               kept == capture.state = "text" /\ c # ESC
               next == [coming EXCEPT !.bytes = Tail(@)]
               after == [capture EXCEPT !.state = StripState(@, c), !.file = IF kept THEN Append(@, c) ELSE @]
    <2>1. /\ coming.bytes # <<>> /\ coming' = next /\ aligned' = aligned
          /\ IF capture.open THEN /\ capture' = after
                                  /\ expected' = IF coming.text THEN Append(expected, c) ELSE expected
             ELSE capture' = capture /\ expected' = expected
      BY <1>2 DEF Receive
    <2>2. coming.bytes \in Seq(Byte) /\ coming.text \in BOOLEAN /\ aligned \in BOOLEAN
          /\ capture.state \in StripStates /\ capture.file \in Seq(Byte) /\ capture.open \in BOOLEAN
          /\ expected \in Seq(Byte) /\ capture \in [open : BOOLEAN, state : StripStates, file : Seq(Byte)]
      BY <1>0 DEF CaptureOK
    <2>3. c \in Byte /\ Tail(coming.bytes) \in Seq(Byte)
      BY <2>1, <2>2, HeadTailProperties
    <2>4. next \in [bytes : Seq(Byte), text : BOOLEAN]
      BY <1>0, <2>3 DEF CaptureOK
    <2>5. StripState(capture.state, c) \in StripStates
      BY <2>2, StripTypes
    <2>6. Append(capture.file, c) \in Seq(Byte) /\ Append(expected, c) \in Seq(Byte)
      <3>1. capture.file \in Seq(Byte)
        BY <2>2
      <3> DEFINE file == capture.file
      <3> HIDE DEF c, file
      <3>2. file \in Seq(Byte)
        BY <3>1 DEF file
      <3>3. Append(file, c) \in Seq(Byte) /\ Append(expected, c) \in Seq(Byte)
        BY <2>2, <2>3, <3>2, AppendProperties
      <3> QED BY <3>3 DEF file
    <2>7. /\ after \in [open : BOOLEAN, state : StripStates, file : Seq(Byte)]
          /\ after.open = capture.open /\ after.state = StripState(capture.state, c)
          /\ after.file = IF kept THEN Append(capture.file, c) ELSE capture.file
      BY <2>2, <2>5, <2>6
    <2>8. CaptureOK'
      <3> HIDE DEF next, after, c
      <3> QED BY <2>1, <2>2, <2>4, <2>6, <2>7 DEF CaptureOK
    <2>9. ASSUME capture.open, aligned
          PROVE  InStep(capture.state, coming) /\ capture.file = expected
      BY <2>9 DEF InStepNow, CaptureIsTheText
    <2>10. ASSUME capture.open, aligned
           PROVE  (kept <=> coming.text) /\ InStep(StripState(capture.state, c), next)
      <3>1. InStep(capture.state, coming)
        BY <2>9, <2>10
      <3>2. capture.state \in StripStates /\ coming \in [bytes : Seq(Byte), text : BOOLEAN]
        BY <1>0 DEF CaptureOK
      <3> QED BY <2>1, <3>1, <3>2, ReceiveOne
    <2> HIDE DEF next, after, c, kept
    <2>11. InStepNow'
      BY <2>1, <2>7, <2>10 DEF InStepNow
    <2>12. CaptureIsTheText'
      BY <2>1, <2>7, <2>9, <2>10 DEF CaptureIsTheText
    <2> QED BY <2>8, <2>11, <2>12
  <1>3. CASE Say
    <2>1. /\ coming.bytes = <<>> /\ coming' \in Tokens
          /\ capture' = capture /\ expected' = expected /\ aligned' = aligned
      BY <1>3 DEF Say
    <2>2. coming' \in [bytes : Seq(Byte), text : BOOLEAN]
      BY <2>1, TabIoAssumption
    <2>3. ASSUME capture.open, aligned PROVE InStep(capture.state, coming')
      <3>1. capture.state = "text"
        BY <2>1, <2>3, Between DEF InStepNow
      <3>2. CASE coming'.text
        BY <2>1, <3>1, <3>2, TabIoAssumption DEF InStep, Plain
      <3>3. CASE ~coming'.text
        <4>1. coming'.bytes \in Seq(Byte) /\ ControlSequence(coming'.bytes)
          BY <2>1, <2>2, <3>3, TabIoAssumption
        <4> DEFINE b == coming'.bytes
        <4> HIDE DEF b
        <4>2. b \in Seq(Byte) /\ ControlSequence(b)
          BY <4>1 DEF b
        <4>3. Swallowed("text", b)
          BY <4>2, SequenceSwallowed
        <4> QED BY <3>1, <3>3, <4>3 DEF InStep, b
      <3> QED BY <3>2, <3>3
    <2> QED BY <1>0, <2>1, <2>2, <2>3 DEF CaptureOK, InStepNow, CaptureIsTheText
  <1>4. CASE startCapture
    <2>1. /\ capture' = [open |-> TRUE, state |-> "text", file |-> <<>>] /\ expected' = <<>>
          /\ aligned' = (coming.bytes = <<>>) /\ coming' = coming
      BY <1>4 DEF startCapture, NoCapture
    <2>2. <<>> \in Seq(Byte) /\ "text" \in StripStates
      BY EmptySeq, CodeTypes
    <2>3. aligned' => InStep("text", coming)
      BY <2>1, InStepEmpty
    <2> QED BY <1>0, <2>1, <2>2, <2>3 DEF CaptureOK, InStepNow, CaptureIsTheText
  <1>5. CASE stopCapture \/ terminate
    <2>1. /\ capture' = [open |-> FALSE, state |-> "text", file |-> <<>>] /\ expected' = <<>>
          /\ aligned' = TRUE /\ (coming' = coming \/ coming' = [coming EXCEPT !.bytes = <<>>])
      BY <1>5 DEF stopCapture, terminate, NoCapture, NothingComing
    <2>2. <<>> \in Seq(Byte) /\ "text" \in StripStates
      BY EmptySeq, CodeTypes
    <2>3. coming' \in [bytes : Seq(Byte), text : BOOLEAN]
      BY <1>0, <2>1, <2>2 DEF CaptureOK
    <2> QED BY <2>1, <2>2, <2>3 DEF CaptureOK, InStepNow, CaptureIsTheText
  <1>6. CASE End
    <2>1. /\ capture' = capture /\ expected' = expected /\ coming' = [coming EXCEPT !.bytes = <<>>]
          /\ aligned' = (aligned /\ coming.bytes = <<>>)
      BY <1>6 DEF End, NothingComing
    <2>2. <<>> \in Seq(Byte)
      BY EmptySeq
    <2>3. coming' \in [bytes : Seq(Byte), text : BOOLEAN] /\ coming'.bytes = <<>>
      BY <1>0, <2>1, <2>2 DEF CaptureOK
    <2>4. ASSUME capture.open, aligned' PROVE InStep(capture.state, coming')
      <3>1. aligned /\ coming.bytes = <<>>
        BY <2>1, <2>4
      <3>2. capture.state = "text"
        BY <2>4, <3>1, Between DEF InStepNow
      <3>3. InStep("text", coming')
        BY <2>3, InStepEmpty
      <3> QED BY <3>2, <3>3
    <2>5. aligned' => aligned
      BY <2>1
    <2>6. CaptureOK'
      BY <1>0, <2>1, <2>3 DEF CaptureOK
    <2>7. InStepNow'
      BY <2>1, <2>4 DEF InStepNow
    <2>8. CaptureIsTheText'
      BY <2>1, <2>5 DEF CaptureIsTheText
    <2> QED BY <2>6, <2>7, <2>8
  <1>7. CASE \/ paste \/ confirmPaste \/ refusePaste \/ sendNextPasteChunk \/ cancelPaste
             \/ Key \/ setPasteBaud \/ setAntiIdle \/ sendAntiIdle \/ FarModes \/ Connect \/ reconnect
    <2>1. UNCHANGED captureVars
      BY <1>7 DEF paste, confirmPaste, refusePaste, sendNextPasteChunk, cancelPaste, Key, setPasteBaud,
                  setAntiIdle, sendAntiIdle, FarModes, Connect, reconnect
    <2> QED BY <1>1, <2>1
  <1>8. CASE UNCHANGED vars
    BY <1>1, <1>8 DEF vars
  <1> QED BY <1>2, <1>3, <1>4, <1>5, <1>6, <1>7, <1>8 DEF Next

------------------------------------------------------------------------------
(* What a paste sent at once does to a paced one.                          *)

(* Nothing sent at once lies within a paste that was not hurried.          *)
Kept(g, H)  == \A i, k \in DOMAIN g :
                 /\ i < k /\ Paced(g[i]) /\ Paced(g[k])
                 /\ g[i].paste = g[k].paste /\ g[i].paste \notin H
                 => \A j \in i .. k : ~Whole(g[j])
Clear(g, n) == \A i \in DOMAIN g : Paced(g[i]) /\ g[i].paste = n => \A j \in i .. Len(g) : ~Whole(g[j])
(* The closing marker is the last of its paste; paste n has sent none.     *)
Closed(g)   == \A i, k \in DOMAIN g :
                 i < k /\ g[i].what = "close" /\ Paced(g[k]) => g[k].paste # g[i].paste
Ajar(g, n)  == \A i \in DOMAIN g : g[i].what = "close" => g[i].paste # n
Tidy(g, H)  == g \in Seq(Items) /\ Kept(g, H) /\ Closed(g)
Going(g, H, n) == Ajar(g, n) /\ (n \in H \/ Clear(g, n))

LEMMA OwnItem ==
  ASSUME NEW H, NEW n, NEW g, Tidy(g, H), Going(g, H, n), NEW item \in Items, Paced(item), item.paste = n
  PROVE  /\ Tidy(Append(g, item), H)
         /\ item.what # "close" => Going(Append(g, item), H, n)
  <1> DEFINE h == Append(g, item)
             L == Len(g)
  <1>1. g \in Seq(Items) /\ Kept(g, H) /\ Closed(g) /\ Ajar(g, n) /\ (n \in H \/ Clear(g, n))
    BY DEF Tidy, Going
  <1>2. /\ h \in Seq(Items) /\ Len(h) = L + 1 /\ L \in Nat
        /\ DOMAIN g = 1 .. L /\ DOMAIN h = 1 .. L + 1
        /\ \A i \in 1 .. L : h[i] = g[i]
        /\ h[L + 1] = item
        /\ \A i \in 1 .. L + 1 : i \in 1 .. L \/ i = L + 1
    BY <1>1, OneMore
  <1> HIDE DEF h, L
  <1>3. ~Whole(item)
    BY DEF Paced, Whole
  <1>4. ASSUME Clear(g, n), NEW i \in 1 .. L + 1, Paced(h[i]), h[i].paste = n, NEW j \in i .. L + 1
        PROVE  ~Whole(h[j])
    <2>1. CASE j = L + 1
      BY <1>2, <1>3, <2>1
    <2>2. CASE j # L + 1
      <3>1. i \in 1 .. L /\ j \in 1 .. L /\ j \in i .. L
        BY <1>2, <2>2
      <3>2. h[i] = g[i] /\ h[j] = g[j]
        BY <1>2, <3>1
      <3> QED BY <1>2, <1>4, <3>1, <3>2 DEF Clear, L
    <2> QED BY <2>1, <2>2
  <1>5. n \in H \/ Clear(h, n)
    <2>1. Clear(g, n) => Clear(h, n)
      BY <1>2, <1>4 DEF Clear
    <2> QED BY <1>1, <2>1
  <1>6. ASSUME NEW i \in 1 .. L + 1, NEW k \in 1 .. L + 1, i < k, Paced(h[i]), Paced(h[k]),
               h[i].paste = h[k].paste, h[i].paste \notin H, NEW j \in i .. k
        PROVE  ~Whole(h[j])
    <2>1. CASE k = L + 1
      <3>1. h[i].paste = n /\ j \in i .. L + 1 /\ Clear(g, n)
        BY <1>1, <1>2, <1>6, <2>1
      <3> QED BY <1>4, <1>6, <3>1
    <2>2. CASE k # L + 1
      <3>1. i \in 1 .. L /\ j \in 1 .. L /\ k \in 1 .. L
        BY <1>2, <1>6, <2>2
      <3>2. h[i] = g[i] /\ h[j] = g[j] /\ h[k] = g[k]
        BY <1>2, <3>1
      <3> QED BY <1>1, <1>2, <1>6, <3>1, <3>2 DEF Kept
    <2> QED BY <2>1, <2>2
  <1>7. Kept(h, H)
    BY <1>2, <1>6 DEF Kept
  <1>8. ASSUME NEW i \in 1 .. L + 1, NEW k \in 1 .. L + 1, i < k, h[i].what = "close", Paced(h[k])
        PROVE  h[k].paste # h[i].paste
    <2>1. i \in 1 .. L /\ h[i] = g[i]
      BY <1>2, <1>8
    <2>2. CASE k = L + 1
      BY <1>1, <1>2, <1>8, <2>1, <2>2 DEF Ajar
    <2>3. CASE k \in 1 .. L
      BY <1>1, <1>2, <1>8, <2>1, <2>3 DEF Closed
    <2> QED BY <1>2, <2>2, <2>3
  <1>9. Closed(h)
    BY <1>2, <1>8 DEF Closed
  <1>10. ASSUME item.what # "close" PROVE Ajar(h, n)
    <2>1. ASSUME NEW i \in 1 .. L + 1, h[i].what = "close" PROVE h[i].paste # n
      <3>1. i \in 1 .. L /\ h[i] = g[i]
        BY <1>2, <1>10, <2>1
      <3> QED BY <1>1, <1>2, <2>1, <3>1 DEF Ajar
    <2> QED BY <1>2, <2>1 DEF Ajar
  <1> QED BY <1>2, <1>5, <1>7, <1>9, <1>10 DEF Tidy, Going, h

LEMMA OtherItem ==
  ASSUME NEW H, NEW g, Tidy(g, H), NEW item \in Items, ~Paced(item)
  PROVE  /\ Tidy(Append(g, item), H)
         /\ \A n : Going(g, H, n) /\ (Whole(item) => n \in H) => Going(Append(g, item), H, n)
  <1> DEFINE h == Append(g, item)
             L == Len(g)
  <1>1. g \in Seq(Items) /\ Kept(g, H) /\ Closed(g)
    BY DEF Tidy
  <1>2. /\ h \in Seq(Items) /\ Len(h) = L + 1 /\ L \in Nat
        /\ DOMAIN g = 1 .. L /\ DOMAIN h = 1 .. L + 1
        /\ \A i \in 1 .. L : h[i] = g[i]
        /\ h[L + 1] = item
        /\ \A i \in 1 .. L + 1 : i \in 1 .. L \/ i = L + 1
    BY <1>1, OneMore
  <1> HIDE DEF h, L
  <1>3. \A i \in 1 .. L + 1 : Paced(h[i]) => i \in 1 .. L
    BY <1>2
  <1>4. ASSUME NEW i \in 1 .. L + 1, h[i].what = "close" PROVE i \in 1 .. L
    BY <1>3, <1>4 DEF Paced
  <1>6. ASSUME NEW i \in 1 .. L + 1, NEW k \in 1 .. L + 1, i < k, Paced(h[i]), Paced(h[k]),
               h[i].paste = h[k].paste, h[i].paste \notin H, NEW j \in i .. k
        PROVE  ~Whole(h[j])
    <2>1. k \in 1 .. L
      BY <1>3, <1>6
    <2>2. i \in 1 .. L /\ j \in 1 .. L
      BY <1>2, <1>6, <2>1
    <2>3. h[i] = g[i] /\ h[j] = g[j] /\ h[k] = g[k]
      BY <1>2, <2>1, <2>2
    <2> QED BY <1>1, <1>2, <1>6, <2>1, <2>2, <2>3 DEF Kept
  <1>7. Kept(h, H)
    BY <1>2, <1>6 DEF Kept
  <1>8. ASSUME NEW i \in 1 .. L + 1, NEW k \in 1 .. L + 1, i < k, h[i].what = "close", Paced(h[k])
        PROVE  h[k].paste # h[i].paste
    <2>1. i \in 1 .. L /\ k \in 1 .. L
      BY <1>3, <1>4, <1>8
    <2>2. h[i] = g[i] /\ h[k] = g[k]
      BY <1>2, <2>1
    <2> QED BY <1>1, <1>2, <1>8, <2>1, <2>2 DEF Closed
  <1>9. Closed(h)
    BY <1>2, <1>8 DEF Closed
  <1>10. ASSUME NEW n, Going(g, H, n), Whole(item) => n \in H PROVE Going(h, H, n)
    <2>1. Ajar(g, n) /\ (n \in H \/ Clear(g, n))
      BY <1>10 DEF Going
    <2>2. Ajar(h, n)
      <3>1. ASSUME NEW i \in 1 .. L + 1, h[i].what = "close" PROVE h[i].paste # n
        <4>1. i \in 1 .. L /\ h[i] = g[i]
          BY <1>2, <1>4, <3>1
        <4> QED BY <1>2, <2>1, <3>1, <4>1 DEF Ajar
      <3> QED BY <1>2, <3>1 DEF Ajar
    <2>3. ASSUME Clear(g, n), ~Whole(item), NEW i \in 1 .. L + 1, Paced(h[i]), h[i].paste = n,
                 NEW j \in i .. L + 1
          PROVE  ~Whole(h[j])
      <3>1. i \in 1 .. L /\ h[i] = g[i]
        BY <1>2, <1>3, <2>3
      <3>2. CASE j = L + 1
        BY <1>2, <2>3, <3>2
      <3>3. CASE j # L + 1
        <4>1. j \in i .. L /\ j \in 1 .. L
          BY <1>2, <3>1, <3>3
        <4>2. h[j] = g[j]
          BY <1>2, <4>1
        <4> QED BY <1>2, <2>3, <3>1, <4>1, <4>2 DEF Clear, L
      <3> QED BY <3>2, <3>3
    <2>4. Clear(g, n) /\ ~Whole(item) => Clear(h, n)
      BY <1>2, <2>3 DEF Clear
    <2> QED BY <1>10, <2>1, <2>2, <2>4 DEF Going
  <1> QED BY <1>2, <1>7, <1>9, <1>10 DEF Tidy, h

(* A paste that is new has sent nothing.                                   *)
LEMMA NewGoing ==
  ASSUME NEW g \in Seq(Items), NEW H, NEW c \in Nat, Numbered(g, c)
  PROVE  Going(g, H, c + 1)
  <1>1. \A i \in DOMAIN g : Paced(g[i]) => g[i].paste # c + 1
    <2>1. c + 1 \notin 1 .. c
      OBVIOUS
    <2> QED BY <2>1 DEF Numbered
  <1>2. \A i \in DOMAIN g : g[i].what = "close" => Paced(g[i])
    BY DEF Paced
  <1> QED BY <1>1, <1>2 DEF Going, Ajar, Clear

LEMMA OwnMark ==
  ASSUME NEW H, NEW n \in Nat, NEW g, Tidy(g, H), Going(g, H, n), NEW what \in {"open", "close"},
         NEW there \in BOOLEAN
  PROVE  /\ Tidy(g \o Mark(what, n, there), H)
         /\ ~(there /\ what = "close") => Going(g \o Mark(what, n, there), H, n)
  <1>0. g \in Seq(Items)
    BY DEF Tidy
  <1>1. CASE ~there
    <2>1. Mark(what, n, there) = <<>> /\ g \o <<>> = g
      BY <1>0, <1>1, ConcatEmptySeq DEF Mark
    <2> QED BY <2>1
  <1>2. CASE there
    <2> DEFINE item == Item(what, n, <<>>)
    <2>1. item \in Items /\ item.what = what /\ item.paste = n /\ Mark(what, n, there) = <<item>>
      BY <1>2, ItemTypes, NoChars DEF Whats, Mark
    <2> HIDE DEF item
    <2>2. g \o Mark(what, n, there) = Append(g, item)
      BY <1>0, <2>1, AppendIsConcat
    <2>3. Paced(item)
      BY <2>1 DEF Paced
    <2>4. /\ Tidy(Append(g, item), H)
          /\ item.what # "close" => Going(Append(g, item), H, n)
      BY <2>1, <2>3, OwnItem
    <2> QED BY <1>2, <2>1, <2>2, <2>4
  <1> QED BY <1>1, <1>2

LEMMA OwnChunk ==
  ASSUME NEW H, NEW n \in Nat, NEW g, Tidy(g, H), Going(g, H, n), NEW chars \in Chars
  PROVE  Tidy(g \o Chunk(n, chars), H) /\ Going(g \o Chunk(n, chars), H, n)
  <1>0. g \in Seq(Items)
    BY DEF Tidy
  <1> DEFINE item == Item("chunk", n, chars)
  <1>1. item \in Items /\ item.what = "chunk" /\ item.paste = n /\ Chunk(n, chars) = <<item>>
    BY ItemTypes DEF Whats, Chunk
  <1> HIDE DEF item
  <1>2. g \o Chunk(n, chars) = Append(g, item)
    BY <1>0, <1>1, AppendIsConcat
  <1>3. Paced(item)
    BY <1>1 DEF Paced
  <1>4. /\ Tidy(Append(g, item), H)
        /\ item.what # "close" => Going(Append(g, item), H, n)
    BY <1>1, <1>3, OwnItem
  <1> QED BY <1>1, <1>2, <1>4

(* A rate set to unlimited excuses more, never less.                       *)
LEMMA MoreHurried ==
  ASSUME NEW g, NEW H, NEW J, H \subseteq J
  PROVE  /\ Tidy(g, H) => Tidy(g, J)
         /\ \A n : Going(g, H, n) => Going(g, J, n)
  <1>1. Tidy(g, H) => Tidy(g, J)
    <2>1. \A n : n \notin J => n \notin H
      OBVIOUS
    <2>2. Kept(g, H) => Kept(g, J)
      BY <2>1 DEF Kept
    <2> QED BY <2>2 DEF Tidy
  <1>2. \A n : Going(g, H, n) => Going(g, J, n)
    BY DEF Going
  <1> QED BY <1>1, <1>2

Unhurried == /\ Tidy(got, hurried)
             /\ Pasting => Going(got, hurried, Current)
             /\ ~paced /\ Pasting => Current \in hurried

LEMMA RateSteps ==
  ASSUME [Next]_vars, ~paced /\ Pasting => Current \in hurried
  PROVE  hurried \subseteq hurried' /\ (~paced' /\ Pasting' => Current' \in hurried')
  <1> DEFINE Steady == UNCHANGED <<paced, hurried, pastes>> /\ (Pasting' => Pasting)
  <1>1. CASE paste
    <2>1. PICK text \in Texts :
            IF Threshold > 0 /\ Len(SelectSeq(text, LAMBDA c : c = LF)) > Threshold
            THEN asking' = text /\ UNCHANGED <<queue, bracketing, pasteTimer, pastes, got, idleTimer>>
            ELSE Deliver(text, paced) /\ UNCHANGED asking
      BY <1>1 DEF paste
    <2>2. UNCHANGED <<paced, hurried>>
      BY <1>1 DEF paste, rateVars
    <2>3. paced \/ UNCHANGED <<queue, pastes>>
      BY <2>1 DEF Deliver, pasteAtOnce
    <2> QED BY <2>2, <2>3 DEF Pasting, Current
  <1>2. CASE confirmPaste
    <2>1. PICK slowly \in BOOLEAN : SetRate(slowly) /\ Deliver(asking, slowly)
      BY <1>2 DEF confirmPaste
    <2>2. slowly \/ UNCHANGED <<queue, pastes>>
      BY <2>1 DEF Deliver, pasteAtOnce
    <2> QED BY <2>1, <2>2 DEF SetRate, Pasting, Current
  <1>3. CASE setPasteBaud
    BY <1>3 DEF setPasteBaud, SetRate, pasteVars, Pasting, Current
  <1>4. CASE Steady
    BY <1>4 DEF Current
  <1>5. CASE sendNextPasteChunk
    <2>1. Steady
      BY <1>5 DEF sendNextPasteChunk, rateVars, Pasting
    <2> QED BY <1>4, <2>1
  <1>6. CASE refusePaste
    <2>1. Steady
      BY <1>6 DEF refusePaste, rateVars, Pasting
    <2> QED BY <1>4, <2>1
  <1>7. CASE cancelPaste \/ terminate
    <2>1. Steady
      BY <1>7 DEF cancelPaste, terminate, Stopped, rateVars, Pasting
    <2> QED BY <1>4, <2>1
  <1>8. CASE UNCHANGED vars
    <2>1. Steady
      BY <1>8 DEF vars, rateVars, pasteVars, Pasting
    <2> QED BY <1>4, <2>1
  <1>9. CASE \/ Key \/ setAntiIdle \/ sendAntiIdle \/ Receive \/ Say \/ FarModes
             \/ startCapture \/ stopCapture \/ Connect \/ End \/ reconnect
    <2>1. UNCHANGED rateVars /\ UNCHANGED pasteVars
      BY <1>9 DEF Key, setAntiIdle, sendAntiIdle, Receive, Say, FarModes, startCapture, stopCapture,
                  Connect, End, reconnect
    <2>2. Steady
      BY <2>1 DEF rateVars, pasteVars, Pasting
    <2> QED BY <1>4, <2>2
  <1> HIDE DEF Steady
  <1> QED BY <1>1, <1>2, <1>3, <1>5, <1>6, <1>7, <1>8, <1>9 DEF Next

(* What cancelling a paste sends is its closing marker, if anything.       *)
LEMMA TidyCancelled ==
  ASSUME Sound, Unhurried
  PROVE  got \o Cancelling \in Seq(Items) /\ Tidy(got \o Cancelling, hurried)
  <1>0. got \in Seq(Items) /\ bracketing \in BOOLEAN /\ Tidy(got, hurried)
    BY DEF Sound, GotOK, QueueOK, Unhurried
  <1>1. CASE Pasting
    <2>1. Current \in Nat /\ Going(got, hurried, Current)
      BY <1>1, CurrentFacts DEF Sound, Unhurried
    <2>2. Cancelling = Mark("close", Current, bracketing)
      BY <1>1 DEF Cancelling, Closing, Mark
    <2>3. Tidy(got \o Mark("close", Current, bracketing), hurried)
      BY <1>0, <2>1, OwnMark
    <2> QED BY <2>2, <2>3 DEF Tidy
  <1>2. CASE ~Pasting
    <2>1. Cancelling = <<>> /\ got \o <<>> = got
      BY <1>0, <1>2, ConcatEmptySeq DEF Cancelling
    <2> QED BY <1>0, <2>1
  <1> QED BY <1>1, <1>2

LEMMA TidyPlainly ==
  ASSUME Sound, Unhurried, NEW H, hurried \subseteq H, NEW item, Plainly(item),
         Whole(item) /\ Pasting => Current \in H
  PROVE  Tidy(got', H) /\ (Pasting' => Going(got', H, Current'))
  <1>1. /\ queue' = queue /\ pastes' = pastes /\ item \in Items /\ ~Paced(item)
        /\ got' = IF link = "connected" THEN got \o <<item>> ELSE got
    BY DEF Plainly, OnWire, PasteStill, Put
  <1>2. got \in Seq(Items) /\ got \o <<item>> = Append(got, item)
    BY <1>1, AppendIsConcat DEF Sound, GotOK
  <1>3. Tidy(got, H) /\ (Pasting => Going(got, H, Current))
    BY MoreHurried DEF Unhurried
  <1>4. Tidy(Append(got, item), H) /\ (Pasting => Going(Append(got, item), H, Current))
    BY <1>1, <1>3, OtherItem
  <1>5. Pasting' = Pasting /\ Current' = Current
    BY <1>1 DEF Pasting, Current
  <1> QED BY <1>1, <1>2, <1>3, <1>4, <1>5

LEMMA TidyOnward ==
  ASSUME Sound, Unhurried, Onward
  PROVE  Tidy(got', hurried) /\ (Pasting' => Going(got', hurried, Current'))
  <1> DEFINE n == Current
             last == Len(queue) = 1
             chars == Converted(Head(queue))
             there == last /\ bracketing
  <1>1. /\ pastes' = pastes /\ queue' = Tail(queue) /\ queue # <<>>
        /\ got' = IF link = "connected"
                  THEN got \o (Chunk(n, chars) \o (IF last THEN Closing ELSE <<>>)) ELSE got
    BY DEF Onward, OnWire, Put, Pasting, Chunk
  <1>2. queue \in Seq(Chars) /\ got \in Seq(Items) /\ n \in Nat /\ bracketing \in BOOLEAN
    BY CurrentFacts DEF Sound, QueueOK, GotOK
  <1>3. Head(queue) \in Chars
    BY <1>1, <1>2, HeadTailProperties
  <1>4. chars \in Chars
    BY <1>3, ConvFacts
  <1>5. (IF last THEN Closing ELSE <<>>) = Mark("close", n, there)
    BY DEF Closing, Mark
  <1>6. Tail(queue) = <<>> <=> last
    BY <1>1, <1>2, TailOf
  <1>7. Pasting' <=> ~last
    BY <1>1, <1>6 DEF Pasting
  <1>8. Tidy(got, hurried) /\ Going(got, hurried, n)
    BY <1>1 DEF Unhurried, Pasting
  <1>9. Current' = n
    BY <1>1 DEF Current
  <1>10. there \in BOOLEAN /\ (there => last)
    BY <1>2
  <1> HIDE DEF n, last, chars, there
  <1> DEFINE g == got \o Chunk(n, chars)
             h == g \o Mark("close", n, there)
  <1>11. Tidy(g, hurried) /\ Going(g, hurried, n)
    BY <1>2, <1>4, <1>8, OwnChunk
  <1> HIDE DEF g
  <1>12. Tidy(h, hurried) /\ (~there => Going(h, hurried, n))
    BY <1>2, <1>10, <1>11, OwnMark
  <1>13. link = "connected" => got' = h
    <2>1. Chunk(n, chars) \in Seq(Items) /\ Mark("close", n, there) \in Seq(Items)
      <3>1. Item("chunk", n, chars) \in Items /\ Item("close", n, <<>>) \in Items
        BY <1>2, <1>4, ItemTypes, NoChars DEF Whats
      <3>2. <<>> \in Seq(Items)
        BY EmptySeq
      <3> QED BY <3>1, <3>2 DEF Chunk, Mark
    <2> DEFINE x == Chunk(n, chars)
               y == Mark("close", n, there)
    <2>2. got \o (x \o y) = (got \o x) \o y
      <3>1. got \in Seq(Items) /\ x \in Seq(Items) /\ y \in Seq(Items)
        BY <1>2, <2>1
      <3> HIDE DEF x, y
      <3> QED BY <3>1, ConcatAssociative
    <2> QED BY <1>1, <1>5, <2>2 DEF g
  <1> QED BY <1>1, <1>7, <1>8, <1>9, <1>10, <1>12, <1>13

LEMMA TidyBegin ==
  ASSUME Sound, FarOK, Unhurried, Begin
  PROVE  \E H : H = hurried /\ Tidy(got', H) /\ (Pasting' => Going(got', H, Current'))
  <1>0. PICK text \in Texts : beginThrottledPaste(text) /\ OnWire
    BY DEF Begin
  <1> DEFINE n == Current + 1
             chunks == Loaded(text)
             last == Len(chunks) = 1
             open == Mark("open", n, far.bracketed)
             chunk == Chunk(n, Converted(chunks[1]))
             close == IF last THEN Mark("close", n, far.bracketed) ELSE <<>>
             h == [text |-> text, conn |-> IF link = "connected" THEN conns ELSE 0]
  <1>1. /\ pastes' = Append(pastes, h) /\ queue' = Tail(chunks)
        /\ got' = IF link = "connected" THEN got \o (((Cancelling \o open) \o chunk) \o close) ELSE got
    BY <1>0 DEF beginThrottledPaste, Send, Put, OnWire, Mark, Chunk
  <1>2. /\ got \in Seq(Items) /\ Current \in Nat /\ n \in Nat /\ pastes \in Seq(Histories)
        /\ conns \in Nat /\ far.bracketed \in BOOLEAN
    BY CurrentFacts DEF Sound, QueueOK, GotOK, LinkOK, FarOK
  <1> DEFINE conv == Converted(Head(chunks))
  <1>3. /\ chunks \in Seq(Chars) /\ chunks # <<>> /\ Head(chunks) \in Chars /\ chunks[1] = Head(chunks)
    BY LoadedTypes, TextTypes
  <1>4. conv \in Chars /\ chunk = Chunk(n, conv)
    BY <1>3, ConvFacts
  <1>5. h \in Histories
    BY <1>2 DEF Histories
  <1> HIDE DEF n, chunks, h, chunk, conv
  <1>6. last \in BOOLEAN /\ (Pasting' <=> ~last)
    <2>1. Tail(chunks) = <<>> <=> last
      BY <1>3, TailOf
    <2>2. last \in BOOLEAN
      OBVIOUS
    <2> HIDE DEF last
    <2> QED BY <1>1, <2>1, <2>2 DEF Pasting
  <1>7. close = Mark("close", n, last /\ far.bracketed)
    BY DEF Mark
  <1> HIDE DEF last, open, close
  <1>8. Current' = n
    <2>1. Len(Append(pastes, h)) = Len(pastes) + 1
      BY <1>2, <1>5, AppendProperties
    <2> QED BY <1>1, <2>1 DEF Current, n
  <1> DEFINE there == last /\ far.bracketed
             g1 == got \o Cancelling
             g2 == g1 \o open
             g3 == g2 \o chunk
             g4 == g3 \o close
  <1>9. there \in BOOLEAN /\ (there => last)
    BY <1>2, <1>6
  <1>10. g1 \in Seq(Items) /\ Tidy(g1, hurried) /\ Numbered(g1, Current) /\ Cancelling \in Seq(Items)
    BY TidyCancelled, Cancelled
  <1>11. Going(g1, hurried, n) /\ Going(got, hurried, n)
    <2> HIDE DEF g1
    <2>1. Numbered(got, Current)
      BY DEF Sound, Wired, Ordered
    <2> QED BY <1>2, <1>10, <2>1, NewGoing DEF n
  <1> HIDE DEF there, g1
  <1>12. Tidy(g2, hurried) /\ Going(g2, hurried, n)
    BY <1>2, <1>10, <1>11, OwnMark DEF open
  <1> HIDE DEF g2
  <1>13. Tidy(g3, hurried) /\ Going(g3, hurried, n)
    BY <1>2, <1>4, <1>12, OwnChunk
  <1> HIDE DEF g3
  <1>14. Tidy(g4, hurried) /\ (~there => Going(g4, hurried, n))
    <2>1. close = Mark("close", n, there)
      BY <1>7 DEF there
    <2>2. /\ Tidy(g3 \o Mark("close", n, there), hurried)
          /\ ~there => Going(g3 \o Mark("close", n, there), hurried, n)
      BY <1>2, <1>9, <1>13, OwnMark
    <2> QED BY <2>1, <2>2
  <1>15. link = "connected" => got' = g4
    <2>1. Item("chunk", n, conv) \in Items /\ Item("close", n, <<>>) \in Items /\ Item("open", n, <<>>) \in Items
      BY <1>2, <1>4, ItemTypes, NoChars DEF Whats
    <2>2. <<>> \in Seq(Items)
      BY EmptySeq
    <2>3. open \in Seq(Items) /\ chunk \in Seq(Items) /\ close \in Seq(Items)
      BY <1>4, <1>7, <2>1, <2>2 DEF open, Mark, Chunk
    <2> DEFINE p == Cancelling \o open
               q == p \o chunk
    <2>4. p \in Seq(Items)
      BY <1>10, <2>3, ConcatProperties
    <2>5. got \o p = (got \o Cancelling) \o open
      <3>1. got \in Seq(Items) /\ Cancelling \in Seq(Items) /\ open \in Seq(Items)
        BY <1>2, <1>10, <2>3
      <3> QED BY <3>1, Joins
    <2> HIDE DEF p
    <2>6. q \in Seq(Items)
      BY <2>3, <2>4, ConcatProperties
    <2>7. got \o q = (got \o p) \o chunk
      <3>1. got \in Seq(Items) /\ chunk \in Seq(Items)
        BY <1>2, <2>3
      <3>2. got \o (p \o chunk) = (got \o p) \o chunk
        BY <2>4, <3>1, ConcatAssociative
      <3> QED BY <3>2
    <2> HIDE DEF q
    <2>8. got \o (q \o close) = (got \o q) \o close
      <3>1. got \in Seq(Items) /\ q \in Seq(Items) /\ close \in Seq(Items)
        BY <1>2, <2>3, <2>6
      <3> QED BY <3>1, Joins
    <2> QED BY <1>1, <2>5, <2>7, <2>8 DEF p, q, g1, g2, g3
  <1>16. Tidy(got, hurried)
    BY DEF Unhurried
  <1> HIDE DEF g4
  <1>17. Tidy(got', hurried) /\ (~last => Going(got', hurried, n))
    BY <1>1, <1>9, <1>11, <1>14, <1>15, <1>16
  <1> QED BY <1>6, <1>8, <1>17

LEMMA TypeParts == TypeOK /\ Wired <=>
  Sound /\ FarOK /\ IdleOK /\ CaptureOK /\ asking \in Texts \cup {<<>>}
  BY DEF TypeOK, Sound, PasteOK, QueueOK

LEMMA UnhurriedStep ==
  ASSUME TypeOK, Wired, Unhurried, [Next]_vars
  PROVE  Unhurried'
  <1>1. Sound /\ FarOK
    BY TypeParts
  <1>2. hurried \subseteq hurried' /\ (~paced' /\ Pasting' => Current' \in hurried')
    BY RateSteps DEF Unhurried
  <1>3. Silent \/ Idly \/ Typed \/ Begin \/ Onward \/ Dropped \/ Fresh
    BY WireSteps DEF Unhurried
  <1> DEFINE Good(g, H, n) == Tidy(g, H) /\ (Pasting' => Going(g, H, n))
  <1> SUFFICES Good(got', hurried', Current')
    BY <1>2 DEF Unhurried
  <1>4. ASSUME Good(got', hurried, Current') PROVE Good(got', hurried', Current')
    BY <1>2, <1>4, MoreHurried
  <1>5. CASE Silent
    <2>1. got' = got /\ Pasting' = Pasting /\ Current' = Current
      BY <1>5 DEF Silent, PasteStill, Pasting, Current
    <2>2. Good(got', hurried, Current')
      BY <2>1 DEF Unhurried
    <2> QED BY <1>4, <2>2
  <1>6. CASE Idly
    <2> DEFINE item == Item("idle", 0, <<>>)
    <2>1. Plainly(item) /\ ~Pasting
      BY <1>6 DEF Idly
    <2> HIDE DEF item
    <2> QED BY <1>1, <1>2, <2>1, TidyPlainly
  <1>7. CASE Typed
    <2>1. PICK item : /\ item.what # "idle" /\ Plainly(item)
                      /\ Whole(item) /\ Pasting => Current \in hurried'
      BY <1>7 DEF Typed
    <2> QED BY <1>1, <1>2, <2>1, TidyPlainly
  <1>8. CASE Begin
    <2>1. Good(got', hurried, Current')
      BY <1>1, <1>8, TidyBegin
    <2> QED BY <1>4, <2>1
  <1>9. CASE Onward
    <2>1. Good(got', hurried, Current')
      BY <1>1, <1>9, TidyOnward
    <2> QED BY <1>4, <2>1
  <1>10. CASE Dropped
    <2>1. ~Pasting' /\ got' = IF link = "connected" THEN got \o Cancelling ELSE got
      BY <1>10 DEF Dropped, Stopped, Pasting, Put
    <2>2. Tidy(got \o Cancelling, hurried) /\ Tidy(got, hurried)
      BY <1>1, TidyCancelled DEF Unhurried
    <2>3. Good(got', hurried, Current')
      BY <2>1, <2>2
    <2> QED BY <1>4, <2>3
  <1>11. CASE Fresh
    <2>1. got' = <<>>
      BY <1>11 DEF Fresh
    <2>2. got' \in Seq(Items) /\ DOMAIN got' = {}
      <3>1. <<>> \in Seq(Items) /\ DOMAIN <<>> = 1 .. 0
        BY EmptySeq
      <3> QED BY <2>1, <3>1
    <2> QED BY <2>2 DEF Tidy, Kept, Closed, Going, Ajar, Clear
  <1> HIDE DEF Good
  <1> QED BY <1>3, <1>5, <1>6, <1>7, <1>8, <1>9, <1>10, <1>11

------------------------------------------------------------------------------
(* The inductive invariant.                                                *)

TabIoInv == TypeOK /\ Wired /\ Unhurried /\ IdleClockRuns /\ InStepNow /\ CaptureIsTheText

LEMMA InvInit == Init => TabIoInv
  <1> SUFFICES ASSUME Init PROVE TabIoInv
    OBVIOUS
  <1>1. LinkOK /\ FarOK /\ IdleOK /\ asking \in Texts \cup {<<>>}
    BY DEF Init, LinkOK, FarOK, IdleOK
  <1>2. QueueOK /\ GotOK
    <2>1. <<>> \in Seq(Chars) /\ <<>> \in Seq(Histories) /\ <<>> \in Seq(Items)
      BY EmptySeq
    <2> QED BY <2>1 DEF Init, QueueOK, GotOK
  <1>3. CaptureOK
    <2>1. <<>> \in Seq(Byte) /\ "text" \in StripStates
      BY EmptySeq, CodeTypes
    <2> QED BY <2>1 DEF Init, NoCapture, CaptureOK
  <1>4. DOMAIN got = {} /\ DOMAIN pastes = {} /\ ~Pasting /\ link # "connected"
    <2>1. DOMAIN <<>> = 1 .. 0
      OBVIOUS
    <2>2. got = <<>> /\ pastes = <<>> /\ queue = <<>> /\ link = "dialing"
      BY DEF Init
    <2> QED BY <2>1, <2>2 DEF Pasting
  <1>5. Wired
    BY <1>4 DEF Wired, Pasted, Ordered, Numbered, Undisturbed, Bracketed, Begun, Owed
  <1>9. Unhurried
    BY <1>2, <1>4 DEF Unhurried, Tidy, Kept, Closed, GotOK
  <1>6. IdleClockRuns /\ ~capture.open
    BY <1>4 DEF Init, IdleClockRuns, NoCapture
  <1>7. InStepNow /\ CaptureIsTheText
    BY <1>6 DEF InStepNow, CaptureIsTheText
  <1>8. TypeOK
    BY <1>1, <1>2, <1>3 DEF TypeOK, PasteOK, QueueOK
  <1> QED BY <1>5, <1>6, <1>7, <1>8, <1>9 DEF TabIoInv

LEMMA SoundStep ==
  ASSUME TypeOK, Wired, Unhurried, [Next]_vars
  PROVE  Sound'
  <1>1. Sound /\ FarOK
    BY TypeParts
  <1>2. LinkOK'
    BY LinkStep
  <1>3. Silent \/ Idly \/ Typed \/ Begin \/ Onward \/ Dropped \/ Fresh
    BY WireSteps DEF Unhurried
  <1>4. CASE Silent
    BY <1>1, <1>2, <1>4, SoundSilent
  <1>5. CASE Idly
    <2> DEFINE item == Item("idle", 0, <<>>)
    <2>1. Plainly(item) /\ ~Pasting
      BY <1>5 DEF Idly
    <2> HIDE DEF item
    <2> QED BY <1>1, <1>2, <2>1, SoundPlainly
  <1>6. CASE Typed
    <2>1. PICK item : /\ item.what # "idle" /\ Plainly(item)
                      /\ Whole(item) /\ Pasting => Current \in hurried'
      BY <1>6 DEF Typed
    <2> QED BY <1>1, <1>2, <2>1, SoundPlainly
  <1>7. CASE Begin
    BY <1>1, <1>2, <1>7, SoundBegin
  <1>8. CASE Onward
    BY <1>1, <1>2, <1>8, SoundOnward
  <1>9. CASE Dropped
    BY <1>1, <1>2, <1>9, SoundDropped
  <1>10. CASE Fresh
    BY <1>1, <1>2, <1>10, SoundFresh
  <1> QED BY <1>3, <1>4, <1>5, <1>6, <1>7, <1>8, <1>9, <1>10

LEMMA InvStep == TabIoInv /\ [Next]_vars => TabIoInv'
  <1> SUFFICES ASSUME TabIoInv, [Next]_vars PROVE TabIoInv'
    OBVIOUS
  <1>1. Sound'
    BY SoundStep DEF TabIoInv
  <1>2. FarOK' /\ LinkOK'
    BY LinkStep DEF TabIoInv
  <1>3. IdleOK' /\ IdleClockRuns'
    BY ClockStep DEF TabIoInv
  <1>4. CaptureOK' /\ InStepNow' /\ CaptureIsTheText'
    BY CaptureStep DEF TabIoInv
  <1>5. asking' \in Texts \cup {<<>>}
    BY AskingStep DEF TabIoInv
  <1>6. TypeOK'
    BY <1>1, <1>2, <1>3, <1>4, <1>5 DEF TypeOK, Sound, PasteOK, QueueOK
  <1>7. Wired'
    BY <1>1 DEF Sound
  <1>8. Unhurried'
    BY UnhurriedStep DEF TabIoInv
  <1> QED BY <1>3, <1>4, <1>6, <1>7, <1>8 DEF TabIoInv

LEMMA WiredIsInvisible == TabIoInv => PacingIsInvisible
  <1> SUFFICES ASSUME TabIoInv PROVE PacingIsInvisible
    OBVIOUS
  <1>1. Wired /\ got \in Seq(Items)
    BY DEF TabIoInv, TypeOK, GotOK
  <1>2. ChunksMakeTheText
    <2>1. ASSUME NEW n
          PROVE  Said(got, n) = FlattenSeq([i \in DOMAIN got |->
                   IF got[i].what = "chunk" /\ got[i].paste = n THEN got[i].chars ELSE <<>>])
      BY DEF Said, SaidBy
    <2> QED BY <1>1, <2>1 DEF Wired, Begun, ChunksMakeTheText
  <1>0. Kept(got, hurried) /\ Closed(got)
    BY DEF TabIoInv, Unhurried, Tidy
  <1>3. PacedUndisturbed
    <2> SUFFICES ASSUME NEW i \in DOMAIN got, NEW k \in DOMAIN got,
                        i < k /\ Paced(got[i]) /\ Paced(got[k]) /\ got[i].paste = got[k].paste,
                        NEW j \in i .. k
                 PROVE  /\ got[j].what # "idle"
                        /\ Paced(got[j]) => got[j].paste = got[i].paste
                        /\ Whole(got[j]) => got[i].paste \in hurried
      BY DEF PacedUndisturbed, PacedItem, Paced, AtOnce, Whole
    <2>1. got[j].what # "idle" /\ (Paced(got[j]) => got[j].paste = got[i].paste)
      BY <1>1 DEF Wired, Ordered, Undisturbed
    <2>2. Whole(got[j]) => got[i].paste \in hurried
      BY <1>0 DEF Kept
    <2> QED BY <2>1, <2>2
  <1>4. BracketsPair
    <2>0. \A i \in DOMAIN got : got[i].what \in {"open", "chunk", "close"} => Paced(got[i])
      BY DEF Paced
    <2>1. ASSUME NEW i \in DOMAIN got, got[i].what = "open", link = "connected",
                 ~(\E k \in i + 1 .. Len(got) : got[k] = Item("close", got[i].paste, <<>>))
          PROVE  Pasting /\ got[i].paste = Current
      <3>1. got[i] \in Items
        BY <1>1, LenProperties
      <3>2. got[i].paste \in Nat /\ Hanging(got, got[i].paste)
        BY <2>1, <3>1 DEF Items, Hanging
      <3> QED BY <1>1, <2>1, <3>2 DEF Wired, Bracketed
    <2>2. ASSUME NEW i \in DOMAIN got, got[i].what = "open", NEW k \in i + 1 .. Len(got),
                 got[k].what = "chunk", got[k].paste = got[i].paste, got[i].paste \notin hurried,
                 NEW j \in i .. k
          PROVE  ~BracketEnds(j)
      <3>1. DOMAIN got = 1 .. Len(got) /\ Len(got) \in Nat
        BY <1>1, LenProperties
      <3>2. k \in DOMAIN got /\ j \in DOMAIN got /\ i < k /\ Paced(got[i]) /\ Paced(got[k])
        BY <2>0, <2>2, <3>1
      <3>3. ~Whole(got[j])
        BY <1>0, <2>2, <3>2 DEF Kept
      <3>4. ASSUME got[j].what = "close" PROVE FALSE
        <4>1. got[j].paste = got[i].paste
          BY <1>3, <2>2, <3>2, <3>4 DEF PacedUndisturbed, PacedItem, Paced
        <4>2. j < k
          BY <2>2, <3>1, <3>2, <3>4
        <4>3. got[k].paste # got[j].paste
          BY <1>0, <3>2, <3>4, <4>2 DEF Closed
        <4> QED BY <2>2, <4>1, <4>3
      <3> QED BY <3>3, <3>4 DEF BracketEnds, Whole
    <2> QED BY <2>1, <2>2 DEF BracketsPair
  <1> QED BY <1>2, <1>3, <1>4 DEF PacingIsInvisible

------------------------------------------------------------------------------
(* The theorems.                                                           *)

(* The tab's link, clocks, queue and capture always have their types: no   *)
(* paste, drop, redial or stripped byte leaves them out of shape           *)
(* (pastequeue.cpp, antiidle.cpp, capturewriter.cpp).                      *)
THEOREM TabIoTypes == Spec => []TypeOK
  <1>1. TabIoInv => TypeOK
    BY DEF TabIoInv
  <1> QED BY <1>1, InvInit, InvStep, PTL DEF Spec

(* A paced paste is, for every text, every cut of it and every moment the  *)
(* connection may go, the whole paste spread over time: its pieces add up  *)
(* to a beginning of the converted text, no idle keystroke and nothing of  *)
(* another paced paste gets between them, its bracket is closed, and, as   *)
(* long as the rate is not set to unlimited under it, no paste sent at     *)
(* once comes between either, with markers of its own that would end the   *)
(* bracket early (PasteQueue::load, beginThrottledPaste,                   *)
(* sendNextPasteChunk, paste).                                             *)
THEOREM PastesArePaced == Spec => []PacingIsInvisible
  <1> QED BY InvInit, InvStep, WiredIsInvisible, PTL DEF Spec

(* On a session that is up with anti-idle on, the idle clock runs          *)
(* (rearmAntiIdle, onStateChanged).                                        *)
THEOREM ClockAlwaysRuns == Spec => []IdleClockRuns
  <1>1. TabIoInv => IdleClockRuns
    BY DEF TabIoInv
  <1> QED BY <1>1, InvInit, InvStep, PTL DEF Spec

(* The capture file is the text the far end sent, without its control      *)
(* sequences, wherever the stream was cut (CaptureWriter::strip): for      *)
(* every text and every well-formed control sequence.                      *)
THEOREM CapturesAreText == Spec => []CaptureIsTheText
  <1>1. TabIoInv => CaptureIsTheText
    BY DEF TabIoInv
  <1> QED BY <1>1, InvInit, InvStep, PTL DEF Spec
=================================================================================
