----------------------------- MODULE Telnet_proofs -----------------------------
(***************************************************************************)
(* Theorems about one telnet connection, for any sizes, texts, streams,    *)
(* options of the far end and callers.                                     *)
(***************************************************************************)
EXTENDS Telnet, SequenceTheorems, WellFoundedInduction, TLAPS

------------------------------------------------------------------------------
(* Induction, over a set of numbers.                                       *)

(* A set of naturals that is not empty has a least element.                *)
LEMMA LeastOf ==
  ASSUME NEW T, T \subseteq Nat, T # {}
  PROVE  \E n \in T : \A m \in T : n <= m
  <1> DEFINE R == OpToRel(<, Nat)
  <1>1. IsWellFoundedOn(R, Nat)
    BY NatLessThanWellFounded
  <1>2. \A a, b \in Nat : a < b => <<a, b>> \in R
    BY DEF OpToRel
  <1> HIDE DEF R
  <1>3. \E n \in T : \A m \in T : ~(<<m, n>> \in R)
    BY <1>1, WFMin
  <1>4. PICK n \in T : \A m \in T : ~(<<m, n>> \in R)
    BY <1>3
  <1>5. ASSUME NEW m \in T PROVE n <= m
    <2>1. m \in Nat /\ n \in Nat
      OBVIOUS
    <2>2. ~(<<m, n>> \in R)
      BY <1>4
    <2>3. m < n => <<m, n>> \in R
      BY <1>2, <2>1
    <2> QED BY <2>1, <2>2, <2>3
  <1> QED BY <1>4, <1>5

(* A set that has 0 and is closed under successor has all of Nat.          *)
LEMMA AllOfNat ==
  ASSUME NEW T, 0 \in T, \A n \in Nat : n \in T => n + 1 \in T
  PROVE  Nat \subseteq T
  <1> DEFINE U == Nat \ T
  <1> SUFFICES ASSUME U # {} PROVE FALSE
    OBVIOUS
  <1>1. U \subseteq Nat
    OBVIOUS
  <1>2. \A n \in U : n \in Nat /\ n \notin T
    OBVIOUS
  <1>3. \A n \in Nat : n \notin U => n \in T
    OBVIOUS
  <1> HIDE DEF U
  <1>4. PICK n \in U : \A m \in U : n <= m
    BY <1>1, LeastOf
  <1>5. n # 0 /\ n \in Nat
    BY <1>2
  <1>6. n - 1 \in Nat /\ n - 1 < n /\ (n - 1) + 1 = n
    BY <1>5
  <1>7. n - 1 \in T
    BY <1>3, <1>4, <1>6
  <1> QED BY <1>2, <1>6, <1>7

------------------------------------------------------------------------------
(* FlattenSeq.                                                             *)

(* f is the running concatenation of s.                                    *)
Running(f, s, n) ==
  /\ DOMAIN f = 1 .. n
  /\ \A i \in 1 .. n : f[i] = IF i = 1 THEN s[i] ELSE f[i - 1] \o s[i]

LEMMA RunningExists ==
  ASSUME NEW S, NEW s \in Seq(Seq(S))
  PROVE  \E f \in [1 .. Len(s) -> Seq(S)] : Running(f, s, Len(s))
  <1> DEFINE L == Len(s)
             T == {n \in Nat : n <= L => \E f \in [1 .. n -> Seq(S)] : Running(f, s, n)}
  <1>1. L \in Nat /\ \A i \in 1 .. L : s[i] \in Seq(S)
    BY LenProperties
  <1>2. 0 \in T
    <2> DEFINE f == [i \in 1 .. 0 |-> <<>>]
    <2>1. f \in [1 .. 0 -> Seq(S)] /\ Running(f, s, 0)
      BY DEF Running
    <2> QED BY <2>1
  <1>3. ASSUME NEW n \in Nat, n \in T PROVE n + 1 \in T
    <2> SUFFICES ASSUME n + 1 <= L
                 PROVE  \E f \in [1 .. n + 1 -> Seq(S)] : Running(f, s, n + 1)
      OBVIOUS
    <2>1. PICK f \in [1 .. n -> Seq(S)] : Running(f, s, n)
      BY <1>1, <1>3
    <2> DEFINE last == IF n = 0 THEN s[1] ELSE f[n] \o s[n + 1]
               g == [i \in 1 .. n + 1 |-> IF i = n + 1 THEN last ELSE f[i]]
    <2>2. last \in Seq(S)
      <3>1. s[n + 1] \in Seq(S)
        BY <1>1
      <3>2. CASE n = 0
        BY <3>1, <3>2
      <3>3. CASE n # 0
        <4>1. f[n] \in Seq(S)
          BY <3>3
        <4> QED BY <3>1, <3>3, <4>1, ConcatProperties
      <3> QED BY <3>2, <3>3
    <2>3. g \in [1 .. n + 1 -> Seq(S)]
      <3> HIDE DEF last
      <3>1. \A i \in 1 .. n + 1 : i # n + 1 => i \in 1 .. n
        OBVIOUS
      <3> QED BY <2>2, <3>1
    <2>4. ASSUME NEW i \in 1 .. n + 1
          PROVE  g[i] = IF i = 1 THEN s[i] ELSE g[i - 1] \o s[i]
      <3>1. CASE i = n + 1
        <4>1. CASE n = 0
          BY <3>1, <4>1
        <4>2. CASE n # 0
          <5>1. g[i] = f[n] \o s[n + 1]
            BY <3>1, <4>2
          <5>2. n \in 1 .. n + 1 /\ n # n + 1 /\ i - 1 = n /\ i # 1
            BY <3>1, <4>2
          <5>3. g[n] = f[n]
            BY <5>2
          <5> QED BY <3>1, <5>1, <5>2, <5>3
        <4> QED BY <4>1, <4>2
      <3>2. CASE i # n + 1
        <4>1. i \in 1 .. n
          BY <3>2
        <4>2. g[i] = f[i]
          BY <3>2
        <4>3. f[i] = IF i = 1 THEN s[i] ELSE f[i - 1] \o s[i]
          BY <2>1, <4>1 DEF Running
        <4>4. i # 1 => i - 1 \in 1 .. n + 1 /\ i - 1 # n + 1
          BY <4>1
        <4>5. i # 1 => g[i - 1] = f[i - 1]
          BY <4>4
        <4> HIDE DEF g
        <4> QED BY <4>2, <4>3, <4>5
      <3> QED BY <3>1, <3>2
    <2>5. DOMAIN g = 1 .. n + 1
      OBVIOUS
    <2> HIDE DEF g
    <2> QED BY <2>3, <2>4, <2>5 DEF Running
  <1> HIDE DEF T
  <1>4. Nat \subseteq T
    BY <1>2, <1>3, AllOfNat
  <1>5. L \in T
    BY <1>1, <1>4
  <1> QED BY <1>5 DEF T

(* There is one, also over the beginning that two sequences share.         *)
LEMMA RunningUnique ==
  ASSUME NEW s, NEW t, NEW f, NEW g, NEW m \in Nat, NEW n \in Nat, m <= n,
         Running(f, s, m), Running(g, t, n), \A i \in 1 .. m : s[i] = t[i]
  PROVE  \A i \in 1 .. m : f[i] = g[i]
  <1> DEFINE T == {k \in Nat : k \in 1 .. m => f[k] = g[k]}
  <1>1. 0 \in T
    OBVIOUS
  <1>2. ASSUME NEW k \in Nat, k \in T PROVE k + 1 \in T
    <2> SUFFICES ASSUME k + 1 \in 1 .. m PROVE f[k + 1] = g[k + 1]
      OBVIOUS
    <2>1. k + 1 \in 1 .. n /\ s[k + 1] = t[k + 1] /\ (k + 1) - 1 = k
      OBVIOUS
    <2>2. f[k + 1] = IF k + 1 = 1 THEN s[k + 1] ELSE f[(k + 1) - 1] \o s[k + 1]
      BY DEF Running
    <2>3. g[k + 1] = IF k + 1 = 1 THEN t[k + 1] ELSE g[(k + 1) - 1] \o t[k + 1]
      BY <2>1 DEF Running
    <2>4. CASE k = 0
      BY <2>1, <2>2, <2>3, <2>4
    <2>5. CASE k # 0
      <3>1. f[k] = g[k]
        BY <1>2, <2>5
      <3> QED BY <2>1, <2>2, <2>3, <2>5, <3>1
    <2> QED BY <2>4, <2>5
  <1> HIDE DEF T
  <1>3. Nat \subseteq T
    BY <1>1, <1>2, AllOfNat
  <1> QED BY <1>3 DEF T

LEMMA FlattenRuns ==
  ASSUME NEW S, NEW s \in Seq(Seq(S)), s # <<>>
  PROVE  \E f \in [1 .. Len(s) -> Seq(S)] : Running(f, s, Len(s)) /\ FlattenSeq(s) = f[Len(s)]
  <1>1. Len(s) \in Nat \ {0}
    BY EmptySeq
  <1> DEFINE Is(f) == f = [i \in 1 .. Len(s) |-> IF i = 1 THEN s[i] ELSE f[i - 1] \o s[i]]
             flat == CHOOSE f : Is(f)
  <1>2. \A f : Running(f, s, Len(s)) /\ (\E D, R : f \in [D -> R]) => Is(f)
    BY DEF Running
  <1>3. \E f : Is(f)
    BY <1>2, RunningExists
  <1>4. Is(flat)
    BY <1>3
  <1>5. FlattenSeq(s) = flat[Len(s)]
    BY <1>1 DEF FlattenSeq
  <1> HIDE DEF flat
  <1>6. Running(flat, s, Len(s))
    BY <1>4 DEF Running
  <1>7. PICK g \in [1 .. Len(s) -> Seq(S)] : Running(g, s, Len(s))
    BY RunningExists
  <1>8. \A i \in 1 .. Len(s) : g[i] = flat[i]
    BY <1>1, <1>6, <1>7, RunningUnique
  <1>9. FlattenSeq(s) = g[Len(s)]
    BY <1>1, <1>5, <1>8
  <1> QED BY <1>7, <1>9

LEMMA FlattenEmpty == FlattenSeq(<<>>) = <<>>
  BY DEF FlattenSeq

LEMMA FlattenType ==
  ASSUME NEW S, NEW s \in Seq(Seq(S))
  PROVE  FlattenSeq(s) \in Seq(S)
  <1>1. CASE s = <<>>
    <2>1. <<>> \in Seq(S)
      BY EmptySeq
    <2> QED BY <1>1, <2>1, FlattenEmpty
  <1>2. CASE s # <<>>
    <2>1. Len(s) \in Nat \ {0}
      BY <1>2, EmptySeq
    <2>2. PICK f \in [1 .. Len(s) -> Seq(S)] : FlattenSeq(s) = f[Len(s)]
      BY <1>2, FlattenRuns
    <2>3. Len(s) \in 1 .. Len(s)
      BY <2>1
    <2>4. f[Len(s)] \in Seq(S)
      BY <2>3
    <2> QED BY <2>2, <2>4
  <1> QED BY <1>1, <1>2

(* A piece more at the end is that piece at the end of the whole.          *)
LEMMA FlattenAppend ==
  ASSUME NEW S, NEW s \in Seq(Seq(S)), NEW x \in Seq(S)
  PROVE  FlattenSeq(Append(s, x)) = FlattenSeq(s) \o x
  <1> DEFINE t == Append(s, x)
             n == Len(s)
  <1>1. /\ t \in Seq(Seq(S)) /\ t # <<>> /\ Len(t) = n + 1
        /\ \A i \in 1 .. n : t[i] = s[i]
        /\ t[n + 1] = x
    BY AppendProperties
  <1>2. n \in Nat
    BY LenProperties
  <1> HIDE DEF t
  <1>3. PICK g \in [1 .. Len(t) -> Seq(S)] : Running(g, t, Len(t)) /\ FlattenSeq(t) = g[Len(t)]
    BY <1>1, FlattenRuns
  <1>4. FlattenSeq(t) = IF n + 1 = 1 THEN x ELSE g[(n + 1) - 1] \o x
    <2> HIDE DEF n
    <2>1. Len(t) = n + 1 /\ n + 1 \in 1 .. n + 1
      BY <1>1, <1>2
    <2>2. g[n + 1] = IF n + 1 = 1 THEN t[n + 1] ELSE g[(n + 1) - 1] \o t[n + 1]
      BY <1>3, <2>1 DEF Running
    <2>3. t[n + 1] = x
      BY <1>1
    <2> QED BY <1>3, <2>1, <2>2, <2>3
  <1>5. CASE s = <<>>
    <2>1. n = 0
      BY <1>5
    <2>2. FlattenSeq(s) \o x = x
      BY <1>5, FlattenEmpty, ConcatEmptySeq
    <2> QED BY <1>4, <2>1, <2>2 DEF t
  <1>6. CASE s # <<>>
    <2>1. n \in Nat \ {0}
      BY <1>6, EmptySeq
    <2>2. PICK f \in [1 .. n -> Seq(S)] : Running(f, s, n) /\ FlattenSeq(s) = f[n]
      BY <1>6, FlattenRuns
    <2>3. Running(g, t, n + 1)
      BY <1>1, <1>3
    <2> HIDE DEF n
    <2>4. \A i \in 1 .. n : s[i] = t[i]
      BY <1>1
    <2> DEFINE k == n + 1
    <2>5. n <= k /\ k \in Nat
      BY <1>2
    <2>6. \A i \in 1 .. n : f[i] = g[i]
      <3>1. Running(f, s, n)
        BY <2>2
      <3>2. Running(g, t, k)
        BY <2>3
      <3> HIDE DEF k
      <3>3. n \in Nat
        BY <1>2
      <3> SUFFICES ASSUME NEW i \in 1 .. n PROVE f[i] = g[i]
        OBVIOUS
      <3> QED BY <2>4, <2>5, <3>1, <3>2, <3>3, RunningUnique
    <2>7. f[n] = g[n] /\ (n + 1) - 1 = n /\ n + 1 # 1
      BY <2>1, <2>6
    <2> QED BY <1>4, <2>2, <2>7 DEF t
  <1> QED BY <1>5, <1>6

(* A function on the first n numbers is a sequence of length n.            *)
LEMMA FcnIsSeq ==
  ASSUME NEW S, NEW n \in Nat, NEW f \in [1 .. n -> S]
  PROVE  f \in Seq(S) /\ Len(f) = n
  <1>1. f \in Seq(S)
    BY SeqDef
  <1>2. Len(f) \in Nat /\ DOMAIN f = 1 .. Len(f)
    BY <1>1, LenProperties
  <1>3. 1 .. n = 1 .. Len(f)
    BY <1>2
  <1>4. ASSUME NEW k \in Nat, NEW m \in Nat, 1 .. k = 1 .. m, k < m PROVE FALSE
    <2>1. m \in 1 .. m /\ m \notin 1 .. k
      BY <1>4
    <2> QED BY <1>4, <2>1
  <1>5. ~(n < Len(f)) /\ ~(Len(f) < n)
    BY <1>2, <1>3, <1>4
  <1>6. Len(f) = n
    BY <1>2, <1>5
  <1> QED BY <1>1, <1>6

------------------------------------------------------------------------------
(* Reading a stream item by item is well defined: what follows an item is  *)
(* shorter.                                                                *)

(* The inputs of S, as long as long says, get shorter from one to the next *)
(* until one is in stop.                                                   *)
Shrinks(S, long, stop, nxt) ==
  /\ long \in [S -> Nat] /\ nxt \in [S -> S]
  /\ \A s \in S : s \notin stop => long[nxt[s]] < long[s]

(* f reads the streams of S that are no longer than n.                     *)
Upto(S, long, n) == {s \in S : long[s] <= n}
Reading(f, S, long, n, stop, val, pre, nxt) ==
  \A s \in Upto(S, long, n) : f[s] = IF s \in stop THEN val[s] ELSE pre[s] \o f[nxt[s]]

LEMMA ReadingExists ==
  ASSUME NEW S, NEW long \in [S -> Nat], NEW B, NEW stop, NEW val \in [S -> Seq(B)],
         NEW pre \in [S -> Seq(B)], NEW nxt \in [S -> S],
         \A s \in S : s \notin stop => long[nxt[s]] < long[s],
         NEW n \in Nat
  PROVE  \E f \in [Upto(S, long, n) -> Seq(B)] : Reading(f, S, long, n, stop, val, pre, nxt)
  <1> DEFINE U(k) == Upto(S, long, k)
             T == {k \in Nat : \E f \in [U(k) -> Seq(B)] : Reading(f, S, long, k, stop, val, pre, nxt)}
  <1>1. 0 \in T
    <2> DEFINE f == [s \in U(0) |-> val[s]]
    <2>1. \A s \in U(0) : s \in S /\ s \in stop
      BY DEF Upto
    <2>2. f \in [U(0) -> Seq(B)]
      BY <2>1
    <2>3. Reading(f, S, long, 0, stop, val, pre, nxt)
      BY <2>1 DEF Reading
    <2> QED BY <2>2, <2>3
  <1>2. ASSUME NEW k \in Nat, k \in T PROVE k + 1 \in T
    <2>1. PICK f \in [U(k) -> Seq(B)] : Reading(f, S, long, k, stop, val, pre, nxt)
      BY <1>2
    <2> DEFINE g == [s \in U(k + 1) |-> IF s \in stop THEN val[s] ELSE pre[s] \o f[nxt[s]]]
    <2>2. \A s \in U(k + 1) : s \in S /\ (s \notin stop => nxt[s] \in U(k) /\ nxt[s] \in U(k + 1))
      BY DEF Upto
    <2>3. g \in [U(k + 1) -> Seq(B)]
      <3>1. ASSUME NEW s \in U(k + 1), s \notin stop PROVE pre[s] \o f[nxt[s]] \in Seq(B)
        <4>1. pre[s] \in Seq(B) /\ f[nxt[s]] \in Seq(B)
          BY <2>2, <3>1
        <4> QED BY <4>1, ConcatProperties
      <3>2. \A s \in U(k + 1) : val[s] \in Seq(B)
        BY <2>2
      <3> QED BY <3>1, <3>2
    <2>4. ASSUME NEW s \in U(k) PROVE g[s] = f[s]
      <3>1. s \in U(k + 1)
        BY DEF Upto
      <3>2. f[s] = IF s \in stop THEN val[s] ELSE pre[s] \o f[nxt[s]]
        BY <2>1 DEF Reading
      <3> QED BY <3>1, <3>2
    <2>5. \A s \in U(k + 1) : s \notin stop => g[nxt[s]] = f[nxt[s]]
      BY <2>2, <2>4
    <2>6. \A s \in U(k + 1) : g[s] = IF s \in stop THEN val[s] ELSE pre[s] \o f[nxt[s]]
      OBVIOUS
    <2> HIDE DEF g
    <2>7. Reading(g, S, long, k + 1, stop, val, pre, nxt)
      BY <2>5, <2>6 DEF Reading
    <2> QED BY <2>3, <2>7
  <1> HIDE DEF T
  <1>3. Nat \subseteq T
    BY <1>1, <1>2, AllOfNat
  <1> QED BY <1>3 DEF T

(* What holds where the descent stops, and of an input when it holds of    *)
(* the next, holds of all.                                                 *)
LEMMA Descending ==
  ASSUME NEW S, NEW long, NEW stop, NEW nxt, Shrinks(S, long, stop, nxt), NEW G,
         \A s \in S : s \in stop \/ nxt[s] \in G => s \in G
  PROVE  S \subseteq G
  <1> DEFINE T == {k \in Nat : \A s \in S : long[s] <= k => s \in G}
  <1>0. \A s \in S : /\ long[s] \in Nat
                     /\ s \notin stop => nxt[s] \in S /\ long[nxt[s]] \in Nat /\ long[nxt[s]] < long[s]
    BY DEF Shrinks
  <1>1. 0 \in T
    <2>1. ASSUME NEW s \in S, long[s] <= 0 PROVE s \in stop
      BY <1>0, <2>1
    <2> QED BY <2>1
  <1>2. ASSUME NEW k \in Nat, k \in T PROVE k + 1 \in T
    <2>1. ASSUME NEW s \in S, long[s] <= k + 1, s \notin stop PROVE nxt[s] \in G
      <3>1. nxt[s] \in S /\ long[nxt[s]] <= k
        BY <1>0, <2>1
      <3> QED BY <1>2, <3>1
    <2> QED BY <2>1
  <1> HIDE DEF T
  <1>3. Nat \subseteq T
    BY <1>1, <1>2, AllOfNat
  <1>4. ASSUME NEW s \in S PROVE s \in G
    <2>1. long[s] \in T /\ long[s] <= long[s]
      BY <1>0, <1>3
    <2> QED BY <2>1 DEF T
  <1> QED BY <1>4

LEMMA ReadingUnique ==
  ASSUME NEW S, NEW long, NEW stop, NEW val, NEW pre, NEW nxt, Shrinks(S, long, stop, nxt),
         NEW m \in Nat, NEW n \in Nat, m <= n, NEW f, NEW g,
         Reading(f, S, long, m, stop, val, pre, nxt), Reading(g, S, long, n, stop, val, pre, nxt)
  PROVE  \A s \in Upto(S, long, m) : f[s] = g[s]
  <1> DEFINE T == {k \in Nat : \A s \in Upto(S, long, k) : long[s] <= m => f[s] = g[s]}
  <1>0. \A s \in S : /\ long[s] \in Nat
                     /\ s \notin stop => nxt[s] \in S /\ long[nxt[s]] \in Nat /\ long[nxt[s]] < long[s]
    BY DEF Shrinks
  <1>1. ASSUME NEW s \in S, long[s] <= m,
               s \notin stop => f[nxt[s]] = g[nxt[s]]
        PROVE  f[s] = g[s]
    <2>1. s \in Upto(S, long, m) /\ s \in Upto(S, long, n)
      BY <1>0, <1>1 DEF Upto
    <2> QED BY <1>1, <2>1 DEF Reading
  <1>2. 0 \in T
    <2>1. \A s \in Upto(S, long, 0) : s \in S /\ s \in stop
      BY <1>0 DEF Upto
    <2> QED BY <1>1, <2>1
  <1>3. ASSUME NEW k \in Nat, k \in T PROVE k + 1 \in T
    <2>1. ASSUME NEW s \in Upto(S, long, k + 1), long[s] <= m PROVE f[s] = g[s]
      <3>1. s \in S /\ long[s] <= k + 1
        BY DEF Upto
      <3>2. CASE s \in stop
        BY <1>1, <2>1, <3>1, <3>2
      <3>3. CASE s \notin stop
        <4>1. nxt[s] \in S /\ long[nxt[s]] < long[s] /\ long[nxt[s]] \in Nat /\ long[s] \in Nat
          BY <1>0, <3>1, <3>3
        <4>2. nxt[s] \in Upto(S, long, k) /\ long[nxt[s]] <= m
          BY <2>1, <3>1, <4>1 DEF Upto
        <4>3. f[nxt[s]] = g[nxt[s]]
          BY <1>3, <4>2
        <4> QED BY <1>1, <2>1, <3>1, <4>3
      <3> QED BY <3>2, <3>3
    <2> QED BY <2>1
  <1> HIDE DEF T
  <1>4. Nat \subseteq T
    BY <1>2, <1>3, AllOfNat
  <1>5. m \in T
    BY <1>4
  <1> QED BY <1>5 DEF T, Upto

Descends(f, S, stop, val, pre, nxt) ==
  \A s \in S : f[s] = IF s \in stop THEN val[s] ELSE pre[s] \o f[nxt[s]]

LEMMA Descent ==
  ASSUME NEW S, NEW long, NEW B, NEW stop, NEW val \in [S -> Seq(B)],
         NEW pre \in [S -> Seq(B)], NEW nxt, Shrinks(S, long, stop, nxt)
  PROVE  \E f \in [S -> Seq(B)] : Descends(f, S, stop, val, pre, nxt)
  <1> DEFINE Is(f, n) == /\ f \in [Upto(S, long, n) -> Seq(B)]
                         /\ Reading(f, S, long, n, stop, val, pre, nxt)
             part == [n \in Nat |-> CHOOSE f : Is(f, n)]
             all == [s \in S |-> part[long[s]][s]]
  <1>0. /\ long \in [S -> Nat] /\ nxt \in [S -> S]
        /\ \A s \in S : s \notin stop => long[nxt[s]] < long[s]
    BY DEF Shrinks
  <1>1. \A n \in Nat : Is(part[n], n)
    BY <1>0, ReadingExists
  <1> HIDE DEF part
  <1>2. \A s \in S : long[s] \in Nat /\ s \in Upto(S, long, long[s])
    BY <1>0 DEF Upto
  <1>3. all \in [S -> Seq(B)]
    BY <1>1, <1>2
  <1>4. ASSUME NEW s \in S
        PROVE  all[s] = IF s \in stop THEN val[s] ELSE pre[s] \o all[nxt[s]]
    <2>1. part[long[s]][s] = IF s \in stop THEN val[s] ELSE pre[s] \o part[long[s]][nxt[s]]
      BY <1>1, <1>2 DEF Reading
    <2>2. ASSUME s \notin stop
          PROVE  part[long[nxt[s]]][nxt[s]] = part[long[s]][nxt[s]]
      <3> DEFINE m == long[nxt[s]]
                 n == long[s]
                 p == part[m]
                 q == part[n]
      <3>1. nxt[s] \in S /\ m \in Nat /\ n \in Nat /\ m <= n
        BY <1>0, <2>2
      <3>2. nxt[s] \in Upto(S, long, m)
        BY <3>1 DEF Upto
      <3>3. Reading(p, S, long, m, stop, val, pre, nxt)
        BY <1>1, <3>1
      <3>4. Reading(q, S, long, n, stop, val, pre, nxt)
        BY <1>1, <3>1
      <3> HIDE DEF m, n, p, q
      <3>5. \A x \in Upto(S, long, m) : p[x] = q[x]
        BY <3>1, <3>3, <3>4, ReadingUnique
      <3>6. p[nxt[s]] = q[nxt[s]]
        BY <3>2, <3>5
      <3> QED BY <3>6 DEF m, n, p, q
    <2>3. nxt[s] \in S
      BY <1>0
    <2> QED BY <2>1, <2>2, <2>3
  <1> HIDE DEF all
  <1> QED BY <1>3, <1>4 DEF Descends
------------------------------------------------------------------------------
(* The reference: a stream from a place on, and the two functions that     *)
(* read a stream, unfolded.                                                *)

LEMMA FromType ==
  ASSUME NEW B, NEW s \in Seq(B), NEW k \in Nat, k > 0
  PROVE  From(s, k) \in Seq(B) /\ Len(From(s, k)) = IF k <= Len(s) THEN Len(s) - k + 1 ELSE 0
  <1>1. Len(s) \in Nat /\ \A i \in 1 .. Len(s) : s[i] \in B
    BY LenProperties
  <1>2. k \in Int /\ Len(s) \in Int /\ \A i \in k .. Len(s) : s[i] \in B
    BY <1>1
  <1> QED BY <1>2, SubSeqProperties DEF From

LEMMA FromConcat ==
  ASSUME NEW B, NEW s \in Seq(B), NEW t \in Seq(B)
  PROVE  From(s \o t, Len(s) + 1) = t
  <1> DEFINE m == Len(s)
             n == Len(t)
             u == s \o t
  <1>1. m \in Nat /\ n \in Nat /\ u \in Seq(B) /\ Len(u) = m + n
    BY LenProperties, ConcatProperties
  <1>2. \A i \in 1 .. n : u[m + i] = t[i]
    <2> SUFFICES ASSUME NEW i \in 1 .. n PROVE u[m + i] = t[i]
      OBVIOUS
    <2>1. m + i \in 1 .. m + n /\ ~(m + i <= m) /\ (m + i) - m = i
      BY <1>1
    <2>2. u[m + i] = IF m + i <= m THEN s[m + i] ELSE t[(m + i) - m]
      BY <2>1, ConcatProperties
    <2> QED BY <2>1, <2>2
  <1>3. \A i \in m + 1 .. m + n : u[i] \in B
    BY <1>1, LenProperties
  <1> HIDE DEF u, m, n
  <1> DEFINE w == SubSeq(u, m + 1, m + n)
  <1>4. m + 1 \in Int /\ m + n \in Int
    BY <1>1
  <1>5. /\ w \in Seq(B) /\ Len(w) = (IF m + 1 <= m + n THEN (m + n) - (m + 1) + 1 ELSE 0)
        /\ \A i \in 1 .. (m + n) - (m + 1) + 1 : w[i] = u[(m + 1) + i - 1]
    BY <1>3, <1>4, SubSeqProperties
  <1>6. Len(w) = n
    BY <1>1, <1>5
  <1>7. ASSUME NEW i \in 1 .. n PROVE w[i] = t[i]
    <2>1. i \in 1 .. (m + n) - (m + 1) + 1 /\ (m + 1) + i - 1 = m + i
      BY <1>1
    <2>2. w[i] = u[m + i]
      BY <1>5, <2>1
    <2> QED BY <1>2, <2>2
  <1> HIDE DEF w
  <1>8. w = t
    <2>1. Len(w) = Len(t)
      BY <1>6 DEF n
    <2>2. \A i \in 1 .. Len(w) : w[i] = t[i]
      BY <1>6, <1>7
    <2> QED BY <1>5, <2>1, <2>2, SeqEqual
  <1> QED BY <1>1, <1>8 DEF w, From, u, m

(* What is left of t after what comes first.                               *)
LEMMA After1 ==
  ASSUME NEW B, NEW t \in Seq(B), NEW a \in B
  PROVE  Tail(<<a>> \o t) = t
  <1> DEFINE s == <<a>>
  <1>1. s \in Seq(B) /\ Len(s) = 1 /\ Len(s) + 1 = 2
    OBVIOUS
  <1> HIDE DEF s
  <1>2. From(s \o t, Len(s) + 1) = t
    BY <1>1, FromConcat
  <1>3. s \o t \in Seq(B) /\ Len(s \o t) = Len(s) + Len(t)
    <2>1. s \in Seq(B)
      BY <1>1
    <2> QED BY <2>1, ConcatProperties
  <1>4. s \o t # <<>>
    <2>1. Len(t) \in Nat
      BY LenProperties
    <2>2. Len(s \o t) # 0
      BY <1>1, <1>3, <2>1
    <2> QED BY <2>2
  <1>5. Tail(s \o t) = From(s \o t, 2)
    BY <1>3, <1>4, TailIsSubSeq DEF From
  <1> QED BY <1>1, <1>2, <1>5 DEF s

LEMMA After2 ==
  ASSUME NEW B, NEW t \in Seq(B), NEW a \in B, NEW b \in B
  PROVE  From(<<a, b>> \o t, 3) = t
  <1> DEFINE s == <<a, b>>
  <1>1. s \in Seq(B) /\ Len(s) + 1 = 3
    OBVIOUS
  <1> HIDE DEF s
  <1>2. From(s \o t, Len(s) + 1) = t
    BY <1>1, FromConcat
  <1> QED BY <1>1, <1>2 DEF s

LEMMA After3 ==
  ASSUME NEW B, NEW t \in Seq(B), NEW a \in B, NEW b \in B, NEW c \in B
  PROVE  From(<<a, b, c>> \o t, 4) = t
  <1> DEFINE s == <<a, b, c>>
  <1>1. s \in Seq(B) /\ Len(s) + 1 = 4
    OBVIOUS
  <1> HIDE DEF s
  <1>2. From(s \o t, Len(s) + 1) = t
    BY <1>1, FromConcat
  <1> QED BY <1>1, <1>2 DEF s

(* The first places of t after what comes first.                           *)
LEMMA FirstOf ==
  ASSUME NEW B, NEW s \in Seq(B), NEW t \in Seq(B)
  PROVE  /\ s \o t \in Seq(B) /\ Len(s \o t) = Len(s) + Len(t)
         /\ Len(s) \in Nat /\ Len(t) \in Nat
         /\ \A i \in 1 .. Len(s) : (s \o t)[i] = s[i]
  <1>1. Len(s) \in Nat /\ Len(t) \in Nat
    BY LenProperties
  <1>2. \A i \in 1 .. Len(s) : i \in 1 .. Len(s) + Len(t) /\ i <= Len(s)
    BY <1>1
  <1> QED BY <1>1, <1>2, ConcatProperties

BytesLong == [s \in Seq(Byte) |-> Len(s)]

LEMMA AfterSubnegIs ==
  /\ AfterSubneg \in [Seq(Byte) -> Seq(Byte)]
  /\ \A s \in Seq(Byte) : AfterSubneg[s] =
       IF Len(s) < 2 THEN <<>>
       ELSE IF s[1] # IAC THEN AfterSubneg[Tail(s)]
       ELSE IF s[2] = IAC THEN AfterSubneg[From(s, 3)]
       ELSE From(s, 3)
  <1> DEFINE S == Seq(Byte)
             stop == {s \in S : Len(s) < 2 \/ (s[1] = IAC /\ s[2] # IAC)}
             val == [s \in S |-> IF Len(s) < 2 THEN <<>> ELSE From(s, 3)]
             pre == [s \in S |-> <<>>]
             nxt == [s \in S |-> IF Len(s) >= 2 /\ s[1] # IAC THEN Tail(s) ELSE From(s, 3)]
             Is(f) == f = [s \in S |-> IF Len(s) < 2 THEN <<>>
                                       ELSE IF s[1] # IAC THEN f[Tail(s)]
                                       ELSE IF s[2] = IAC THEN f[From(s, 3)]
                                       ELSE From(s, 3)]
  <1>1. \A s \in S : Len(s) \in Nat /\ From(s, 3) \in S /\ (Len(s) >= 2 => Len(From(s, 3)) < Len(s))
    <2> SUFFICES ASSUME NEW s \in S
                 PROVE  Len(s) \in Nat /\ From(s, 3) \in S /\ (Len(s) >= 2 => Len(From(s, 3)) < Len(s))
      OBVIOUS
    <2>1. Len(s) \in Nat
      BY LenProperties
    <2>2. From(s, 3) \in S /\ Len(From(s, 3)) = IF 3 <= Len(s) THEN Len(s) - 3 + 1 ELSE 0
      <3> DEFINE k == 3
      <3>1. k \in Nat /\ k > 0 /\ k = 3
        OBVIOUS
      <3> HIDE DEF k, val, nxt, stop, pre
      <3>2. From(s, k) \in Seq(Byte) /\ Len(From(s, k)) = IF k <= Len(s) THEN Len(s) - k + 1 ELSE 0
        BY <3>1, FromType
      <3> QED BY <3>1, <3>2
    <2> QED BY <2>1, <2>2
  <1>2. \A s \in S : Len(s) >= 2 => Tail(s) \in S /\ Len(Tail(s)) < Len(s)
    <2> SUFFICES ASSUME NEW s \in S, Len(s) >= 2 PROVE Tail(s) \in S /\ Len(Tail(s)) < Len(s)
      OBVIOUS
    <2>1. s # <<>>
      BY EmptySeq
    <2> QED BY <1>1, <2>1, HeadTailProperties
  <1>3. <<>> \in S
    BY EmptySeq
  <1>4. val \in [S -> S] /\ pre \in [S -> S] /\ BytesLong \in [S -> Nat]
    BY <1>1, <1>3 DEF BytesLong
  <1>5. nxt \in [S -> S]
    BY <1>1, <1>2
  <1>6. \A s \in S : s \notin stop => BytesLong[nxt[s]] < BytesLong[s]
    <2> SUFFICES ASSUME NEW s \in S, s \notin stop PROVE BytesLong[nxt[s]] < BytesLong[s]
      OBVIOUS
    <2>1. Len(s) >= 2
      BY <1>1
    <2>2. nxt[s] \in S /\ Len(nxt[s]) < Len(s)
      BY <1>1, <1>2, <2>1
    <2> QED BY <2>2 DEF BytesLong
  <1>7. \A s \in S : /\ val[s] = IF Len(s) < 2 THEN <<>> ELSE From(s, 3)
                     /\ pre[s] = <<>>
                     /\ nxt[s] = IF Len(s) >= 2 /\ s[1] # IAC THEN Tail(s) ELSE From(s, 3)
                     /\ s \in stop <=> (Len(s) < 2 \/ (s[1] = IAC /\ s[2] # IAC))
    <2> SUFFICES ASSUME NEW s \in S
                 PROVE  /\ val[s] = IF Len(s) < 2 THEN <<>> ELSE From(s, 3)
                        /\ pre[s] = <<>>
                        /\ nxt[s] = IF Len(s) >= 2 /\ s[1] # IAC THEN Tail(s) ELSE From(s, 3)
                        /\ s \in stop <=> (Len(s) < 2 \/ (s[1] = IAC /\ s[2] # IAC))
      OBVIOUS
    <2>1. val[s] = IF Len(s) < 2 THEN <<>> ELSE From(s, 3)
      OBVIOUS
    <2>2. pre[s] = <<>>
      OBVIOUS
    <2>3. nxt[s] = IF Len(s) >= 2 /\ s[1] # IAC THEN Tail(s) ELSE From(s, 3)
      OBVIOUS
    <2>4. s \in stop <=> (Len(s) < 2 \/ (s[1] = IAC /\ s[2] # IAC))
      OBVIOUS
    <2> HIDE DEF stop, val, pre, nxt
    <2> QED BY <2>1, <2>2, <2>3, <2>4
  <1> HIDE DEF stop, val, pre, nxt
  <1>13. Shrinks(S, BytesLong, stop, nxt)
    BY <1>4, <1>5, <1>6 DEF Shrinks
  <1>80. PICK f \in [S -> S] : Descends(f, S, stop, val, pre, nxt)
    BY <1>4, <1>13, Descent
  <1>8. \A s \in S : f[s] = IF s \in stop THEN val[s] ELSE pre[s] \o f[nxt[s]]
    BY <1>80 DEF Descends
  <1>9. \A s \in S : s \notin stop => f[s] = f[nxt[s]]
    <2> SUFFICES ASSUME NEW s \in S, s \notin stop PROVE f[s] = f[nxt[s]]
      OBVIOUS
    <2>1. f[nxt[s]] \in Seq(Byte)
      BY <1>5
    <2>2. <<>> \o f[nxt[s]] = f[nxt[s]]
      BY <2>1, ConcatEmptySeq
    <2> QED BY <1>7, <1>8, <2>2
  <1>10. \A s \in S : f[s] = IF Len(s) < 2 THEN <<>>
                             ELSE IF s[1] # IAC THEN f[Tail(s)]
                             ELSE IF s[2] = IAC THEN f[From(s, 3)]
                             ELSE From(s, 3)
    <2> SUFFICES ASSUME NEW s \in S
                 PROVE  f[s] = IF Len(s) < 2 THEN <<>>
                               ELSE IF s[1] # IAC THEN f[Tail(s)]
                               ELSE IF s[2] = IAC THEN f[From(s, 3)]
                               ELSE From(s, 3)
      OBVIOUS
    <2>1. Len(s) \in Nat
      BY <1>1
    <2>2. CASE s \in stop
      BY <1>7, <1>8, <2>1, <2>2
    <2>3. CASE s \notin stop
      <3>1. f[s] = f[nxt[s]] /\ Len(s) >= 2 /\ (s[1] # IAC \/ s[2] = IAC)
        BY <1>7, <1>9, <2>1, <2>3
      <3>2. CASE s[1] # IAC
        <4>1. nxt[s] = Tail(s)
          BY <1>7, <3>1, <3>2
        <4> QED BY <2>1, <3>1, <3>2, <4>1
      <3>3. CASE s[1] = IAC
        <4>1. nxt[s] = From(s, 3)
          BY <1>7, <3>3
        <4> QED BY <2>1, <3>1, <3>3, <4>1
      <3> QED BY <3>2, <3>3
    <2> QED BY <2>2, <2>3
  <1>11. Is(f)
    BY <1>10
  <1>12. Is(AfterSubneg)
    BY <1>11 DEF AfterSubneg
  <1>14. ASSUME NEW g, Is(g) PROVE \A s \in S : g[s] = f[s]
    <2> DEFINE G == {s \in S : g[s] = f[s]}
    <2>1. ASSUME NEW s \in S, s \in stop \/ nxt[s] \in G PROVE s \in G
      <3>1. g[s] = IF Len(s) < 2 THEN <<>>
                   ELSE IF s[1] # IAC THEN g[Tail(s)]
                   ELSE IF s[2] = IAC THEN g[From(s, 3)]
                   ELSE From(s, 3)
        BY <1>14
      <3>2. Len(s) \in Nat
        BY <1>1
      <3>3. CASE s \in stop
        BY <1>7, <1>10, <3>1, <3>2, <3>3
      <3>4. CASE s \notin stop
        <4>1. g[nxt[s]] = f[nxt[s]] /\ Len(s) >= 2 /\ (s[1] # IAC \/ s[2] = IAC)
          BY <1>7, <2>1, <3>2, <3>4
        <4>2. CASE s[1] # IAC
          <5>1. nxt[s] = Tail(s)
            BY <1>7, <4>1, <4>2
          <5> QED BY <1>10, <3>1, <3>2, <4>1, <4>2, <5>1
        <4>3. CASE s[1] = IAC
          <5>1. nxt[s] = From(s, 3)
            BY <1>7, <4>3
          <5> QED BY <1>10, <3>1, <3>2, <4>1, <4>3, <5>1
        <4> QED BY <4>2, <4>3
      <3> QED BY <3>3, <3>4
    <2> HIDE DEF G
    <2>2. S \subseteq G
      BY <1>13, <2>1, Descending
    <2> QED BY <2>2 DEF G
  <1> HIDE DEF S
  <1>15. AfterSubneg \in [S -> S]
    <2>1. \A s \in S : AfterSubneg[s] = f[s]
      BY <1>12, <1>14
    <2>2. DOMAIN AfterSubneg = S /\ AfterSubneg = [s \in DOMAIN AfterSubneg |-> AfterSubneg[s]]
      BY <1>12
    <2> QED BY <2>1, <2>2
  <1> QED BY <1>12, <1>15 DEF S

(* What holds of a stream when it holds of the shorter ones holds of all.  *)
LEMMA ByLength ==
  ASSUME NEW B, NEW G,
         \A s \in Seq(B) : (\A t \in Seq(B) : Len(t) < Len(s) => t \in G) => s \in G
  PROVE  Seq(B) \subseteq G
  <1> DEFINE T == {k \in Nat : \A s \in Seq(B) : Len(s) <= k => s \in G}
  <1>0. \A s \in Seq(B) : Len(s) \in Nat
    BY LenProperties
  <1>1. 0 \in T
    <2>1. \A s \in Seq(B) : Len(s) <= 0 => \A t \in Seq(B) : ~(Len(t) < Len(s))
      BY <1>0
    <2> QED BY <2>1
  <1>2. ASSUME NEW k \in Nat, k \in T PROVE k + 1 \in T
    <2>1. ASSUME NEW s \in Seq(B), Len(s) <= k + 1, NEW t \in Seq(B), Len(t) < Len(s)
          PROVE  t \in G
      <3>1. Len(t) <= k
        BY <1>0, <2>1
      <3> QED BY <1>2, <3>1
    <2> QED BY <2>1
  <1> HIDE DEF T
  <1>3. Nat \subseteq T
    BY <1>1, <1>2, AllOfNat
  <1>4. ASSUME NEW s \in Seq(B) PROVE s \in G
    <2>1. Len(s) \in T /\ Len(s) <= Len(s)
      BY <1>0, <1>3
    <2> QED BY <2>1 DEF T
  <1> QED BY <1>4

(* What follows a subnegotiation is no longer than it was with it.         *)
LEMMA AfterSubnegShort ==
  ASSUME NEW s \in Seq(Byte)
  PROVE  AfterSubneg[s] \in Seq(Byte) /\ Len(AfterSubneg[s]) <= Len(s)
  <1> DEFINE G == {u \in Seq(Byte) : Len(AfterSubneg[u]) <= Len(u)}
  <1>1. ASSUME NEW u \in Seq(Byte), \A t \in Seq(Byte) : Len(t) < Len(u) => t \in G
        PROVE  u \in G
    <2>1. Len(u) \in Nat /\ Len(<<>>) = 0
      BY LenProperties
    <2>2. AfterSubneg[u] = IF Len(u) < 2 THEN <<>>
                           ELSE IF u[1] # IAC THEN AfterSubneg[Tail(u)]
                           ELSE IF u[2] = IAC THEN AfterSubneg[From(u, 3)]
                           ELSE From(u, 3)
      BY AfterSubnegIs
    <2>3. CASE Len(u) < 2
      BY <2>1, <2>2, <2>3
    <2>4. CASE Len(u) >= 2
      <3>1. Tail(u) \in Seq(Byte) /\ Len(Tail(u)) < Len(u)
        <4>1. u # <<>>
          BY <2>4, EmptySeq
        <4> QED BY <2>1, <4>1, HeadTailProperties
      <3>2. From(u, 3) \in Seq(Byte) /\ Len(From(u, 3)) < Len(u)
        <4> DEFINE k == 3
        <4>1. k \in Nat /\ k > 0 /\ k = 3
          OBVIOUS
        <4> HIDE DEF k
        <4>2. From(u, k) \in Seq(Byte) /\ Len(From(u, k)) = IF k <= Len(u) THEN Len(u) - k + 1 ELSE 0
          BY <4>1, FromType
        <4> QED BY <2>1, <2>4, <4>1, <4>2
      <3>3. \A t \in Seq(Byte) : Len(t) < Len(u) => Len(AfterSubneg[t]) <= Len(t)
        BY <1>1
      <3>4. \A t \in Seq(Byte) : Len(t) \in Nat /\ Len(AfterSubneg[t]) \in Nat
        BY AfterSubnegIs, LenProperties
      <3>5. Len(AfterSubneg[Tail(u)]) <= Len(u) /\ Len(AfterSubneg[From(u, 3)]) <= Len(u)
        <4>1. ASSUME NEW t \in Seq(Byte), Len(t) < Len(u) PROVE Len(AfterSubneg[t]) <= Len(u)
          <5>1. Len(AfterSubneg[t]) <= Len(t) /\ Len(t) \in Nat /\ Len(AfterSubneg[t]) \in Nat
            BY <3>3, <3>4, <4>1
          <5> QED BY <2>1, <4>1, <5>1
        <4> QED BY <3>1, <3>2, <4>1
      <3>6. Len(From(u, 3)) <= Len(u)
        BY <2>1, <3>2, <3>4
      <3>7. AfterSubneg[u] \in {AfterSubneg[Tail(u)], AfterSubneg[From(u, 3)], From(u, 3)}
        BY <2>1, <2>2, <2>4
      <3> QED BY <3>5, <3>6, <3>7
    <2> QED BY <2>1, <2>3, <2>4
  <1> HIDE DEF G
  <1>2. Seq(Byte) \subseteq G
    BY <1>1, ByLength
  <1> QED BY <1>2, AfterSubnegIs DEF G

LEMMA ItemType ==
  ASSUME NEW s \in Seq(Byte), s # <<>>
  PROVE  /\ Carries(s) \in Seq(Byte)
         /\ Following(s) \in Seq(Byte) /\ Len(Following(s)) < Len(s)
  <1>1. Len(s) \in Nat \ {0} /\ s[1] \in Byte
    BY EmptySeq, LenProperties
  <1>2. Carries(s) \in Seq(Byte)
    <2>1. <<s[1]>> \in Seq(Byte)
      BY <1>1
    <2>2. <<IAC>> \in Seq(Byte)
      <3>1. IAC \in Byte
        BY DEF IAC, Byte
      <3> QED BY <3>1
    <2>3. <<>> \in Seq(Byte)
      BY EmptySeq
    <2>4. Carries(s) \in {<<s[1]>>, <<IAC>>, <<>>}
      BY DEF Carries
    <2> QED BY <2>1, <2>2, <2>3, <2>4
  <1>3. Tail(s) \in Seq(Byte) /\ Len(Tail(s)) < Len(s)
    BY <1>1, HeadTailProperties
  <1>4. ASSUME NEW k \in {3, 4}
        PROVE  From(s, k) \in Seq(Byte) /\ Len(From(s, k)) < Len(s)
    <2>1. k \in Nat /\ k > 1 /\ k > 0
      OBVIOUS
    <2> HIDE DEF From
    <2>2. From(s, k) \in Seq(Byte) /\ Len(From(s, k)) = IF k <= Len(s) THEN Len(s) - k + 1 ELSE 0
      BY <2>1, FromType
    <2> QED BY <1>1, <2>1, <2>2
  <1>5. AfterSubneg[From(s, 4)] \in Seq(Byte) /\ Len(AfterSubneg[From(s, 4)]) < Len(s)
    <2> DEFINE t == From(s, 4)
    <2>1. t \in Seq(Byte) /\ Len(t) < Len(s)
      BY <1>4
    <2> HIDE DEF t
    <2>2. AfterSubneg[t] \in Seq(Byte) /\ Len(AfterSubneg[t]) <= Len(t)
      BY <2>1, AfterSubnegShort
    <2>3. Len(AfterSubneg[t]) \in Nat /\ Len(t) \in Nat
      BY <2>1, <2>2, LenProperties
    <2>4. Len(AfterSubneg[t]) < Len(s)
      BY <1>1, <2>1, <2>2, <2>3
    <2> QED BY <2>2, <2>4 DEF t
  <1>6. <<>> \in Seq(Byte) /\ Len(<<>>) < Len(s)
    BY <1>1, EmptySeq
  <1>7. Following(s) \in {Tail(s), <<>>, From(s, 3), From(s, 4), AfterSubneg[From(s, 4)]}
    BY DEF Following
  <1>8. From(s, 3) \in Seq(Byte) /\ Len(From(s, 3)) < Len(s)
    BY <1>4
  <1>9. From(s, 4) \in Seq(Byte) /\ Len(From(s, 4)) < Len(s)
    BY <1>4
  <1> QED BY <1>2, <1>3, <1>5, <1>6, <1>7, <1>8, <1>9

LEMMA DataOfIs ==
  /\ DataOf \in [Seq(Byte) -> Seq(Byte)]
  /\ \A s \in Seq(Byte) :
       DataOf[s] = IF s = <<>> THEN <<>> ELSE Carries(s) \o DataOf[Following(s)]
  <1> DEFINE S == Seq(Byte)
             stop == {<<>>}
             val == [s \in S |-> <<>>]
             pre == [s \in S |-> IF s = <<>> THEN <<>> ELSE Carries(s)]
             nxt == [s \in S |-> IF s = <<>> THEN <<>> ELSE Following(s)]
             Is(f) == f = [s \in S |-> IF s = <<>> THEN <<>> ELSE Carries(s) \o f[Following(s)]]
  <1>1. <<>> \in S
    BY EmptySeq
  <1>2. \A s \in S : Len(s) \in Nat
    BY LenProperties
  <1>3. val \in [S -> S] /\ pre \in [S -> S] /\ BytesLong \in [S -> Nat] /\ nxt \in [S -> S]
    BY <1>1, <1>2, ItemType DEF BytesLong
  <1>4. ASSUME NEW s \in S, s \notin stop PROVE BytesLong[nxt[s]] < BytesLong[s]
    <2>1. nxt[s] = Following(s) /\ s # <<>>
      BY <1>4
    <2>2. Following(s) \in S /\ Len(Following(s)) < Len(s)
      BY <2>1, ItemType
    <2> QED BY <2>1, <2>2 DEF BytesLong
  <1>5. \A s \in S : /\ val[s] = <<>>
                     /\ s # <<>> => pre[s] = Carries(s) /\ nxt[s] = Following(s)
                     /\ s \in stop <=> s = <<>>
    OBVIOUS
  <1> HIDE DEF stop, val, pre, nxt
  <1>6. Shrinks(S, BytesLong, stop, nxt)
    BY <1>3, <1>4 DEF Shrinks
  <1>7. PICK f \in [S -> S] : Descends(f, S, stop, val, pre, nxt)
    BY <1>3, <1>6, Descent
  <1>8. \A s \in S : f[s] = IF s = <<>> THEN <<>> ELSE Carries(s) \o f[Following(s)]
    BY <1>5, <1>7 DEF Descends
  <1>9. Is(f)
    BY <1>8
  <1>10. Is(DataOf)
    BY <1>9 DEF DataOf
  <1>11. ASSUME NEW g, Is(g) PROVE \A s \in S : g[s] = f[s]
    <2> DEFINE G == {s \in S : g[s] = f[s]}
    <2>1. ASSUME NEW s \in S, s \in stop \/ nxt[s] \in G PROVE s \in G
      <3>1. g[s] = IF s = <<>> THEN <<>> ELSE Carries(s) \o g[Following(s)]
        BY <1>11
      <3>2. CASE s \in stop
        BY <1>5, <1>8, <3>1, <3>2
      <3>3. CASE s \notin stop
        <4>1. s # <<>> /\ nxt[s] = Following(s) /\ nxt[s] \in G
          BY <1>5, <2>1, <3>3
        <4>2. g[Following(s)] = f[Following(s)]
          BY <4>1
        <4> QED BY <1>8, <3>1, <4>1, <4>2
      <3> QED BY <3>2, <3>3
    <2> HIDE DEF G
    <2>2. S \subseteq G
      BY <1>6, <2>1, Descending
    <2> QED BY <2>2 DEF G
  <1> HIDE DEF S
  <1>12. DataOf \in [S -> S]
    <2>1. \A s \in S : DataOf[s] = f[s]
      BY <1>10, <1>11
    <2>2. DOMAIN DataOf = S /\ DataOf = [s \in DOMAIN DataOf |-> DataOf[s]]
      BY <1>10
    <2> QED BY <2>1, <2>2
  <1>13. \A s \in S : DataOf[s] = IF s = <<>> THEN <<>> ELSE Carries(s) \o DataOf[Following(s)]
    BY <1>10
  <1> QED BY <1>12, <1>13 DEF S
------------------------------------------------------------------------------
(* Whole items.                                                            *)

(* Whatever comes after s, s carries d and leaves it alone.                *)
Reads(s, d) == /\ s \in Seq(Byte) /\ d \in Seq(Byte)
               /\ \A t \in Seq(Byte) : DataOf[s \o t] = d \o DataOf[t]

(* p lies inside a payload and does not end it.                            *)
Payload(p) == /\ p \in Seq(Byte)
              /\ \A t \in Seq(Byte) : AfterSubneg[p \o t] = AfterSubneg[t]

LEMMA BytesAre ==
  /\ {IAC, SB, SE, CR, LF, NUL, TType, NAWS} \subseteq Byte /\ Verbs \subseteq Byte
  /\ IAC \notin Verbs /\ SB \notin Verbs /\ SB # IAC /\ SE # IAC
  /\ <<>> \in Seq(Byte)
  <1>1. /\ {IAC, SB, SE, CR, LF, NUL, TType, NAWS} \subseteq Byte /\ Verbs \subseteq Byte
        /\ IAC \notin Verbs /\ SB \notin Verbs /\ SB # IAC /\ SE # IAC
    BY DEF IAC, SB, SE, CR, LF, NUL, TType, NAWS, Verbs, DO, DONT, WILL, WONT, Byte
  <1> QED BY <1>1, EmptySeq

(* What begins with a known byte, two or three.                            *)
LEMMA BeginsWith ==
  ASSUME NEW s \in Seq(Byte), NEW t \in Seq(Byte), NEW n \in Nat, n > 0, Len(s) = n
  PROVE  /\ s \o t \in Seq(Byte) /\ Len(t) \in Nat /\ Len(s \o t) = n + Len(t)
         /\ (s \o t)[1] = s[1]
         /\ n > 1 => (s \o t)[2] = s[2]
  <1>1. s \o t \in Seq(Byte) /\ Len(s \o t) = Len(s) + Len(t) /\ Len(t) \in Nat
    BY FirstOf
  <1>2. \A i \in 1 .. Len(s) : (s \o t)[i] = s[i]
    BY FirstOf
  <1>3. 1 \in 1 .. Len(s) /\ (n > 1 => 2 \in 1 .. Len(s))
    OBVIOUS
  <1> QED BY <1>1, <1>2, <1>3

LEMMA First1 ==
  ASSUME NEW t \in Seq(Byte), NEW a \in Byte
  PROVE  /\ <<a>> \o t \in Seq(Byte) /\ Len(t) \in Nat /\ Len(<<a>> \o t) = 1 + Len(t)
         /\ (<<a>> \o t)[1] = a /\ Tail(<<a>> \o t) = t
  <1> DEFINE s == <<a>>
             n == 1
  <1>1. s \in Seq(Byte) /\ Len(s) = n /\ s[1] = a /\ n \in Nat /\ n > 0
    OBVIOUS
  <1>2. Tail(s \o t) = t
    BY After1
  <1> HIDE DEF s, n
  <1>3. /\ s \o t \in Seq(Byte) /\ Len(t) \in Nat /\ Len(s \o t) = n + Len(t)
        /\ (s \o t)[1] = s[1]
    BY <1>1, BeginsWith
  <1>4. n = 1 /\ s = <<a>>
    BY DEF n, s
  <1> QED BY <1>1, <1>2, <1>3, <1>4

LEMMA First2 ==
  ASSUME NEW t \in Seq(Byte), NEW a \in Byte, NEW b \in Byte
  PROVE  /\ <<a, b>> \o t \in Seq(Byte) /\ Len(t) \in Nat /\ Len(<<a, b>> \o t) = 2 + Len(t)
         /\ (<<a, b>> \o t)[1] = a /\ (<<a, b>> \o t)[2] = b
         /\ From(<<a, b>> \o t, 3) = t
  <1> DEFINE s == <<a, b>>
             n == 2
  <1>1. s \in Seq(Byte) /\ Len(s) = n /\ s[1] = a /\ s[2] = b /\ n \in Nat /\ n > 0 /\ n > 1
    OBVIOUS
  <1>2. From(s \o t, 3) = t
    BY After2
  <1> HIDE DEF s, n
  <1>3. /\ s \o t \in Seq(Byte) /\ Len(t) \in Nat /\ Len(s \o t) = n + Len(t)
        /\ (s \o t)[1] = s[1] /\ (s \o t)[2] = s[2]
    BY <1>1, BeginsWith
  <1>4. n = 2 /\ s = <<a, b>>
    BY DEF n, s
  <1> QED BY <1>1, <1>2, <1>3, <1>4

LEMMA First3 ==
  ASSUME NEW t \in Seq(Byte), NEW a \in Byte, NEW b \in Byte, NEW c \in Byte
  PROVE  /\ <<a, b, c>> \o t \in Seq(Byte) /\ Len(t) \in Nat
         /\ Len(<<a, b, c>> \o t) = 3 + Len(t)
         /\ (<<a, b, c>> \o t)[1] = a /\ (<<a, b, c>> \o t)[2] = b
         /\ From(<<a, b, c>> \o t, 4) = t
  <1> DEFINE s == <<a, b, c>>
             n == 3
  <1>1. s \in Seq(Byte) /\ Len(s) = n /\ s[1] = a /\ s[2] = b /\ n \in Nat /\ n > 0 /\ n > 1
    OBVIOUS
  <1>2. From(s \o t, 4) = t
    BY After3
  <1> HIDE DEF s, n
  <1>3. /\ s \o t \in Seq(Byte) /\ Len(t) \in Nat /\ Len(s \o t) = n + Len(t)
        /\ (s \o t)[1] = s[1] /\ (s \o t)[2] = s[2]
    BY <1>1, BeginsWith
  <1>4. n = 3 /\ s = <<a, b, c>>
    BY DEF n, s
  <1> QED BY <1>1, <1>2, <1>3, <1>4

LEMMA ReadsNothing == Reads(<<>>, <<>>)
  <1>1. ASSUME NEW t \in Seq(Byte) PROVE DataOf[<<>> \o t] = <<>> \o DataOf[t]
    <2>1. DataOf[t] \in Seq(Byte)
      BY DataOfIs
    <2> QED BY <2>1, ConcatEmptySeq
  <1> QED BY <1>1, EmptySeq DEF Reads

LEMMA ReadsConcat ==
  ASSUME NEW s, NEW d, NEW u, NEW e, Reads(s, d), Reads(u, e)
  PROVE  Reads(s \o u, d \o e)
  <1>1. s \in Seq(Byte) /\ u \in Seq(Byte) /\ d \in Seq(Byte) /\ e \in Seq(Byte)
    BY DEF Reads
  <1>2. s \o u \in Seq(Byte) /\ d \o e \in Seq(Byte)
    BY <1>1, ConcatProperties
  <1>3. ASSUME NEW t \in Seq(Byte) PROVE DataOf[(s \o u) \o t] = (d \o e) \o DataOf[t]
    <2>1. (s \o u) \o t = s \o (u \o t)
      BY <1>1, ConcatAssociative
    <2>2. u \o t \in Seq(Byte)
      BY <1>1, ConcatProperties
    <2>3. DataOf[s \o (u \o t)] = d \o DataOf[u \o t]
      BY <2>2 DEF Reads
    <2>4. DataOf[u \o t] = e \o DataOf[t]
      BY DEF Reads
    <2>5. (d \o e) \o DataOf[t] = d \o (e \o DataOf[t])
      <3>1. DataOf[t] \in Seq(Byte)
        BY DataOfIs
      <3> DEFINE x == DataOf[t]
      <3> HIDE DEF x
      <3>2. x \in Seq(Byte)
        BY <3>1 DEF x
      <3>3. (d \o e) \o x = d \o (e \o x)
        <4>1. d \in Seq(Byte) /\ e \in Seq(Byte)
          BY <1>1
        <4> QED BY <3>2, <4>1, ConcatAssociative
      <3> QED BY <3>3 DEF x
    <2> QED BY <2>1, <2>3, <2>4, <2>5
  <1> QED BY <1>2, <1>3 DEF Reads

LEMMA ReadsData ==
  ASSUME NEW s, NEW d, Reads(s, d)
  PROVE  DataOf[s] = d
  <1>1. <<>> \in Seq(Byte) /\ s \in Seq(Byte) /\ d \in Seq(Byte)
    BY EmptySeq DEF Reads
  <1>2. DataOf[s \o <<>>] = d \o DataOf[<<>>]
    BY <1>1 DEF Reads
  <1>3. DataOf[<<>>] = <<>>
    BY <1>1, DataOfIs
  <1> QED BY <1>1, <1>2, <1>3, ConcatEmptySeq

(* An item that carries d and is followed by what comes after it.          *)
LEMMA ItemReads ==
  ASSUME NEW s \in Seq(Byte), s # <<>>, NEW d \in Seq(Byte),
         \A t \in Seq(Byte) : Carries(s \o t) = d /\ DataOf[Following(s \o t)] = DataOf[t]
  PROVE  Reads(s, d)
  <1>1. ASSUME NEW t \in Seq(Byte) PROVE DataOf[s \o t] = d \o DataOf[t]
    <2>1. s \o t \in Seq(Byte) /\ s \o t # <<>>
      BY ConcatProperties, ConcatEqualIffEmpty
    <2> QED BY <2>1, DataOfIs
  <1> QED BY <1>1 DEF Reads

LEMMA ReadsByte ==
  ASSUME NEW c \in Byte, c # IAC
  PROVE  Reads(<<c>>, <<c>>)
  <1>1. <<c>> \in Seq(Byte) /\ <<c>> # <<>> /\ Len(<<c>>) = 1
    OBVIOUS
  <1>2. ASSUME NEW t \in Seq(Byte)
        PROVE  Carries(<<c>> \o t) = <<c>> /\ DataOf[Following(<<c>> \o t)] = DataOf[t]
    <2>1. (<<c>> \o t)[1] = c /\ Tail(<<c>> \o t) = t
      BY First1
    <2> QED BY <2>1 DEF Carries, Following
  <1> QED BY <1>1, <1>2, ItemReads

(* Two bytes that begin with 255.                                          *)
LEMMA ReadsPair ==
  ASSUME NEW c \in Byte, c \notin Verbs \cup {SB}
  PROVE  Reads(<<IAC, c>>, IF c = IAC THEN <<IAC>> ELSE <<>>)
  <1> DEFINE s == <<IAC, c>>
             d == IF c = IAC THEN <<IAC>> ELSE <<>>
  <1>1. s \in Seq(Byte) /\ s # <<>> /\ Len(s) = 2 /\ s[1] = IAC /\ s[2] = c
    BY BytesAre
  <1>2. d \in Seq(Byte)
    <2>1. <<IAC>> \in Seq(Byte)
      BY BytesAre
    <2> QED BY <2>1, BytesAre
  <1>3. ASSUME NEW t \in Seq(Byte)
        PROVE  Carries(s \o t) = d /\ DataOf[Following(s \o t)] = DataOf[t]
    <2>1. IAC \in Byte
      BY BytesAre
    <2>2. /\ Len(t) \in Nat /\ Len(s \o t) = 2 + Len(t)
          /\ (s \o t)[1] = IAC /\ (s \o t)[2] = c /\ From(s \o t, 3) = t
      BY <2>1, First2
    <2> HIDE DEF s
    <2>3. Len(s \o t) > 1 /\ Len(s \o t) # 1
      BY <2>2
    <2> QED BY <2>2, <2>3 DEF Carries, Following
  <1> HIDE DEF s, d
  <1>4. Reads(s, d)
    BY <1>1, <1>2, <1>3, ItemReads
  <1> QED BY <1>4 DEF s, d

LEMMA ReadsCommand ==
  ASSUME NEW v \in Verbs, NEW o \in Byte
  PROVE  Reads(Command(v, o), <<>>)
  <1> DEFINE s == <<IAC, v, o>>
  <1>1. s \in Seq(Byte) /\ s # <<>> /\ Len(s) = 3 /\ s[1] = IAC /\ s[2] = v
    BY BytesAre
  <1>2. ASSUME NEW t \in Seq(Byte)
        PROVE  Carries(s \o t) = <<>> /\ DataOf[Following(s \o t)] = DataOf[t]
    <2>1. IAC \in Byte /\ v \in Byte
      BY BytesAre
    <2>2. /\ Len(t) \in Nat /\ Len(s \o t) = 3 + Len(t)
          /\ (s \o t)[1] = IAC /\ (s \o t)[2] = v /\ From(s \o t, 4) = t
      BY <2>1, First3
    <2> HIDE DEF s
    <2>3. v # IAC /\ Len(s \o t) > 1 /\ Len(s \o t) # 1
      BY <2>2, BytesAre
    <2> QED BY <2>2, <2>3 DEF Carries, Following
  <1> HIDE DEF s
  <1>3. Reads(s, <<>>)
    BY <1>1, <1>2, ItemReads, BytesAre
  <1> QED BY <1>3 DEF s, Command

LEMMA PayloadConcat ==
  ASSUME NEW p, NEW q, Payload(p), Payload(q)
  PROVE  Payload(p \o q)
  <1>1. p \in Seq(Byte) /\ q \in Seq(Byte)
    BY DEF Payload
  <1>2. p \o q \in Seq(Byte)
    BY <1>1, ConcatProperties
  <1>3. ASSUME NEW t \in Seq(Byte) PROVE AfterSubneg[(p \o q) \o t] = AfterSubneg[t]
    <2>1. (p \o q) \o t = p \o (q \o t)
      BY <1>1, ConcatAssociative
    <2>2. q \o t \in Seq(Byte)
      BY <1>1, ConcatProperties
    <2>3. AfterSubneg[p \o (q \o t)] = AfterSubneg[q \o t]
      BY <2>2 DEF Payload
    <2>4. AfterSubneg[q \o t] = AfterSubneg[t]
      BY DEF Payload
    <2> QED BY <2>1, <2>3, <2>4
  <1> QED BY <1>2, <1>3 DEF Payload

LEMMA PayloadNone == Payload(<<>>)
  <1>1. \A t \in Seq(Byte) : <<>> \o t = t
    BY ConcatEmptySeq
  <1> QED BY <1>1, BytesAre DEF Payload

LEMMA PayloadByte ==
  ASSUME NEW c \in Byte, c # IAC
  PROVE  Payload(<<c>>)
  <1>1. <<c>> \in Seq(Byte) /\ Len(<<c>>) = 1
    OBVIOUS
  <1>2. ASSUME NEW t \in Seq(Byte) PROVE AfterSubneg[<<c>> \o t] = AfterSubneg[t]
    <2> DEFINE u == <<c>> \o t
    <2>1. u[1] = c /\ u \in Seq(Byte) /\ Len(u) = 1 + Len(t) /\ Len(t) \in Nat
      BY First1
    <2>2. Tail(u) = t
      BY First1
    <2> HIDE DEF u
    <2>3. CASE Len(u) < 2
      <3>1. t = <<>>
        BY <2>1, <2>3, EmptySeq
      <3>2. AfterSubneg[t] = <<>>
        <4>1. Len(t) < 2
          BY <2>1, <2>3
        <4> QED BY <4>1, AfterSubnegIs
      <3> QED BY <2>1, <2>3, <3>2, AfterSubnegIs DEF u
    <2>4. CASE ~(Len(u) < 2)
      BY <2>1, <2>2, <2>4, AfterSubnegIs DEF u
    <2> QED BY <2>3, <2>4
  <1> QED BY <1>1, <1>2 DEF Payload

LEMMA PayloadDoubled == Payload(<<IAC, IAC>>)
  <1> DEFINE s == <<IAC, IAC>>
  <1>1. s \in Seq(Byte) /\ Len(s) = 2 /\ s[1] = IAC /\ s[2] = IAC
    BY BytesAre
  <1>2. ASSUME NEW t \in Seq(Byte) PROVE AfterSubneg[s \o t] = AfterSubneg[t]
    <2>1. IAC \in Byte
      BY BytesAre
    <2>2. /\ s \o t \in Seq(Byte) /\ Len(t) \in Nat /\ Len(s \o t) = 2 + Len(t)
          /\ (s \o t)[1] = IAC /\ (s \o t)[2] = IAC /\ From(s \o t, 3) = t
      BY <2>1, First2
    <2> HIDE DEF s
    <2>3. ~(Len(s \o t) < 2)
      BY <2>2
    <2> QED BY <2>2, <2>3, AfterSubnegIs
  <1> QED BY <1>1, <1>2 DEF Payload

(* A subnegotiation, begun and ended.                                      *)
Begins(o, p) == <<IAC, SB, o>> \o p

LEMMA ReadsSubneg ==
  ASSUME NEW o \in Byte, NEW p, Payload(p), NEW c \in Byte, c # IAC
  PROVE  Reads(Begins(o, p) \o <<IAC, c>>, <<>>)
  <1> DEFINE h == <<IAC, SB, o>>
             z == <<IAC, c>>
             q == p \o z
             s == Begins(o, p) \o z
  <1>0. IAC \in Byte /\ SB \in Byte
    BY BytesAre
  <1>1. h \in Seq(Byte) /\ z \in Seq(Byte) /\ p \in Seq(Byte)
    BY <1>0 DEF Payload
  <1>2. s = h \o q /\ q \in Seq(Byte)
    <2> HIDE DEF h, z
    <2>1. (h \o p) \o z = h \o (p \o z)
      BY <1>1, ConcatAssociative
    <2>2. p \o z \in Seq(Byte)
      BY <1>1, ConcatProperties
    <2> QED BY <2>1, <2>2 DEF Begins, h
  <1>3. s \in Seq(Byte) /\ s # <<>>
    <2> HIDE DEF s, q, z
    <2>1. /\ h \o q \in Seq(Byte) /\ Len(q) \in Nat /\ Len(h \o q) = 3 + Len(q)
      BY <1>0, <1>2, First3
    <2> HIDE DEF h
    <2>2. Len(s) # 0
      BY <1>2, <2>1
    <2> QED BY <1>2, <2>1, <2>2, EmptySeq
  <1>4. ASSUME NEW t \in Seq(Byte)
        PROVE  Carries(s \o t) = <<>> /\ DataOf[Following(s \o t)] = DataOf[t]
    <2> DEFINE w == q \o t
               y == z \o t
    <2>1. w \in Seq(Byte) /\ s \o t = h \o w
      <3> HIDE DEF h, s, q
      <3>1. w \in Seq(Byte)
        BY <1>2, ConcatProperties
      <3>2. (h \o q) \o t = h \o (q \o t)
        BY <1>1, <1>2, ConcatAssociative
      <3> QED BY <1>2, <3>1, <3>2
    <2>2. /\ Len(w) \in Nat /\ Len(h \o w) = 3 + Len(w)
          /\ (h \o w)[1] = IAC /\ (h \o w)[2] = SB /\ From(h \o w, 4) = w
      <3> HIDE DEF w, s, q
      <3> QED BY <1>0, <2>1, First3
    <2>3. AfterSubneg[w] = t
      <3>1. y \in Seq(Byte) /\ w = p \o y
        <4> HIDE DEF z
        <4>1. (p \o z) \o t = p \o (z \o t)
          BY <1>1, ConcatAssociative
        <4>2. z \o t \in Seq(Byte)
          BY <1>1, ConcatProperties
        <4> QED BY <4>1, <4>2
      <3>2. AfterSubneg[p \o y] = AfterSubneg[y]
        BY <3>1 DEF Payload
      <3>3. /\ Len(t) \in Nat /\ Len(y) = 2 + Len(t)
            /\ y[1] = IAC /\ y[2] = c /\ From(y, 3) = t
        BY <1>0, First2
      <3> HIDE DEF y, w
      <3>4. ~(Len(y) < 2)
        BY <3>3
      <3>5. AfterSubneg[y] = t
        BY <3>1, <3>3, <3>4, AfterSubnegIs
      <3> QED BY <3>1, <3>2, <3>5
    <2> HIDE DEF h, w, s
    <2>4. SB # IAC /\ SB \notin Verbs /\ Len(h \o w) # 1
      BY <2>2, BytesAre
    <2>5. Carries(h \o w) = <<>> /\ Following(h \o w) = t
      BY <2>2, <2>3, <2>4 DEF Carries, Following
    <2> QED BY <2>1, <2>5
  <1> HIDE DEF s
  <1>5. Reads(s, <<>>)
    BY <1>3, <1>4, ItemReads, BytesAre
  <1> QED BY <1>5 DEF s
------------------------------------------------------------------------------
(* What the program puts on the wire, read back.                           *)

(* g is f and one element more.                                            *)
LEMMA OneMore ==
  ASSUME NEW S, NEW n \in Nat, NEW f, NEW g,
         f \in [1 .. n -> S], g \in [1 .. n + 1 -> S], \A i \in 1 .. n : g[i] = f[i]
  PROVE  /\ f \in Seq(S) /\ Len(f) = n /\ g \in Seq(S) /\ Len(g) = n + 1
         /\ g = Append(f, g[n + 1])
  <1>1. f \in Seq(S) /\ Len(f) = n
    BY FcnIsSeq
  <1>2. g \in Seq(S) /\ Len(g) = n + 1
    <2> DEFINE m == n + 1
    <2>1. m \in Nat /\ g \in [1 .. m -> S]
      OBVIOUS
    <2> HIDE DEF m
    <2>2. g \in Seq(S) /\ Len(g) = m
      BY <2>1, FcnIsSeq
    <2> QED BY <2>2 DEF m
  <1>3. g[n + 1] \in S
    OBVIOUS
  <1> DEFINE x == g[n + 1]
             h == Append(f, x)
  <1> HIDE DEF x
  <1>4. /\ h \in Seq(S) /\ Len(h) = Len(f) + 1
        /\ \A i \in 1 .. Len(f) : h[i] = f[i]
        /\ h[Len(f) + 1] = x
    BY <1>1, <1>3, AppendProperties DEF x
  <1> HIDE DEF h
  <1>5. Len(g) = Len(h)
    BY <1>1, <1>2, <1>4
  <1>6. ASSUME NEW i \in 1 .. Len(g) PROVE g[i] = h[i]
    <2>1. CASE i = n + 1
      BY <1>1, <1>4, <2>1 DEF x
    <2>2. CASE i # n + 1
      <3>1. i \in 1 .. n
        BY <1>2, <2>2
      <3> QED BY <1>1, <1>4, <3>1
    <2> QED BY <2>1, <2>2
  <1>7. g = h
    BY <1>2, <1>4, <1>5, <1>6, SeqEqual
  <1> QED BY <1>1, <1>2, <1>7 DEF h, x

(* The first k pieces of f, strung together, one by one.                   *)
Strung(f, k) == FlattenSeq([i \in 1 .. k |-> f[i]])

LEMMA StrungGrows ==
  ASSUME NEW n \in Nat, NEW f \in [1 .. n -> Seq(Byte)]
  PROVE  /\ Strung(f, 0) = <<>> /\ Strung(f, n) = FlattenSeq(f)
         /\ \A k \in Nat : k + 1 <= n => Strung(f, k + 1) = Strung(f, k) \o f[k + 1]
         /\ \A k \in Nat : k <= n => Strung(f, k) \in Seq(Byte)
  <1> DEFINE F(k) == [i \in 1 .. k |-> f[i]]
  <1>1. Strung(f, 0) = <<>>
    <2>1. F(0) = <<>>
      OBVIOUS
    <2> HIDE DEF F
    <2>2. FlattenSeq(F(0)) = <<>>
      BY <2>1, FlattenEmpty
    <2> QED BY <2>2 DEF F, Strung
  <1>2. Strung(f, n) = FlattenSeq(f)
    <2>1. F(n) = f
      OBVIOUS
    <2> HIDE DEF F
    <2>2. FlattenSeq(F(n)) = FlattenSeq(f)
      BY <2>1
    <2> QED BY <2>2 DEF F, Strung
  <1>3. ASSUME NEW k \in Nat, k + 1 <= n
        PROVE  Strung(f, k + 1) = Strung(f, k) \o f[k + 1]
    <2>1. k + 1 \in 1 .. n /\ \A i \in 1 .. k + 1 : i \in 1 .. n
      BY <1>3
    <2>2. F(k) \in [1 .. k -> Seq(Byte)] /\ F(k + 1) \in [1 .. k + 1 -> Seq(Byte)]
      BY <2>1
    <2>3. (\A i \in 1 .. k : F(k + 1)[i] = F(k)[i]) /\ F(k + 1)[k + 1] = f[k + 1]
      OBVIOUS
    <2>4. f[k + 1] \in Seq(Byte)
      BY <2>1
    <2> DEFINE F0 == F(k)
               F1 == F(k + 1)
               x  == f[k + 1]
    <2> HIDE DEF F0, F1, x, F
    <2>5. F0 \in [1 .. k -> Seq(Byte)] /\ F1 \in [1 .. k + 1 -> Seq(Byte)]
      BY <2>2 DEF F0, F1
    <2>6. \A i \in 1 .. k : F1[i] = F0[i]
      BY <2>3 DEF F0, F1
    <2>7. F0 \in Seq(Seq(Byte)) /\ F1 = Append(F0, F1[k + 1])
      BY <2>5, <2>6, OneMore
    <2>8. F0 \in Seq(Seq(Byte)) /\ x \in Seq(Byte) /\ F1 = Append(F0, x)
      BY <2>3, <2>4, <2>7 DEF F1, x
    <2>9. FlattenSeq(F1) = FlattenSeq(F0) \o x
      BY <2>8, FlattenAppend
    <2> QED BY <2>9 DEF F0, F1, F, x, Strung
  <1>4. ASSUME NEW k \in Nat, k <= n PROVE Strung(f, k) \in Seq(Byte)
    <2>1. F(k) \in [1 .. k -> Seq(Byte)]
      <3>1. \A i \in 1 .. k : i \in 1 .. n
        BY <1>4
      <3> QED BY <3>1
    <2> DEFINE F0 == F(k)
    <2> HIDE DEF F0, F
    <2>2. F0 \in [1 .. k -> Seq(Byte)]
      BY <2>1 DEF F0
    <2>3. F0 \in Seq(Seq(Byte))
      BY <2>2, FcnIsSeq
    <2>4. FlattenSeq(F0) \in Seq(Byte)
      BY <2>3, FlattenType
    <2> QED BY <2>4 DEF F0, F, Strung
  <1> QED BY <1>1, <1>2, <1>3, <1>4

(* Pieces that read as pieces read together as the pieces together.        *)
LEMMA PiecesRead ==
  ASSUME NEW n \in Nat, NEW f \in [1 .. n -> Seq(Byte)], NEW g \in [1 .. n -> Seq(Byte)],
         \A i \in 1 .. n : Reads(f[i], g[i])
  PROVE  Reads(FlattenSeq(f), FlattenSeq(g))
  <1> DEFINE T == {k \in Nat : k <= n => Reads(Strung(f, k), Strung(g, k))}
  <1>1. 0 \in T
    <2>1. Strung(f, 0) = <<>> /\ Strung(g, 0) = <<>>
      BY StrungGrows
    <2> QED BY <2>1, ReadsNothing
  <1>2. ASSUME NEW k \in Nat, k \in T PROVE k + 1 \in T
    <2> SUFFICES ASSUME k + 1 <= n PROVE Reads(Strung(f, k + 1), Strung(g, k + 1))
      OBVIOUS
    <2>1. Reads(Strung(f, k), Strung(g, k)) /\ Reads(f[k + 1], g[k + 1])
      BY <1>2
    <2>2. Reads(Strung(f, k) \o f[k + 1], Strung(g, k) \o g[k + 1])
      BY <2>1, ReadsConcat
    <2>3. Strung(f, k + 1) = Strung(f, k) \o f[k + 1]
      BY StrungGrows
    <2>4. Strung(g, k + 1) = Strung(g, k) \o g[k + 1]
      BY StrungGrows
    <2> QED BY <2>2, <2>3, <2>4
  <1> HIDE DEF T
  <1>3. Nat \subseteq T
    BY <1>1, <1>2, AllOfNat
  <1>4. Reads(Strung(f, n), Strung(g, n))
    BY <1>3 DEF T
  <1>5. Strung(f, n) = FlattenSeq(f) /\ Strung(g, n) = FlattenSeq(g)
    BY StrungGrows
  <1> QED BY <1>4, <1>5

LEMMA PiecesStayInside ==
  ASSUME NEW n \in Nat, NEW f \in [1 .. n -> Seq(Byte)], \A i \in 1 .. n : Payload(f[i])
  PROVE  Payload(FlattenSeq(f))
  <1> DEFINE T == {k \in Nat : k <= n => Payload(Strung(f, k))}
  <1>1. 0 \in T
    <2>1. Strung(f, 0) = <<>>
      BY StrungGrows
    <2> QED BY <2>1, PayloadNone
  <1>2. ASSUME NEW k \in Nat, k \in T PROVE k + 1 \in T
    <2> SUFFICES ASSUME k + 1 <= n PROVE Payload(Strung(f, k + 1))
      OBVIOUS
    <2>1. Payload(Strung(f, k)) /\ Payload(f[k + 1])
      BY <1>2
    <2>2. Payload(Strung(f, k) \o f[k + 1])
      BY <2>1, PayloadConcat
    <2>3. Strung(f, k + 1) = Strung(f, k) \o f[k + 1]
      BY StrungGrows
    <2> QED BY <2>2, <2>3
  <1> HIDE DEF T
  <1>3. Nat \subseteq T
    BY <1>1, <1>2, AllOfNat
  <1>4. Payload(Strung(f, n))
    BY <1>3 DEF T
  <1>5. Strung(f, n) = FlattenSeq(f)
    BY StrungGrows
  <1> QED BY <1>4, <1>5

(* Bytes strung together are what they were.                               *)
LEMMA BytesStrung ==
  ASSUME NEW n \in Nat, NEW d \in [1 .. n -> Byte]
  PROVE  FlattenSeq([i \in 1 .. n |-> <<d[i]>>]) = d
  <1> DEFINE g == [i \in 1 .. n |-> <<d[i]>>]
             D(k) == [i \in 1 .. k |-> d[i]]
             T == {k \in Nat : k <= n => Strung(g, k) = D(k)}
  <1>0. g \in [1 .. n -> Seq(Byte)] /\ \A i \in 1 .. n : g[i] = <<d[i]>>
    OBVIOUS
  <1> HIDE DEF g
  <1>1. 0 \in T
    <2>1. Strung(g, 0) = <<>>
      BY <1>0, StrungGrows
    <2>2. D(0) = <<>>
      OBVIOUS
    <2> QED BY <2>1, <2>2
  <1>2. ASSUME NEW k \in Nat, k \in T PROVE k + 1 \in T
    <2> SUFFICES ASSUME k + 1 <= n PROVE Strung(g, k + 1) = D(k + 1)
      OBVIOUS
    <2>1. k + 1 \in 1 .. n /\ \A i \in 1 .. k + 1 : i \in 1 .. n
      OBVIOUS
    <2>2. D(k) \in [1 .. k -> Byte] /\ D(k + 1) \in [1 .. k + 1 -> Byte]
      BY <2>1
    <2>3. (\A i \in 1 .. k : D(k + 1)[i] = D(k)[i]) /\ D(k + 1)[k + 1] = d[k + 1]
      OBVIOUS
    <2>4. Strung(g, k) = D(k)
      BY <1>2
    <2>5. Strung(g, k + 1) = Strung(g, k) \o g[k + 1] /\ g[k + 1] = <<d[k + 1]>> /\ d[k + 1] \in Byte
      BY <1>0, <2>1, StrungGrows
    <2> DEFINE D0 == D(k)
               D1 == D(k + 1)
               x  == d[k + 1]
    <2> HIDE DEF D0, D1, x, D
    <2>6. D0 \in [1 .. k -> Byte] /\ D1 \in [1 .. k + 1 -> Byte]
      BY <2>2 DEF D0, D1
    <2>7. \A i \in 1 .. k : D1[i] = D0[i]
      BY <2>3 DEF D0, D1
    <2>8. D0 \in Seq(Byte) /\ D1 = Append(D0, D1[k + 1])
      BY <2>6, <2>7, OneMore
    <2>9. D1[k + 1] = x /\ x \in Byte
      BY <2>3, <2>5 DEF D1, x
    <2>10. Append(D0, x) = D0 \o <<x>>
      BY <2>8, <2>9, AppendIsConcat
    <2> QED BY <2>4, <2>5, <2>8, <2>9, <2>10 DEF D0, D1, x
  <1> HIDE DEF T
  <1>3. Nat \subseteq T
    BY <1>1, <1>2, AllOfNat
  <1>4. Strung(g, n) = D(n)
    BY <1>3 DEF T
  <1>5. Strung(g, n) = FlattenSeq(g)
    BY <1>0, StrungGrows
  <1>6. D(n) = d
    OBVIOUS
  <1> HIDE DEF D
  <1> QED BY <1>4, <1>5, <1>6 DEF g

LEMMA Pair ==
  ASSUME NEW B, NEW a \in B, NEW b \in B
  PROVE  <<a>> \o <<b>> = <<a, b>>
  <1> DEFINE s == <<a>>
             t == <<b>>
             u == <<a, b>>
  <1>1. s \in Seq(B) /\ t \in Seq(B) /\ u \in Seq(B)
    OBVIOUS
  <1>2. Len(s) = 1 /\ Len(t) = 1 /\ Len(u) = 2 /\ s[1] = a /\ t[1] = b /\ u[1] = a /\ u[2] = b
    OBVIOUS
  <1> HIDE DEF s, t, u
  <1> DEFINE w == s \o t
  <1>3. /\ w \in Seq(B) /\ Len(w) = Len(s) + Len(t)
        /\ \A i \in 1 .. Len(s) + Len(t) : w[i] = IF i <= Len(s) THEN s[i] ELSE t[i - Len(s)]
    BY <1>1, ConcatProperties
  <1> HIDE DEF w
  <1>4. w[1] = a /\ w[2] = b /\ Len(w) = 2
    BY <1>2, <1>3
  <1>5. \A i \in 1 .. 2 : i = 1 \/ i = 2
    OBVIOUS
  <1>6. w = u
    BY <1>1, <1>2, <1>3, <1>4, <1>5, SeqEqual
  <1> QED BY <1>6 DEF w, s, t, u

LEMMA DoubledReads ==
  ASSUME NEW b \in Byte
  PROVE  Doubled(b) \in Seq(Byte) /\ Reads(Doubled(b), <<b>>) /\ Payload(Doubled(b))
  <1>1. CASE b = IAC
    <2>1. IAC \notin Verbs \cup {SB} /\ IAC \in Byte
      BY BytesAre
    <2>2. Reads(<<IAC, IAC>>, <<IAC>>)
      BY <2>1, ReadsPair
    <2> QED BY <1>1, <2>2, PayloadDoubled DEF Doubled, Reads
  <1>2. CASE b # IAC
    BY <1>2, ReadsByte, PayloadByte DEF Doubled, Reads
  <1> QED BY <1>1, <1>2

(* What was typed comes out of the wire with its newlines.                 *)
LEMMA TransformReads ==
  ASSUME NEW p \in Seq(Byte)
  PROVE  Reads(TransformWrite(p), Newlines(p))
  <1> DEFINE n == Len(p)
             f == [i \in 1 .. n |-> WirePiece(p, i)]
             g == [i \in 1 .. n |-> Typed(p, i)]
  <1>1. n \in Nat /\ \A i \in 1 .. n : p[i] \in Byte
    BY LenProperties
  <1>2. Reads(<<CR, LF>>, <<CR, LF>>) /\ Reads(<<CR>>, <<CR>>)
    <2>1. Reads(<<CR>>, <<CR>>) /\ Reads(<<LF>>, <<LF>>)
      <3>1. CR \in Byte /\ LF \in Byte /\ CR # IAC /\ LF # IAC
        BY BytesAre DEF CR, LF, IAC
      <3> QED BY <3>1, ReadsByte
    <2>2. Reads(<<CR>> \o <<LF>>, <<CR>> \o <<LF>>)
      BY <2>1, ReadsConcat
    <2>3. <<CR>> \o <<LF>> = <<CR, LF>>
      <3>1. CR \in Byte /\ LF \in Byte
        BY BytesAre
      <3> QED BY <3>1, Pair
    <2> QED BY <2>1, <2>2, <2>3
  <1>3. ASSUME NEW i \in 1 .. n PROVE Reads(WirePiece(p, i), Typed(p, i))
    <2>1. CASE crlf /\ p[i] = CR
      <3>1. i < n <=> i # n
        BY <1>1
      <3>2. CASE i < n /\ p[i + 1] = LF
        <4>1. WirePiece(p, i) = <<CR>> /\ Typed(p, i) = <<CR>>
          BY <2>1, <3>1, <3>2 DEF WirePiece, Typed
        <4> QED BY <1>2, <4>1
      <3>3. CASE ~(i < n /\ p[i + 1] = LF)
        <4>1. WirePiece(p, i) = <<CR, LF>> /\ Typed(p, i) = <<CR, LF>>
          BY <2>1, <3>1, <3>3 DEF WirePiece, Typed
        <4> QED BY <1>2, <4>1
      <3> QED BY <3>2, <3>3
    <2>2. CASE ~crlf \/ p[i] # CR
      <3>1. WirePiece(p, i) = Doubled(p[i]) /\ Typed(p, i) = <<p[i]>>
        BY <2>2 DEF WirePiece, Typed
      <3> QED BY <1>1, <3>1, DoubledReads
    <2> QED BY <2>1, <2>2
  <1>4. f \in [1 .. n -> Seq(Byte)] /\ g \in [1 .. n -> Seq(Byte)]
    BY <1>3 DEF Reads
  <1>5. \A i \in 1 .. n : Reads(f[i], g[i])
    BY <1>3
  <1> HIDE DEF f, g, n
  <1>6. Reads(FlattenSeq(f), FlattenSeq(g))
    BY <1>1, <1>4, <1>5, PiecesRead
  <1> QED BY <1>6 DEF f, g, n, TransformWrite, Newlines

(* A size is read back as what it was.                                     *)
RealSize == Sizes \cup {<<80, 24>>}

LEMMA MaxDimIs == MaxDim \in Int /\ MaxDim < 65536
  BY DEF MaxDim

LEMMA ByteSplit ==
  ASSUME NEW n \in 1 .. MaxDim
  PROVE  n \div 256 \in Byte /\ n % 256 \in Byte /\ (n \div 256) * 256 + (n % 256) = n
  <1>1. n \in Nat /\ n < 65536
    <2>1. n \in Nat /\ n <= MaxDim
      BY MaxDimIs
    <2> QED BY <2>1, MaxDimIs
  <1>2. (n \div 256) * 256 + (n % 256) = n
    BY <1>1
  <1>3. n % 256 \in 0 .. 255
    BY <1>1
  <1>4. n \div 256 \in Nat
    BY <1>1
  <1> DEFINE q == n \div 256
             r == n % 256
  <1>5. q \in 0 .. 255
    <2> HIDE DEF q, r
    <2>1. q \in Nat /\ r \in Nat /\ r < 256 /\ n = q * 256 + r
      BY <1>2, <1>3, <1>4 DEF q, r
    <2> QED BY <1>1, <2>1
  <1>6. n \div 256 \in Byte
    BY <1>5 DEF Byte
  <1>7. n % 256 \in Byte
    BY <1>3 DEF Byte
  <1> QED BY <1>2, <1>6, <1>7

LEMMA SizeBytesType ==
  ASSUME NEW sz \in RealSize
  PROVE  /\ sz[1] \in 1 .. MaxDim /\ sz[2] \in 1 .. MaxDim /\ sz = <<sz[1], sz[2]>>
         /\ SizeBytes(sz) \in [1 .. 4 -> Byte]
  <1>1. sz \in [1 .. 2 -> 1 .. MaxDim]
    <2>1. CASE sz \in Sizes
      BY <2>1, TelnetAssumption DEF TelnetAssumption
    <2>2. CASE sz = <<80, 24>>
      <3> DEFINE S == 1 .. MaxDim
      <3>1. 80 \in S /\ 24 \in S
        BY DEF MaxDim
      <3> HIDE DEF S
      <3>2. <<80, 24>> \in Seq(S) /\ DOMAIN <<80, 24>> = 1 .. 2
        BY <3>1
      <3>3. <<80, 24>> \in [1 .. 2 -> S]
        BY <3>2
      <3> QED BY <2>2, <3>3 DEF S
    <2> QED BY <2>1, <2>2 DEF RealSize
  <1>2. /\ sz[1] \in 1 .. MaxDim /\ sz[2] \in 1 .. MaxDim /\ sz = <<sz[1], sz[2]>>
    BY <1>1
  <1> DEFINE a == sz[1] \div 256
             b == sz[1] % 256
             c == sz[2] \div 256
             d == sz[2] % 256
  <1>3. a \in Byte /\ b \in Byte /\ c \in Byte /\ d \in Byte
    BY <1>2, ByteSplit
  <1> HIDE DEF a, b, c, d
  <1>4. <<a, b, c, d>> \in [1 .. 4 -> Byte]
    BY <1>3
  <1> QED BY <1>2, <1>4 DEF SizeBytes, a, b, c, d

SizePayload(sz) == FlattenSeq([i \in 1 .. 4 |-> Doubled(SizeBytes(sz)[i])])

LEMMA SizePayloadReads ==
  ASSUME NEW sz \in RealSize
  PROVE  Reads(SizePayload(sz), SizeBytes(sz)) /\ Payload(SizePayload(sz))
  <1> DEFINE d == SizeBytes(sz)
             n == 4
             f == [i \in 1 .. n |-> Doubled(d[i])]
             g == [i \in 1 .. n |-> <<d[i]>>]
  <1>1. d \in [1 .. n -> Byte] /\ n \in Nat
    <2> HIDE DEF d, f, g
    <2>1. d \in [1 .. 4 -> Byte]
      BY SizeBytesType DEF d
    <2> QED BY <2>1
  <1> HIDE DEF d, n
  <1>2. ASSUME NEW i \in 1 .. n
        PROVE  /\ Reads(f[i], g[i]) /\ Payload(f[i])
               /\ f[i] \in Seq(Byte) /\ g[i] \in Seq(Byte)
    <2>1. d[i] \in Byte
      BY <1>1
    <2>2. f[i] = Doubled(d[i]) /\ g[i] = <<d[i]>>
      OBVIOUS
    <2> QED BY <2>1, <2>2, DoubledReads DEF Reads
  <1>3. f \in [1 .. n -> Seq(Byte)] /\ g \in [1 .. n -> Seq(Byte)]
    BY <1>2
  <1>4. FlattenSeq(g) = d
    BY <1>1, BytesStrung
  <1>5. Reads(FlattenSeq(f), FlattenSeq(g)) /\ Payload(FlattenSeq(f))
    <2> HIDE DEF f, g
    <2>1. Reads(FlattenSeq(f), FlattenSeq(g))
      BY <1>1, <1>2, <1>3, PiecesRead
    <2>2. Payload(FlattenSeq(f))
      BY <1>1, <1>2, <1>3, PiecesStayInside
    <2> QED BY <2>1, <2>2
  <1> HIDE DEF g
  <1>6. Reads(FlattenSeq(f), d) /\ Payload(FlattenSeq(f))
    BY <1>4, <1>5
  <1> QED BY <1>6 DEF f, d, n, SizePayload

------------------------------------------------------------------------------
(* CR NUL stands for CR, byte by byte.                                     *)
EndsCR(d) == d # <<>> /\ d[Len(d)] = CR

LEMMA BareCRAppend ==
  ASSUME NEW d \in Seq(Byte), NEW c \in Byte
  PROVE  /\ BareCR(d) \in Seq(Byte)
         /\ BareCR(Append(d, c)) = IF c = NUL /\ EndsCR(d) THEN BareCR(d)
                                                           ELSE Append(BareCR(d), c)
  <1> DEFINE n == Len(d)
             e == Append(d, c)
             f == [i \in 1 .. n |-> Kept(d, i)]
             g == [i \in 1 .. n + 1 |-> Kept(e, i)]
  <1>1. /\ n \in Nat /\ e \in Seq(Byte) /\ Len(e) = n + 1 /\ e[n + 1] = c
        /\ \A i \in 1 .. n : e[i] = d[i]
    BY AppendProperties, LenProperties
  <1>2. \A i \in 1 .. n : d[i] \in Byte
    BY ElementOfSeq
  <1>3. \A i \in 1 .. n + 1 : e[i] \in Byte
    <2> HIDE DEF e, n
    <2> QED BY <1>1, ElementOfSeq
  <1>4. \A i \in 1 .. n : Kept(d, i) \in Seq(Byte)
    BY <1>2 DEF Kept
  <1>5. \A i \in 1 .. n + 1 : Kept(e, i) \in Seq(Byte)
    <2> HIDE DEF e, n
    <2> QED BY <1>3 DEF Kept
  <1>6. \A i \in 1 .. n : Kept(e, i) = Kept(d, i)
    <2> HIDE DEF e, n
    <2> TAKE i \in 1 .. n
    <2>1. e[i] = d[i]
      BY <1>1
    <2>2. i > 1 => e[i - 1] = d[i - 1]
      BY <1>1
    <2> QED BY <2>1, <2>2 DEF Kept
  <1>7. Kept(e, n + 1) = IF c = NUL /\ EndsCR(d) THEN <<>> ELSE <<c>>
    <2>1. d # <<>> <=> n + 1 > 1
      BY EmptySeq
    <2>2. n + 1 > 1 => e[(n + 1) - 1] = d[n]
      <3> HIDE DEF e, n
      <3> QED BY <1>1
    <2>3. EndsCR(d) <=> n + 1 > 1 /\ e[(n + 1) - 1] = CR
      <3> HIDE DEF e
      <3> QED BY <2>1, <2>2 DEF EndsCR
    <2> HIDE DEF e, n
    <2> QED BY <1>1, <2>3 DEF Kept
  <1>8. f \in [1 .. n -> Seq(Byte)] /\ g \in [1 .. n + 1 -> Seq(Byte)]
    <2> HIDE DEF n, e
    <2> QED BY <1>4, <1>5
  <1>9. \A i \in 1 .. n : g[i] = f[i]
    <2> HIDE DEF n, e
    <2> QED BY <1>1, <1>6
  <1>10. g[n + 1] = Kept(e, n + 1)
    <2> HIDE DEF n, e
    <2> QED BY <1>1
  <1>11. BareCR(d) = FlattenSeq(f)
    BY DEF BareCR
  <1>12. BareCR(e) = FlattenSeq(g)
    <2>1. 1 .. Len(e) = 1 .. n + 1
      BY <1>1
    <2> HIDE DEF e, n
    <2> QED BY <2>1 DEF BareCR
  <1> HIDE DEF f, g, e, n
  <1>13. f \in Seq(Seq(Byte)) /\ g = Append(f, g[n + 1])
    BY <1>1, <1>8, <1>9, OneMore
  <1>14. g[n + 1] \in Seq(Byte)
    BY <1>1, <1>8
  <1>15. FlattenSeq(f) \in Seq(Byte) /\ FlattenSeq(g) = FlattenSeq(f) \o g[n + 1]
    BY <1>13, <1>14, FlattenAppend, FlattenType
  <1>16. BareCR(e) = BareCR(d) \o (IF c = NUL /\ EndsCR(d) THEN <<>> ELSE <<c>>)
    BY <1>7, <1>10, <1>11, <1>12, <1>15
  <1>17. BareCR(d) \in Seq(Byte)
    BY <1>11, <1>15
  <1>18. CASE c = NUL /\ EndsCR(d)
    <2>1. BareCR(e) = BareCR(d) \o <<>>
      BY <1>16, <1>18
    <2>2. BareCR(d) \o <<>> = BareCR(d)
      BY <1>17, ConcatEmptySeq
    <2> QED BY <1>17, <1>18, <2>1, <2>2 DEF e
  <1>19. CASE ~(c = NUL /\ EndsCR(d))
    <2>1. BareCR(e) = BareCR(d) \o <<c>>
      BY <1>16, <1>19
    <2>2. BareCR(d) \o <<c>> = Append(BareCR(d), c)
      BY <1>17, AppendIsConcat
    <2> QED BY <1>17, <1>19, <2>1, <2>2 DEF e
  <1> QED BY <1>18, <1>19

------------------------------------------------------------------------------
(* The four kinds of frame.                                                *)

LEMMA CommandIs ==
  ASSUME NEW v \in Verbs, NEW o \in Byte
  PROVE  /\ Command(v, o) \in Seq(Byte) /\ Reads(Command(v, o), <<>>)
         /\ IsCommand(Command(v, o)) /\ ~IsSizeFrame(Command(v, o))
         /\ Command(v, o)[2] = v /\ Command(v, o)[3] = o
  <1>1. v \in Byte /\ IAC \in Byte /\ v # SB
    BY BytesAre
  <1> DEFINE f == <<IAC, v, o>>
  <1>2. f \in Seq(Byte) /\ Len(f) = 3 /\ f[1] = IAC /\ f[2] = v /\ f[3] = o
    BY <1>1
  <1>3. f = Command(v, o)
    BY DEF Command
  <1> HIDE DEF f
  <1>4. IsCommand(f) /\ ~IsSizeFrame(f)
    BY <1>1, <1>2 DEF IsCommand, IsSizeFrame
  <1>5. Reads(Command(v, o), <<>>)
    BY ReadsCommand
  <1> QED BY <1>2, <1>3, <1>4, <1>5

(* A subnegotiation frame of the program.                                  *)
Holds(f, p) == p # <<>> => SubSeq(f, 4, Len(f) - 2) = p

LEMMA SubnegIs ==
  ASSUME NEW o \in Byte, NEW p, Payload(p), NEW f, f = Begins(o, p) \o <<IAC, SE>>
  PROVE  /\ f \in Seq(Byte) /\ Reads(f, <<>>) /\ ~IsCommand(f)
         /\ f[1] = IAC /\ f[2] = SB /\ f[3] = o
         /\ Len(f) = Len(p) + 5 /\ Len(p) \in Nat
         /\ Holds(f, p)
  <1> DEFINE b == Begins(o, p)
             e == <<IAC, SE>>
  <1>1. p \in Seq(Byte) /\ IAC \in Byte /\ SB \in Byte /\ SE \in Byte /\ SE # IAC /\ SB \notin Verbs
    BY BytesAre DEF Payload
  <1>2. /\ b \in Seq(Byte) /\ Len(p) \in Nat /\ Len(b) = 3 + Len(p)
        /\ b[1] = IAC /\ b[2] = SB /\ From(b, 4) = p
    BY <1>1, First3 DEF Begins
  <1>3. b[3] = o
    <2> DEFINE h == <<IAC, SB, o>>
    <2>1. h \in Seq(Byte) /\ Len(h) = 3 /\ h[3] = o
      BY <1>1
    <2>2. b = h \o p
      BY DEF Begins
    <2> HIDE DEF h, b
    <2>3. h \in Seq(Byte) /\ p \in Seq(Byte)
      BY <1>1, <2>1
    <2>4. /\ h \o p \in Seq(Byte) /\ Len(h \o p) = Len(h) + Len(p)
          /\ \A i \in 1 .. Len(h) : (h \o p)[i] = h[i]
      BY <2>3, FirstOf
    <2> QED BY <2>1, <2>2, <2>4
  <1>4. e \in Seq(Byte) /\ Len(e) = 2
    BY <1>1
  <1>5. Reads(f, <<>>)
    BY <1>1, ReadsSubneg
  <1> HIDE DEF b, e
  <1>6. f = b \o e
    BY DEF b, e
  <1>7. /\ f \in Seq(Byte) /\ Len(f) = Len(b) + 2
        /\ \A i \in 1 .. Len(b) : f[i] = b[i]
    <2>1. b \in Seq(Byte) /\ e \in Seq(Byte)
      BY <1>2, <1>4
    <2>2. /\ b \o e \in Seq(Byte) /\ Len(b \o e) = Len(b) + Len(e)
          /\ \A i \in 1 .. Len(b) : (b \o e)[i] = b[i]
      BY <2>1, FirstOf
    <2> QED BY <1>4, <1>6, <2>2
  <1>8. f[1] = IAC /\ f[2] = SB /\ f[3] = o /\ Len(f) = Len(p) + 5
    BY <1>2, <1>3, <1>7
  <1>9. ~IsCommand(f)
    BY <1>1, <1>8 DEF IsCommand
  <1>10. ASSUME p # <<>> PROVE SubSeq(f, 4, Len(f) - 2) = p
    <2>1. Len(p) > 0
      BY <1>1, <1>10, EmptySeq
    <2> DEFINE k == 4
               n == Len(b)
    <2>2. k \in 1 .. n /\ n \in 1 .. n /\ Len(f) - 2 = n
      BY <1>2, <1>7, <2>1
    <2>3. k = 4 /\ n = Len(b)
      OBVIOUS
    <2> HIDE DEF k, n
    <2>4. SubSeq(b \o e, k, n) = SubSeq(b, k, n)
      BY <1>2, <1>4, <2>2, <2>3, SubSeqOfConcat1
    <2>5. SubSeq(b, k, n) = p
      BY <1>2, <2>3 DEF From
    <2> QED BY <1>6, <2>2, <2>3, <2>4, <2>5
  <1> QED BY <1>2, <1>5, <1>7, <1>8, <1>9, <1>10 DEF Holds

LEMMA NawsIs ==
  ASSUME NEW sz \in RealSize
  PROVE  /\ NawsFrame(sz) \in Seq(Byte) /\ Reads(NawsFrame(sz), <<>>)
         /\ ~IsCommand(NawsFrame(sz)) /\ SizeOf(NawsFrame(sz)) = sz
  <1> DEFINE p == SizePayload(sz)
             d == SizeBytes(sz)
             f == NawsFrame(sz)
  <1>1. Reads(p, d) /\ Payload(p)
    BY SizePayloadReads
  <1>2. f = Begins(NAWS, p) \o <<IAC, SE>>
    BY DEF NawsFrame, Begins, SizePayload
  <1>3. d \in [1 .. 4 -> Byte] /\ sz[1] \in 1 .. MaxDim /\ sz[2] \in 1 .. MaxDim
    BY SizeBytesType
  <1>4. sz = <<sz[1], sz[2]>>
    BY SizeBytesType
  <1>5. /\ d[1] * 256 + d[2] = sz[1]
        /\ d[3] * 256 + d[4] = sz[2]
    <2>1. /\ d[1] = sz[1] \div 256 /\ d[2] = sz[1] % 256
          /\ d[3] = sz[2] \div 256 /\ d[4] = sz[2] % 256
      BY DEF SizeBytes
    <2>2. (sz[1] \div 256) * 256 + (sz[1] % 256) = sz[1]
      BY <1>3, ByteSplit
    <2>3. (sz[2] \div 256) * 256 + (sz[2] % 256) = sz[2]
      BY <1>3, ByteSplit
    <2> HIDE DEF d
    <2> QED BY <2>1, <2>2, <2>3
  <1> HIDE DEF p, d, f
  <1>6. DataOf[p] = d
    BY <1>1, ReadsData
  <1>7. p # <<>>
    <2>1. DataOf[<<>>] = <<>>
      BY ReadsNothing, ReadsData
    <2>2. 4 \in Nat
      OBVIOUS
    <2>3. Len(d) = 4
      <3> DEFINE n == 4
      <3>1. n \in Nat /\ d \in [1 .. n -> Byte]
        BY <1>3
      <3> HIDE DEF n
      <3>2. Len(d) = n
        BY <3>1, FcnIsSeq
      <3> QED BY <3>2 DEF n
    <2>4. Len(<<>>) = 0
      OBVIOUS
    <2>5. d # <<>>
      BY <2>3, <2>4
    <2> QED BY <1>6, <2>1, <2>5
  <1>8. NAWS \in Byte
    BY BytesAre
  <1>9. /\ f \in Seq(Byte) /\ Reads(f, <<>>) /\ ~IsCommand(f)
        /\ SubSeq(f, 4, Len(f) - 2) = p
    <2>1. Payload(p)
      BY <1>1
    <2>2. f \in Seq(Byte) /\ Reads(f, <<>>) /\ ~IsCommand(f)
      BY <1>2, <1>8, <2>1, SubnegIs
    <2>3. Holds(f, p)
      BY <1>2, <1>8, <2>1, SubnegIs
    <2> QED BY <1>7, <2>2, <2>3 DEF Holds
  <1>10. SizeOf(f) = <<d[1] * 256 + d[2], d[3] * 256 + d[4]>>
    BY <1>6, <1>9 DEF SizeOf
  <1>11. SizeOf(f) = sz
    BY <1>4, <1>5, <1>10
  <1> QED BY <1>9, <1>11 DEF f

LEMMA TTypeIs ==
  /\ TTypeFrame \in Seq(Byte) /\ Reads(TTypeFrame, <<>>)
  /\ ~IsCommand(TTypeFrame) /\ ~IsSizeFrame(TTypeFrame)
  <1> DEFINE p == <<0, 88>>
             z == 0
             x == 88
  <1>1. z \in Byte /\ x \in Byte /\ z # IAC /\ x # IAC
    BY DEF Byte, IAC
  <1>2. Payload(p) /\ p \in Seq(Byte)
    <2>1. p = <<z, x>>
      OBVIOUS
    <2> HIDE DEF p, z, x
    <2>2. Payload(<<z>>) /\ Payload(<<x>>)
      BY <1>1, PayloadByte
    <2>3. <<z>> \o <<x>> = <<z, x>>
      BY <1>1, Pair
    <2>4. Payload(p)
      BY <2>1, <2>2, <2>3, PayloadConcat
    <2> QED BY <2>4 DEF Payload
  <1> DEFINE f == Begins(TType, p) \o <<IAC, SE>>
             h == <<IAC, SB, TType>>
             e == <<IAC, SE>>
  <1>3. IAC \in Byte /\ SB \in Byte /\ SE \in Byte /\ TType \in Byte
    BY BytesAre
  <1>4. /\ h \in Seq(Byte) /\ Len(h) = 3 /\ h[1] = IAC /\ h[2] = SB /\ h[3] = TType
        /\ e \in Seq(Byte) /\ Len(e) = 2 /\ e[1] = IAC /\ e[2] = SE
        /\ Len(p) = 2 /\ p[1] = z /\ p[2] = x
    BY <1>3
  <1>5. f = (h \o p) \o e
    BY DEF Begins
  <1>6. TTypeFrame = f
    <2> DEFINE t == <<IAC, SB, TType, z, x, IAC, SE>>
    <2>1. /\ t \in Seq(Byte) /\ Len(t) = 7 /\ t[1] = IAC /\ t[2] = SB /\ t[3] = TType
          /\ t[4] = z /\ t[5] = x /\ t[6] = IAC /\ t[7] = SE
      BY <1>1, <1>3
    <2>2. TTypeFrame = t
      BY DEF TTypeFrame
    <2> HIDE DEF t, h, p, e, z, x, f
    <2> DEFINE hp == h \o p
    <2>3. /\ hp \in Seq(Byte) /\ Len(hp) = 5
          /\ \A i \in 1 .. 5 : hp[i] = IF i <= 3 THEN h[i] ELSE p[i - 3]
      <3>1. h \in Seq(Byte) /\ p \in Seq(Byte)
        BY <1>2, <1>4
      <3>2. /\ h \o p \in Seq(Byte) /\ Len(h \o p) = Len(h) + Len(p)
            /\ \A i \in 1 .. Len(h) + Len(p) : (h \o p)[i] =
                  IF i <= Len(h) THEN h[i] ELSE p[i - Len(h)]
        BY <3>1, ConcatProperties
      <3> QED BY <1>4, <3>2
    <2> HIDE DEF hp
    <2>4. /\ f \in Seq(Byte) /\ Len(f) = 7
          /\ \A i \in 1 .. 7 : f[i] = IF i <= 5 THEN hp[i] ELSE e[i - 5]
      <3>1. hp \in Seq(Byte) /\ e \in Seq(Byte)
        BY <1>4, <2>3
      <3>2. /\ hp \o e \in Seq(Byte) /\ Len(hp \o e) = Len(hp) + Len(e)
            /\ \A i \in 1 .. Len(hp) + Len(e) : (hp \o e)[i] =
                  IF i <= Len(hp) THEN hp[i] ELSE e[i - Len(hp)]
        BY <3>1, ConcatProperties
      <3>3. f = hp \o e
        BY <1>5 DEF hp
      <3> QED BY <1>4, <2>3, <3>2, <3>3
    <2>5. \A i \in 1 .. 5 : t[i] = hp[i]
      <3>1. hp[1] = h[1] /\ hp[2] = h[2] /\ hp[3] = h[3] /\ hp[4] = p[1] /\ hp[5] = p[2]
        BY <2>3
      <3> QED BY <1>4, <2>1, <3>1
    <2>6. t[6] = f[6] /\ t[7] = f[7]
      BY <1>4, <2>1, <2>4
    <2>7. \A i \in 1 .. 7 : t[i] = f[i]
      <3> TAKE i \in 1 .. 7
      <3>1. CASE i \in 1 .. 5
        BY <2>4, <2>5, <3>1
      <3>2. CASE i = 6 \/ i = 7
        BY <2>6, <3>2
      <3> QED BY <3>1, <3>2
    <2>8. t = f
      BY <2>1, <2>4, <2>7, SeqEqual
    <2> QED BY <2>2, <2>8
  <1> HIDE DEF f, p
  <1>7. f \in Seq(Byte) /\ Reads(f, <<>>) /\ ~IsCommand(f) /\ f[3] = TType
    BY <1>2, <1>3, SubnegIs DEF f
  <1>8. ~IsSizeFrame(f)
    BY <1>7 DEF IsSizeFrame, TType, NAWS
  <1> QED BY <1>6, <1>7, <1>8

(* Text begins with a byte of data: no command and no size.                *)
OpensAsData(s) == /\ s \in Seq(Byte) /\ s # <<>>
                  /\ s[1] = IAC => Len(s) > 1 /\ s[2] = IAC

LEMMA OpensConcat ==
  ASSUME NEW s, NEW t \in Seq(Byte), OpensAsData(s)
  PROVE  OpensAsData(s \o t)
  <1>1. s \in Seq(Byte) /\ s # <<>>
    BY DEF OpensAsData
  <1>2. /\ s \o t \in Seq(Byte) /\ Len(s \o t) = Len(s) + Len(t)
        /\ Len(s) \in Nat /\ Len(t) \in Nat
        /\ \A i \in 1 .. Len(s) : (s \o t)[i] = s[i]
    BY <1>1, FirstOf
  <1>3. Len(s) > 0
    BY <1>1, EmptySeq
  <1>4. s \o t # <<>>
    <2>1. Len(s \o t) > 0
      BY <1>2, <1>3
    <2>2. Len(<<>>) = 0
      OBVIOUS
    <2> QED BY <2>1, <2>2
  <1>5. (s \o t)[1] = s[1]
    BY <1>2, <1>3
  <1>6. ASSUME s[1] = IAC PROVE Len(s \o t) > 1 /\ (s \o t)[2] = IAC
    <2>1. Len(s) > 1 /\ s[2] = IAC
      BY <1>6 DEF OpensAsData
    <2> QED BY <1>2, <2>1
  <1> QED BY <1>2, <1>4, <1>5, <1>6 DEF OpensAsData

LEMMA PiecesOpen ==
  ASSUME NEW n \in Nat, n > 0, NEW f \in [1 .. n -> Seq(Byte)], OpensAsData(f[1])
  PROVE  OpensAsData(FlattenSeq(f))
  <1> DEFINE T == {k \in Nat : k + 1 <= n => OpensAsData(Strung(f, k + 1))}
  <1>1. /\ Strung(f, 0) = <<>> /\ Strung(f, n) = FlattenSeq(f)
        /\ \A k \in Nat : k + 1 <= n => Strung(f, k + 1) = Strung(f, k) \o f[k + 1]
    BY StrungGrows
  <1>2. 0 \in T
    <2>1. 0 + 1 <= n /\ 0 \in Nat /\ 0 + 1 = 1 /\ f[1] \in Seq(Byte)
      OBVIOUS
    <2>2. Strung(f, 0 + 1) = <<>> \o f[1]
      BY <1>1, <2>1
    <2>3. <<>> \o f[1] = f[1]
      BY <2>1, ConcatEmptySeq
    <2> QED BY <2>2, <2>3
  <1>3. ASSUME NEW k \in Nat, k \in T PROVE k + 1 \in T
    <2> SUFFICES ASSUME (k + 1) + 1 <= n PROVE OpensAsData(Strung(f, (k + 1) + 1))
      OBVIOUS
    <2>1. k + 1 \in Nat /\ k + 1 <= n
      OBVIOUS
    <2>2. OpensAsData(Strung(f, k + 1))
      BY <1>3, <2>1
    <2>3. Strung(f, (k + 1) + 1) = Strung(f, k + 1) \o f[(k + 1) + 1]
      BY <1>1, <2>1
    <2>4. f[(k + 1) + 1] \in Seq(Byte)
      BY <2>1
    <2> HIDE DEF T
    <2> QED BY <2>2, <2>3, <2>4, OpensConcat
  <1> HIDE DEF T
  <1>4. Nat \subseteq T
    BY <1>2, <1>3, AllOfNat
  <1>5. OpensAsData(Strung(f, n))
    <2> DEFINE k == n - 1
    <2>1. k \in Nat /\ k + 1 = n
      OBVIOUS
    <2> HIDE DEF k
    <2>2. k \in T /\ k + 1 <= n
      BY <1>4, <2>1
    <2>3. OpensAsData(Strung(f, k + 1))
      BY <2>2 DEF T
    <2> QED BY <2>1, <2>3
  <1> QED BY <1>1, <1>5

LEMMA TextIs ==
  ASSUME NEW p \in Seq(Byte)
  PROVE  /\ TransformWrite(p) \in Seq(Byte) /\ Reads(TransformWrite(p), Newlines(p))
         /\ ~IsCommand(TransformWrite(p)) /\ ~IsSizeFrame(TransformWrite(p))
  <1> DEFINE n == Len(p)
             f == [i \in 1 .. n |-> WirePiece(p, i)]
             w == TransformWrite(p)
  <1>1. n \in Nat /\ \A i \in 1 .. n : p[i] \in Byte
    BY LenProperties
  <1>2. Reads(w, Newlines(p)) /\ w \in Seq(Byte)
    BY TransformReads DEF Reads
  <1>3. CASE n = 0
    <2>1. p = <<>>
      BY <1>3, EmptySeq
    <2>2. w = FlattenSeq(f)
      BY DEF TransformWrite
    <2>3. f = <<>>
      BY <1>3
    <2>4. w = <<>>
      BY <2>2, <2>3, FlattenEmpty
    <2>5. Len(w) = 0
      BY <2>4
    <2>6. ~IsCommand(w) /\ ~IsSizeFrame(w)
      BY <2>5 DEF IsCommand, IsSizeFrame
    <2> QED BY <1>2, <2>6
  <1>4. CASE n > 0
    <2>1. \A i \in 1 .. n : WirePiece(p, i) \in Seq(Byte)
      <3> TAKE i \in 1 .. n
      <3>1. CASE crlf /\ p[i] = CR
        BY <1>1, <3>1, BytesAre DEF WirePiece
      <3>2. CASE ~crlf \/ p[i] # CR
        BY <1>1, <3>2, DoubledReads DEF WirePiece
      <3> QED BY <3>1, <3>2
    <2>2. f \in [1 .. n -> Seq(Byte)] /\ f[1] = WirePiece(p, 1)
      BY <1>1, <1>4, <2>1
    <2>3. OpensAsData(f[1])
      <3>1. CR # IAC /\ CR \in Byte /\ LF \in Byte /\ IAC \in Byte
        BY BytesAre DEF CR, IAC
      <3>2. p[1] \in Byte
        BY <1>1, <1>4
      <3>3. CASE crlf /\ p[1] = CR
        <4>1. f[1] = <<CR>> \/ f[1] = <<CR, LF>>
          BY <2>2, <3>3 DEF WirePiece
        <4>2. OpensAsData(<<CR>>) /\ OpensAsData(<<CR, LF>>)
          BY <3>1 DEF OpensAsData
        <4> QED BY <4>1, <4>2
      <3>4. CASE ~crlf \/ p[1] # CR
        <4>1. f[1] = Doubled(p[1])
          BY <2>2, <3>4 DEF WirePiece
        <4>2. CASE p[1] = IAC
          <5>1. f[1] = <<IAC, IAC>>
            BY <4>1, <4>2 DEF Doubled
          <5>2. OpensAsData(<<IAC, IAC>>)
            BY <3>1 DEF OpensAsData
          <5> QED BY <5>1, <5>2
        <4>3. CASE p[1] # IAC
          <5>1. f[1] = <<p[1]>>
            BY <4>1, <4>3 DEF Doubled
          <5>2. OpensAsData(<<p[1]>>)
            BY <3>2, <4>3 DEF OpensAsData
          <5> QED BY <5>1, <5>2
        <4> QED BY <4>2, <4>3
      <3> QED BY <3>3, <3>4
    <2>4. w = FlattenSeq(f)
      BY DEF TransformWrite
    <2> HIDE DEF f, n, w
    <2>5. OpensAsData(w)
      BY <1>1, <1>4, <2>2, <2>3, <2>4, PiecesOpen
    <2>6. ~IsCommand(w) /\ ~IsSizeFrame(w)
      BY <2>5, BytesAre DEF OpensAsData, IsCommand, IsSizeFrame
    <2> QED BY <1>2, <2>6 DEF w
  <1> QED BY <1>1, <1>3, <1>4

------------------------------------------------------------------------------
(* The wire carries what was written and the sizes that were set.          *)
Carried(texts) == FlattenSeq([i \in 1 .. Len(texts) |-> Newlines(texts[i])])
WireSound == /\ wire \in Seq(Seq(Byte)) /\ written \in Seq(Seq(Byte))
             /\ Reads(FlattenSeq(wire), Carried(written))
             /\ \A i \in 1 .. Len(wire) : IsSizeFrame(wire[i]) => SizeOf(wire[i]) \in RealSize

(* How the connection was opened does not change.                          *)
LEMMA NewlinesStay ==
  ASSUME crlf' = crlf, NEW p
  PROVE  Newlines(p)' = Newlines(p)
  <1>1. \A i : Typed(p, i)' = Typed(p, i)
    BY DEF Typed, CR, LF
  <1> QED BY <1>1 DEF Newlines

LEMMA CarriedStay ==
  ASSUME crlf' = crlf, NEW texts
  PROVE  Carried(texts)' = Carried(texts)
  <1>1. \A p : Newlines(p)' = Newlines(p)
    BY NewlinesStay
  <1> QED BY <1>1 DEF Carried

LEMMA CarriedNow ==
  ASSUME crlf' = crlf
  PROVE  Carried(written)' = Carried(written')
  BY DEF Carried, Newlines, Typed

LEMMA PiecesReadNothing ==
  ASSUME NEW n \in Nat, NEW f \in [1 .. n -> Seq(Byte)],
         \A i \in 1 .. n : Reads(f[i], <<>>)
  PROVE  Reads(FlattenSeq(f), <<>>)
  <1> DEFINE T == {k \in Nat : k <= n => Reads(Strung(f, k), <<>>)}
  <1>1. /\ Strung(f, 0) = <<>> /\ Strung(f, n) = FlattenSeq(f)
        /\ \A k \in Nat : k + 1 <= n => Strung(f, k + 1) = Strung(f, k) \o f[k + 1]
    BY StrungGrows
  <1>2. 0 \in T
    BY <1>1, ReadsNothing
  <1>3. ASSUME NEW k \in Nat, k \in T PROVE k + 1 \in T
    <2> SUFFICES ASSUME k + 1 <= n PROVE Reads(Strung(f, k + 1), <<>>)
      OBVIOUS
    <2>1. Reads(Strung(f, k), <<>>)
      BY <1>3
    <2>2. Reads(f[k + 1], <<>>) /\ Strung(f, k + 1) = Strung(f, k) \o f[k + 1]
      BY <1>1
    <2> HIDE DEF T
    <2>3. Reads(Strung(f, k) \o f[k + 1], <<>> \o <<>>)
      BY <2>1, <2>2, ReadsConcat
    <2>4. <<>> \in Seq(Byte)
      BY BytesAre
    <2>5. <<>> \o <<>> = <<>>
      BY <2>4, ConcatEmptySeq
    <2> QED BY <2>2, <2>3, <2>5
  <1> HIDE DEF T
  <1>4. Nat \subseteq T
    BY <1>2, <1>3, AllOfNat
  <1>5. n \in T
    BY <1>4
  <1> QED BY <1>1, <1>5 DEF T

LEMMA WireStays ==
  ASSUME WireSound, crlf' = crlf, wire' = wire, written' = written
  PROVE  WireSound'
  <1>1. Carried(written)' = Carried(written)
    BY CarriedNow
  <1> QED BY <1>1 DEF WireSound

(* A frame that carries nothing of what was typed.                         *)
LEMMA SaysNothing ==
  ASSUME WireSound, NEW f \in Seq(Byte), Reads(f, <<>>),
         IsSizeFrame(f) => SizeOf(f) \in RealSize,
         Out(f), written' = written, crlf' = crlf
  PROVE  WireSound'
  <1>1. CASE wire' = wire
    BY <1>1, WireStays
  <1>2. CASE wire' = Append(wire, f)
    <2> DEFINE n == Len(wire)
    <2>1. wire \in Seq(Seq(Byte)) /\ n \in Nat
      BY LenProperties DEF WireSound
    <2>2. /\ wire' \in Seq(Seq(Byte)) /\ Len(wire') = n + 1 /\ wire'[n + 1] = f
          /\ \A i \in 1 .. n : wire'[i] = wire[i]
      BY <1>2, <2>1, AppendProperties
    <2>3. FlattenSeq(wire') = FlattenSeq(wire) \o f
      BY <1>2, <2>1, FlattenAppend
    <2>4. Reads(FlattenSeq(wire'), Carried(written))
      <3>1. Reads(FlattenSeq(wire), Carried(written))
        BY DEF WireSound
      <3>2. Reads(FlattenSeq(wire) \o f, Carried(written) \o <<>>)
        BY <3>1, ReadsConcat
      <3>3. Carried(written) \in Seq(Byte)
        BY <3>1 DEF Reads
      <3>4. Carried(written) \o <<>> = Carried(written)
        BY <3>3, ConcatEmptySeq
      <3> QED BY <2>3, <3>2, <3>4
    <2>5. ASSUME NEW i \in 1 .. n + 1, IsSizeFrame(wire'[i]) PROVE SizeOf(wire'[i]) \in RealSize
      <3>1. CASE i = n + 1
        BY <2>2, <2>5, <3>1
      <3>2. CASE i \in 1 .. n
        BY <2>2, <2>5, <3>2 DEF WireSound
      <3> QED BY <2>1, <3>1, <3>2
    <2>6. written \in Seq(Seq(Byte))
      BY DEF WireSound
    <2> HIDE DEF n
    <2>7. \A i \in 1 .. Len(wire') : IsSizeFrame(wire'[i]) => SizeOf(wire'[i]) \in RealSize
      BY <2>2, <2>5
    <2>8. Carried(written)' = Carried(written)
      BY CarriedNow
    <2> QED BY <2>2, <2>4, <2>6, <2>7, <2>8 DEF WireSound
  <1> QED BY <1>1, <1>2 DEF Out

LEMMA CarriedGrows ==
  ASSUME NEW w \in Seq(Seq(Byte)), NEW p \in Seq(Byte)
  PROVE  Carried(Append(w, p)) = Carried(w) \o Newlines(p)
  <1> DEFINE n == Len(w)
             x == Append(w, p)
             f == [i \in 1 .. n |-> Newlines(w[i])]
             g == [i \in 1 .. n + 1 |-> Newlines(x[i])]
  <1>1. /\ n \in Nat /\ x \in Seq(Seq(Byte)) /\ Len(x) = n + 1 /\ x[n + 1] = p
        /\ \A i \in 1 .. n : x[i] = w[i]
    BY AppendProperties, LenProperties
  <1>2. \A q \in Seq(Byte) : Newlines(q) \in Seq(Byte)
    BY TransformReads DEF Reads
  <1>3. f \in [1 .. n -> Seq(Byte)] /\ g \in [1 .. n + 1 -> Seq(Byte)]
    <2>1. \A i \in 1 .. n : w[i] \in Seq(Byte)
      BY ElementOfSeq
    <2> HIDE DEF x, n
    <2>2. \A i \in 1 .. n + 1 : x[i] \in Seq(Byte)
      BY <1>1, ElementOfSeq
    <2> QED BY <1>2, <2>1, <2>2
  <1>4. /\ \A i \in 1 .. n : g[i] = f[i]
        /\ g[n + 1] = Newlines(p)
    <2> HIDE DEF x, n
    <2> QED BY <1>1
  <1>5. Carried(w) = FlattenSeq(f) /\ Carried(x) = FlattenSeq(g)
    <2>1. 1 .. Len(x) = 1 .. n + 1
      BY <1>1
    <2> HIDE DEF x
    <2> QED BY <2>1 DEF Carried
  <1> HIDE DEF f, g, n
  <1>6. f \in Seq(Seq(Byte)) /\ g = Append(f, g[n + 1])
    BY <1>1, <1>3, <1>4, OneMore
  <1>7. g = Append(f, Newlines(p)) /\ Newlines(p) \in Seq(Byte)
    BY <1>2, <1>4, <1>6
  <1>8. FlattenSeq(g) = FlattenSeq(f) \o Newlines(p)
    BY <1>6, <1>7, FlattenAppend
  <1> QED BY <1>5, <1>8

LEMMA SaysText ==
  ASSUME WireSound, NEW p \in Seq(Byte),
         wire' = Append(wire, TransformWrite(p)), written' = Append(written, p), crlf' = crlf
  PROVE  WireSound'
  <1> DEFINE n == Len(wire)
             f == TransformWrite(p)
  <1>1. f \in Seq(Byte) /\ Reads(f, Newlines(p)) /\ ~IsSizeFrame(f)
    BY TextIs
  <1> HIDE DEF f
  <1>2. wire \in Seq(Seq(Byte)) /\ n \in Nat /\ written \in Seq(Seq(Byte)) /\ wire' = Append(wire, f)
    BY LenProperties DEF WireSound, f
  <1>3. /\ wire' \in Seq(Seq(Byte)) /\ Len(wire') = n + 1 /\ wire'[n + 1] = f
        /\ \A i \in 1 .. n : wire'[i] = wire[i]
    BY <1>1, <1>2, AppendProperties
  <1>4. FlattenSeq(wire') = FlattenSeq(wire) \o f
    BY <1>1, <1>2, FlattenAppend
  <1>5. Carried(written') = Carried(written) \o Newlines(p)
    BY <1>2, CarriedGrows
  <1>6. Reads(FlattenSeq(wire'), Carried(written'))
    <2>1. Reads(FlattenSeq(wire), Carried(written))
      BY DEF WireSound
    <2>2. Reads(FlattenSeq(wire) \o f, Carried(written) \o Newlines(p))
      BY <1>1, <2>1, ReadsConcat
    <2> QED BY <1>4, <1>5, <2>2
  <1>7. written' \in Seq(Seq(Byte))
    BY <1>2, AppendProperties
  <1>8. ASSUME NEW i \in 1 .. n + 1, IsSizeFrame(wire'[i]) PROVE SizeOf(wire'[i]) \in RealSize
    <2>1. CASE i = n + 1
      BY <1>1, <1>3, <1>8, <2>1
    <2>2. CASE i \in 1 .. n
      BY <1>3, <1>8, <2>2 DEF WireSound
    <2> QED BY <1>2, <2>1, <2>2
  <1> HIDE DEF n
  <1>9. \A i \in 1 .. Len(wire') : IsSizeFrame(wire'[i]) => SizeOf(wire'[i]) \in RealSize
    BY <1>3, <1>8
  <1>10. Carried(written)' = Carried(written')
    BY CarriedNow
  <1> QED BY <1>3, <1>6, <1>7, <1>9, <1>10 DEF WireSound

------------------------------------------------------------------------------
(* The application has what whole items carried; what is left of the       *)
(* stream is an item that is not over.                                     *)
Negotiating == {"will", "wont", "do", "dont"}
States == Negotiating \cup {"data", "iac", "sb", "sbData", "sbIac"}
Pending(st, tail) ==
  \/ st = "data" /\ tail = <<>>
  \/ st = "iac" /\ tail = <<IAC>>
  \/ st \in Negotiating /\ tail = <<IAC, VerbOf(st)>>
  \/ st = "sb" /\ tail = <<IAC, SB>>
  \/ st = "sbData" /\ \E o \in Byte, p \in Seq(Byte) : Payload(p) /\ tail = Begins(o, p)
  \/ st = "sbIac" /\ \E o \in Byte, p \in Seq(Byte) : Payload(p) /\ tail = Begins(o, p) \o <<IAC>>

(* cons is whole items that carry d, then tail.                            *)
SoFar(cons, d, tail) == \E base : Reads(base, d) /\ cons = base \o tail
Delivered(st, cons, out, cr) ==
  \E tail \in Seq(Byte), d \in Seq(Byte) :
    SoFar(cons, d, tail) /\ Pending(st, tail) /\ out = BareCR(d) /\ cr = EndsCR(d)
ReadSound == /\ inbound \in Seq(Byte) /\ state \in States
             /\ Delivered(state, consumed, got, prevCR)

LEMMA Regroup ==
  ASSUME NEW s, NEW t, NEW u, s \in Seq(Byte) /\ t \in Seq(Byte) /\ u \in Seq(Byte)
  PROVE  (s \o t) \o u = s \o (t \o u)
  BY ConcatAssociative

LEMMA SoFarGrows ==
  ASSUME NEW cons, NEW d, NEW tail \in Seq(Byte), SoFar(cons, d, tail), NEW c \in Byte
  PROVE  SoFar(Append(cons, c), d, tail \o <<c>>)
  <1>1. PICK base : Reads(base, d) /\ cons = base \o tail
    BY DEF SoFar
  <1>2. base \in Seq(Byte) /\ <<c>> \in Seq(Byte)
    BY <1>1 DEF Reads
  <1>3. base \o tail \in Seq(Byte)
    BY <1>2, ConcatProperties
  <1>4. Append(cons, c) = (base \o tail) \o <<c>>
    BY <1>1, <1>3, AppendIsConcat
  <1>5. (base \o tail) \o <<c>> = base \o (tail \o <<c>>)
    BY <1>2, ConcatAssociative
  <1> QED BY <1>1, <1>4, <1>5 DEF SoFar

LEMMA SoFarEnds ==
  ASSUME NEW cons, NEW d, NEW tail \in Seq(Byte), SoFar(cons, d, tail), NEW e, Reads(tail, e)
  PROVE  SoFar(cons, d \o e, <<>>)
  <1>1. PICK base : Reads(base, d) /\ cons = base \o tail
    BY DEF SoFar
  <1>2. Reads(base \o tail, d \o e)
    BY <1>1, ReadsConcat
  <1>3. base \o tail \in Seq(Byte)
    BY <1>2 DEF Reads
  <1>4. (base \o tail) \o <<>> = base \o tail
    BY <1>3, ConcatEmptySeq
  <1>5. cons = (base \o tail) \o <<>>
    BY <1>1, <1>4
  <1> QED BY <1>2, <1>5 DEF SoFar

(* Nothing is owed of an item that is not over.                            *)
LEMMA PendingCarriesNothing ==
  ASSUME NEW st, NEW tail \in Seq(Byte), Pending(st, tail), st \in States
  PROVE  DataOf[tail] = <<>>
  <1>1. /\ IAC \in Byte /\ SB \in Byte /\ SB # IAC /\ IAC \notin Verbs /\ SB \notin Verbs
        /\ <<>> \in Seq(Byte)
    BY BytesAre
  <1>2. DataOf[<<>>] = <<>>
    BY ReadsNothing, ReadsData
  <1>3. AfterSubneg[<<>>] = <<>>
    <2>1. Len(<<>>) < 2
      OBVIOUS
    <2> QED BY <1>1, <2>1, AfterSubnegIs
  <1>4. ASSUME tail # <<>>, tail[1] = IAC, Len(tail) > 1 => tail[2] # IAC, Following(tail) = <<>>
        PROVE  DataOf[tail] = <<>>
    <2>1. Carries(tail) = <<>>
      BY <1>4 DEF Carries
    <2>2. DataOf[tail] = <<>> \o DataOf[<<>>]
      BY <1>4, <2>1, DataOfIs
    <2>3. <<>> \o <<>> = <<>>
      BY <1>1, ConcatEmptySeq
    <2> QED BY <1>2, <2>2, <2>3
  <1>5. CASE tail = <<>>
    BY <1>2, <1>5
  <1>6. CASE tail = <<IAC>>
    <2> DEFINE s == <<IAC>>
    <2>1. Len(s) = 1 /\ s[1] = IAC /\ s # <<>>
      OBVIOUS
    <2>2. tail = s
      BY <1>6
    <2> HIDE DEF s
    <2>3. Following(s) = <<>>
      BY <2>1 DEF Following
    <2>4. tail # <<>> /\ tail[1] = IAC /\ ~(Len(tail) > 1) /\ Following(tail) = <<>>
      <3>1. ~(Len(s) > 1)
        BY <2>1
      <3>2. Following(tail) = <<>>
        BY <2>2, <2>3, Zenon
      <3>3. tail # <<>> /\ tail[1] = IAC /\ ~(Len(tail) > 1)
        BY <2>1, <2>2, <3>1, Zenon
      <3> QED BY <3>2, <3>3
    <2> QED BY <1>4, <2>4
  <1>7. ASSUME NEW v \in Byte, v \in Verbs \cup {SB}, tail = <<IAC, v>>
        PROVE  DataOf[tail] = <<>>
    <2> DEFINE s == <<IAC, v>>
    <2>1. Len(s) = 2 /\ s[1] = IAC /\ s[2] = v /\ s # <<>>
      OBVIOUS
    <2>2. tail = s
      BY <1>7
    <2> HIDE DEF s
    <2>3. From(s, 4) = <<>>
      BY <2>1, SubSeqEmpty DEF From
    <2>4. Following(s) = <<>>
      BY <1>1, <1>3, <1>7, <2>1, <2>3 DEF Following
    <2>5. v # IAC
      BY <1>1, <1>7
    <2> QED BY <1>4, <2>1, <2>2, <2>4, <2>5
  <1>8. ASSUME NEW o \in Byte, NEW q \in Seq(Byte), AfterSubneg[q] = <<>>, tail = Begins(o, q)
        PROVE  DataOf[tail] = <<>>
    <2>1. /\ Len(tail) = 3 + Len(q) /\ Len(q) \in Nat
          /\ tail[1] = IAC /\ tail[2] = SB /\ From(tail, 4) = q
      BY <1>1, <1>8, First3 DEF Begins
    <2>2. tail # <<>>
      <3>1. Len(<<>>) = 0
        OBVIOUS
      <3> QED BY <2>1, <3>1
    <2>3. Following(tail) = <<>>
      BY <1>1, <1>8, <2>1 DEF Following
    <2> QED BY <1>1, <1>4, <2>1, <2>2, <2>3
  <1>9. ASSUME NEW o \in Byte, NEW p \in Seq(Byte), Payload(p), tail = Begins(o, p)
        PROVE  DataOf[tail] = <<>>
    <2>1. AfterSubneg[p \o <<>>] = AfterSubneg[<<>>]
      BY <1>1, <1>9 DEF Payload
    <2>2. p \o <<>> = p
      BY <1>9, ConcatEmptySeq
    <2>3. AfterSubneg[p] = <<>>
      BY <1>3, <2>1, <2>2
    <2> QED BY <1>8, <1>9, <2>3
  <1>10. ASSUME NEW o \in Byte, NEW p \in Seq(Byte), Payload(p), tail = Begins(o, p) \o <<IAC>>
         PROVE  DataOf[tail] = <<>>
    <2> DEFINE h == <<IAC, SB, o>>
               e == <<IAC>>
    <2>1. h \in Seq(Byte) /\ e \in Seq(Byte) /\ Len(e) = 1
      BY <1>1, <1>10
    <2>2. tail = (h \o p) \o e
      BY <1>10 DEF Begins
    <2>3. Begins(o, p \o e) = h \o (p \o e)
      BY DEF Begins
    <2> HIDE DEF h, e
    <2>4. (h \o p) \o e = h \o (p \o e)
      <3>1. h \in Seq(Byte) /\ p \in Seq(Byte) /\ e \in Seq(Byte)
        BY <1>10, <2>1
      <3> QED BY <3>1, Regroup
    <2>5. tail = Begins(o, p \o e)
      BY <2>2, <2>3, <2>4
    <2>6. AfterSubneg[p \o e] = AfterSubneg[e]
      BY <1>10, <2>1 DEF Payload
    <2>7. AfterSubneg[e] = <<>>
      <3>1. Len(e) < 2
        BY <2>1
      <3> QED BY <2>1, <3>1, AfterSubnegIs
    <2>8. p \o e \in Seq(Byte)
      BY <1>10, <2>1, ConcatProperties
    <2> QED BY <1>8, <2>5, <2>6, <2>7, <2>8
  <1>11. ASSUME st \in Negotiating PROVE VerbOf(st) \in Verbs /\ VerbOf(st) \in Byte
    <2>1. VerbOf(st) \in Verbs
      BY <1>11 DEF Negotiating, VerbOf, Verbs
    <2> QED BY <2>1, BytesAre
  <1>12. CASE st \in Negotiating /\ tail = <<IAC, VerbOf(st)>>
    BY <1>7, <1>11, <1>12
  <1>13. CASE tail = <<IAC, SB>>
    BY <1>1, <1>7, <1>13
  <1> QED BY <1>5, <1>6, <1>9, <1>10, <1>12, <1>13 DEF Pending

(* A byte of data is passed on, or is the NUL after a CR.                  *)
LEMMA Emits ==
  ASSUME NEW d \in Seq(Byte), NEW c \in Byte, got = BareCR(d), prevCR = EndsCR(d), EmitByte(c)
  PROVE  got' = BareCR(d \o <<c>>) /\ prevCR' = EndsCR(d \o <<c>>) /\ prevCR' \in BOOLEAN
  <1>1. d \o <<c>> = Append(d, c)
    BY AppendIsConcat
  <1> DEFINE x == Append(d, c)
  <1>2. EndsCR(x) <=> c = CR
    <2>1. x \in Seq(Byte) /\ x # <<>> /\ Len(x) = Len(d) + 1 /\ x[Len(d) + 1] = c
      BY AppendProperties
    <2> HIDE DEF x
    <2> QED BY <2>1 DEF EndsCR
  <1>3. BareCR(x) = IF c = NUL /\ EndsCR(d) THEN BareCR(d) ELSE Append(BareCR(d), c)
    BY BareCRAppend
  <1>4. EndsCR(x) \in BOOLEAN /\ (c = CR) \in BOOLEAN
    BY DEF EndsCR
  <1> HIDE DEF x
  <1>5. CASE c = NUL /\ EndsCR(d)
    <2>1. prevCR /\ c = NUL
      BY <1>5
    <2>2. prevCR' = FALSE /\ got' = got
      BY <2>1 DEF EmitByte
    <2>3. ~EndsCR(x)
      BY <1>2, <1>5 DEF CR, NUL
    <2>4. EndsCR(x) = FALSE
      BY <1>4, <2>3
    <2>5. BareCR(x) = BareCR(d)
      BY <1>3, <1>5
    <2> QED BY <1>1, <2>2, <2>4, <2>5 DEF x
  <1>6. CASE ~(c = NUL /\ EndsCR(d))
    <2>1. ~(prevCR /\ c = NUL)
      BY <1>6
    <2>2. prevCR' = (c = CR) /\ got' = Append(got, c)
      BY <2>1 DEF EmitByte
    <2>3. EndsCR(x) = (c = CR)
      BY <1>2, <1>4
    <2>4. BareCR(x) = Append(BareCR(d), c)
      BY <1>3, <1>6
    <2> QED BY <1>1, <1>4, <2>2, <2>3, <2>4 DEF x
  <1> QED BY <1>5, <1>6

(* One byte more: the item is not over, or it is and carried e.            *)
LEMMA StillPending ==
  ASSUME NEW cons, NEW d \in Seq(Byte), NEW tail \in Seq(Byte), SoFar(cons, d, tail),
         NEW c \in Byte, NEW st, Pending(st, tail \o <<c>>)
  PROVE  Delivered(st, Append(cons, c), BareCR(d), EndsCR(d))
  <1>1. SoFar(Append(cons, c), d, tail \o <<c>>)
    BY SoFarGrows
  <1>2. <<c>> \in Seq(Byte)
    OBVIOUS
  <1>3. tail \o <<c>> \in Seq(Byte)
    BY <1>2, ConcatProperties
  <1> QED BY <1>1, <1>3 DEF Delivered

LEMMA NowOver ==
  ASSUME NEW cons, NEW d \in Seq(Byte), NEW tail \in Seq(Byte), SoFar(cons, d, tail),
         NEW c \in Byte, NEW e, Reads(tail \o <<c>>, e)
  PROVE  Delivered("data", Append(cons, c), BareCR(d \o e), EndsCR(d \o e))
  <1>1. SoFar(Append(cons, c), d, tail \o <<c>>)
    BY SoFarGrows
  <1>2. tail \o <<c>> \in Seq(Byte) /\ e \in Seq(Byte) /\ <<>> \in Seq(Byte)
    BY BytesAre DEF Reads
  <1>3. SoFar(Append(cons, c), d \o e, <<>>)
    BY <1>1, <1>2, SoFarEnds
  <1>4. d \o e \in Seq(Byte)
    BY <1>2, ConcatProperties
  <1>5. Pending("data", <<>>)
    BY DEF Pending
  <1> QED BY <1>2, <1>3, <1>4, <1>5 DEF Delivered

LEMMA OverWithNothing ==
  ASSUME NEW cons, NEW d \in Seq(Byte), NEW tail \in Seq(Byte), SoFar(cons, d, tail),
         NEW c \in Byte, Reads(tail \o <<c>>, <<>>)
  PROVE  Delivered("data", Append(cons, c), BareCR(d), EndsCR(d))
  <1>1. Delivered("data", Append(cons, c), BareCR(d \o <<>>), EndsCR(d \o <<>>))
    BY NowOver
  <1>2. d \o <<>> = d
    BY ConcatEmptySeq
  <1> QED BY <1>1, <1>2

(* What the byte c makes of an item that is not over.                      *)
LEMMA Three ==
  ASSUME NEW B, NEW a \in B, NEW b \in B, NEW c \in B
  PROVE  <<a, b>> \o <<c>> = <<a, b, c>>
  <1> DEFINE s == <<a, b>>
             t == <<c>>
             u == <<a, b, c>>
  <1>1. /\ s \in Seq(B) /\ t \in Seq(B) /\ u \in Seq(B)
        /\ Len(s) = 2 /\ Len(t) = 1 /\ Len(u) = 3
        /\ s[1] = a /\ s[2] = b /\ t[1] = c /\ u[1] = a /\ u[2] = b /\ u[3] = c
    OBVIOUS
  <1> HIDE DEF s, t, u
  <1> DEFINE v == s \o t
  <1>2. s \in Seq(B) /\ t \in Seq(B)
    BY <1>1
  <1>3. /\ s \o t \in Seq(B) /\ Len(s \o t) = Len(s) + Len(t)
        /\ \A i \in 1 .. Len(s) + Len(t) : (s \o t)[i] =
              IF i <= Len(s) THEN s[i] ELSE t[i - Len(s)]
    BY <1>2, ConcatProperties
  <1>4. v \in Seq(B) /\ Len(v) = 3 /\ v[1] = s[1] /\ v[2] = s[2] /\ v[3] = t[1]
    BY <1>1, <1>3
  <1> HIDE DEF v
  <1>5. \A i \in 1 .. Len(v) : v[i] = u[i]
    BY <1>1, <1>4
  <1>6. v = u
    BY <1>1, <1>4, <1>5, SeqEqual
  <1> QED BY <1>6 DEF v, s, t, u

(* The last byte of a command or of a subnegotiation.                      *)
LastByte(c) == /\ state \in Negotiating \/ (state = "sbIac" /\ c # IAC)
               /\ state' = "data" /\ NoEmit

LEMMA FilterDelivers ==
  ASSUME NEW c \in Byte, state \in States, Delivered(state, consumed, got, prevCR),
         FilterByte(c) \/ LastByte(c), consumed' = Append(consumed, c)
  PROVE  state' \in States /\ Delivered(state', consumed', got', prevCR')
  <1>1. PICK tail \in Seq(Byte), d \in Seq(Byte) :
          SoFar(consumed, d, tail) /\ Pending(state, tail) /\ got = BareCR(d) /\ prevCR = EndsCR(d)
    BY DEF Delivered
  <1>2. /\ IAC \in Byte /\ SB \in Byte /\ Verbs \subseteq Byte /\ IAC \notin Verbs /\ SB \notin Verbs
        /\ <<>> \in Seq(Byte)
    BY BytesAre
  <1>3. <<c>> \in Seq(Byte) /\ <<>> \o <<c>> = <<c>>
    <2>1. <<c>> \in Seq(Byte)
      OBVIOUS
    <2> QED BY <2>1, ConcatEmptySeq
  <1>4. <<IAC>> \o <<c>> = <<IAC, c>>
    BY <1>2, Pair
  (* The item goes on.                                                     *)
  <1>5. ASSUME NoEmit, Pending(state', tail \o <<c>>), state' \in States
        PROVE  state' \in States /\ Delivered(state', consumed', got', prevCR')
    <2>1. Delivered(state', Append(consumed, c), BareCR(d), EndsCR(d))
      BY <1>1, <1>5, StillPending
    <2>2. got' = BareCR(d) /\ prevCR' = EndsCR(d)
      BY <1>1, <1>5 DEF NoEmit
    <2> QED BY <1>5, <2>1, <2>2
  (* It is over and carried nothing.                                       *)
  <1>6. ASSUME NoEmit, Reads(tail \o <<c>>, <<>>), state' = "data"
        PROVE  state' \in States /\ Delivered(state', consumed', got', prevCR')
    <2>1. Delivered("data", Append(consumed, c), BareCR(d), EndsCR(d))
      BY <1>1, <1>6, OverWithNothing
    <2>2. got' = BareCR(d) /\ prevCR' = EndsCR(d)
      BY <1>1, <1>6 DEF NoEmit
    <2>3. state' \in States
      BY <1>6 DEF States
    <2> QED BY <1>6, <2>1, <2>2, <2>3
  (* It is over and carried a byte.                                        *)
  <1>7. ASSUME NEW b \in Byte, EmitByte(b), Reads(tail \o <<c>>, <<b>>), state' = "data"
        PROVE  state' \in States /\ Delivered(state', consumed', got', prevCR')
    <2>1. Delivered("data", Append(consumed, c), BareCR(d \o <<b>>), EndsCR(d \o <<b>>))
      BY <1>1, <1>7, NowOver
    <2>2. got' = BareCR(d \o <<b>>) /\ prevCR' = EndsCR(d \o <<b>>)
      BY <1>1, <1>7, Emits
    <2>3. state' \in States
      BY <1>7 DEF States
    <2> QED BY <1>7, <2>1, <2>2, <2>3
  <1>8. CASE state = "data" /\ c # IAC /\ EmitByte(c) /\ UNCHANGED <<state, sbOpt, sbBuf>>
    <2>1. tail = <<>>
      BY <1>1, <1>8 DEF Pending, Negotiating
    <2>2. Reads(tail \o <<c>>, <<c>>)
      BY <1>3, <1>8, <2>1, ReadsByte
    <2> QED BY <1>7, <1>8, <2>2
  <1>9. CASE state = "data" /\ c = IAC /\ state' = "iac" /\ NoEmit
    <2>1. tail = <<>>
      BY <1>1, <1>9 DEF Pending, Negotiating
    <2>2. Pending(state', tail \o <<c>>)
      BY <1>3, <1>9, <2>1 DEF Pending
    <2> QED BY <1>5, <1>9, <2>2 DEF States
  <1>10. CASE state = "iac" /\ c = IAC /\ EmitByte(IAC) /\ state' = "data"
    <2>1. tail = <<IAC>>
      BY <1>1, <1>10 DEF Pending, Negotiating
    <2>2. Reads(<<IAC, c>>, <<IAC>>)
      <3>1. c \notin Verbs \cup {SB} /\ c = IAC
        BY <1>2, <1>10, BytesAre
      <3>2. Reads(<<IAC, c>>, IF c = IAC THEN <<IAC>> ELSE <<>>)
        BY <3>1, ReadsPair
      <3> QED BY <3>1, <3>2
    <2> QED BY <1>2, <1>4, <1>7, <1>10, <2>1, <2>2
  <1>11. CASE state = "iac" /\ c \in Verbs /\ state' = CommandState(c) /\ NoEmit
    <2>1. tail = <<IAC>>
      BY <1>1, <1>11 DEF Pending, Negotiating
    <2>2. CommandState(c) \in Negotiating /\ VerbOf(CommandState(c)) = c
      BY <1>11 DEF CommandState, VerbOf, Negotiating, Verbs, WILL, WONT, DO, DONT
    <2>3. Pending(state', tail \o <<c>>)
      BY <1>4, <1>11, <2>1, <2>2 DEF Pending
    <2>4. state' \in States
      BY <1>11, <2>2 DEF States
    <2> QED BY <1>5, <1>11, <2>3, <2>4
  <1>12. CASE state = "iac" /\ c = SB /\ state' = "sb" /\ NoEmit
    <2>1. tail = <<IAC>>
      BY <1>1, <1>12 DEF Pending, Negotiating
    <2>2. Pending(state', tail \o <<c>>)
      BY <1>4, <1>12, <2>1 DEF Pending
    <2> QED BY <1>5, <1>12, <2>2 DEF States
  <1>13. CASE state = "iac" /\ c \notin Verbs \cup {IAC, SB} /\ state' = "data" /\ NoEmit
    <2>1. tail = <<IAC>>
      BY <1>1, <1>13 DEF Pending, Negotiating
    <2>2. Reads(<<IAC, c>>, <<>>)
      <3>1. c \notin Verbs \cup {SB} /\ c # IAC
        BY <1>13
      <3>2. Reads(<<IAC, c>>, IF c = IAC THEN <<IAC>> ELSE <<>>)
        BY <3>1, ReadsPair
      <3> QED BY <3>1, <3>2
    <2> QED BY <1>4, <1>6, <1>13, <2>1, <2>2
  <1>14. CASE state \in {"will", "wont", "do", "dont"} /\ state' = "data" /\ NoEmit
    <2>1. tail = <<IAC, VerbOf(state)>> /\ VerbOf(state) \in Verbs
      BY <1>1, <1>14 DEF Pending, Negotiating, VerbOf, Verbs
    <2>2. <<IAC, VerbOf(state)>> \o <<c>> = <<IAC, VerbOf(state), c>>
      BY <1>2, <2>1, Three
    <2>3. Reads(Command(VerbOf(state), c), <<>>)
      BY <2>1, ReadsCommand
    <2>4. Reads(tail \o <<c>>, <<>>)
      BY <2>1, <2>2, <2>3 DEF Command
    <2> QED BY <1>6, <1>14, <2>4
  <1>15. CASE state = "sb" /\ state' = "sbData" /\ NoEmit
    <2>1. tail = <<IAC, SB>>
      BY <1>1, <1>15 DEF Pending, Negotiating
    <2>2. <<IAC, SB>> \o <<c>> = <<IAC, SB, c>>
      BY <1>2, Three
    <2>3. <<IAC, SB, c>> \o <<>> = <<IAC, SB, c>>
      <3>1. <<IAC, SB, c>> \in Seq(Byte)
        BY <1>2
      <3> QED BY <3>1, ConcatEmptySeq
    <2>4. tail \o <<c>> = Begins(c, <<>>)
      BY <2>1, <2>2, <2>3 DEF Begins
    <2>5. Pending("sbData", tail \o <<c>>)
      BY <1>2, <2>4, PayloadNone DEF Pending
    <2> QED BY <1>5, <1>15, <2>5 DEF States
  <1>16. ASSUME state = "sbData", NoEmit, NEW e \in Seq(Byte), Payload(e), e = <<c>>, state' = "sbData"
         PROVE  state' \in States /\ Delivered(state', consumed', got', prevCR')
    <2>1. PICK o \in Byte, p \in Seq(Byte) : Payload(p) /\ tail = Begins(o, p)
      BY <1>1, <1>16 DEF Pending, Negotiating
    <2>2. tail \o e = Begins(o, p \o e)
      <3> DEFINE h == <<IAC, SB, o>>
      <3>1. h \in Seq(Byte)
        BY <1>2
      <3>2. tail = h \o p /\ Begins(o, p \o e) = h \o (p \o e)
        BY <2>1 DEF Begins
      <3> HIDE DEF h
      <3>3. (h \o p) \o e = h \o (p \o e)
        BY <1>16, <3>1, ConcatAssociative
      <3> QED BY <3>2, <3>3
    <2>3. Payload(p \o e) /\ p \o e \in Seq(Byte)
      <3>1. Payload(p \o e)
        BY <1>16, <2>1, PayloadConcat
      <3> QED BY <3>1 DEF Payload
    <2>4. Pending("sbData", tail \o e)
      BY <2>2, <2>3 DEF Pending
    <2> QED BY <1>5, <1>16, <2>4 DEF States
  <1>17. CASE state = "sbData" /\ c # IAC /\ NoEmit /\ UNCHANGED <<state, sbOpt>>
    <2>1. Payload(<<c>>)
      BY <1>17, PayloadByte
    <2> QED BY <1>3, <1>16, <1>17, <2>1
  <1>18. CASE state = "sbData" /\ c = IAC /\ state' = "sbIac" /\ NoEmit
    <2>1. PICK o \in Byte, p \in Seq(Byte) : Payload(p) /\ tail = Begins(o, p)
      BY <1>1, <1>18 DEF Pending, Negotiating
    <2>2. Pending("sbIac", tail \o <<c>>)
      BY <1>18, <2>1 DEF Pending
    <2> QED BY <1>5, <1>18, <2>2 DEF States
  <1>19. CASE state = "sbIac" /\ c = IAC /\ state' = "sbData" /\ NoEmit
    <2>1. PICK o \in Byte, p \in Seq(Byte) : Payload(p) /\ tail = Begins(o, p) \o <<IAC>>
      BY <1>1, <1>19 DEF Pending, Negotiating
    <2> DEFINE b == Begins(o, p)
               h == <<IAC, SB, o>>
               e == <<IAC, IAC>>
    <2>2. h \in Seq(Byte) /\ e \in Seq(Byte) /\ <<IAC>> \in Seq(Byte)
      BY <1>2
    <2>3. b = h \o p /\ Begins(o, p \o e) = h \o (p \o e)
      BY DEF Begins
    <2>4. <<IAC>> \o <<c>> = e
      BY <1>4, <1>19
    <2> HIDE DEF h, e, b
    <2>5. b \in Seq(Byte)
      BY <2>2, <2>3, ConcatProperties
    <2>6. tail \o <<c>> = b \o e
      <3>1. (b \o <<IAC>>) \o <<c>> = b \o (<<IAC>> \o <<c>>)
        BY <1>3, <2>2, <2>5, ConcatAssociative
      <3> QED BY <2>1, <2>4, <3>1 DEF b
    <2>7. (h \o p) \o e = h \o (p \o e)
      <3>1. h \in Seq(Byte) /\ p \in Seq(Byte) /\ e \in Seq(Byte)
        BY <2>2
      <3> QED BY <3>1, Regroup
    <2>8. tail \o <<c>> = Begins(o, p \o e)
      BY <2>3, <2>6, <2>7
    <2>9. Payload(p \o e) /\ p \o e \in Seq(Byte)
      <3>1. Payload(p \o e)
        BY <2>1, PayloadDoubled, PayloadConcat DEF e
      <3> QED BY <3>1 DEF Payload
    <2>10. Pending("sbData", tail \o <<c>>)
      BY <2>8, <2>9 DEF Pending
    <2> QED BY <1>5, <1>19, <2>10 DEF States
  <1>20. CASE state = "sbIac" /\ c # IAC /\ state' = "data" /\ NoEmit
    <2>1. PICK o \in Byte, p \in Seq(Byte) : Payload(p) /\ tail = Begins(o, p) \o <<IAC>>
      BY <1>1, <1>20 DEF Pending, Negotiating
    <2> DEFINE b == Begins(o, p)
               h == <<IAC, SB, o>>
    <2>2. h \in Seq(Byte) /\ <<IAC>> \in Seq(Byte)
      BY <1>2
    <2>3. b = h \o p
      BY DEF Begins
    <2>4. Reads(b \o <<IAC, c>>, <<>>)
      BY <1>20, <2>1, ReadsSubneg
    <2> HIDE DEF h, b
    <2>5. b \in Seq(Byte)
      BY <2>2, <2>3, ConcatProperties
    <2>6. tail \o <<c>> = b \o <<IAC, c>>
      <3>1. (b \o <<IAC>>) \o <<c>> = b \o (<<IAC>> \o <<c>>)
        BY <1>3, <2>2, <2>5, ConcatAssociative
      <3> QED BY <1>4, <2>1, <3>1 DEF b
    <2> QED BY <1>6, <1>20, <2>4, <2>6
  <1> QED BY <1>8, <1>9, <1>10, <1>11, <1>12, <1>13, <1>14, <1>15, <1>17, <1>18, <1>19, <1>20
          DEF FilterByte, LastByte, Negotiating

------------------------------------------------------------------------------
(* While the socket is ours, what was last said of a matter is what is     *)
(* declared.                                                               *)
MapOf(verb, ours, theirs) == IF verb \in {DO, DONT} THEN theirs ELSE ours
LastSays(w, ours, theirs) ==
  \A i \in 1 .. Len(w) :
    IsCommand(w[i]) /\ (\A k \in i + 1 .. Len(w) : ~SameMatter(w[k], w[i]))
      => Flag(MapOf(w[i][2], ours, theirs), w[i][3]) = Of(w[i][2] \in {DO, WILL})
LastIsDeclared == conn = "up" => LastSays(wire, localWill, remoteDo)
OptSound == NoPingPong /\ LastIsDeclared

LEMMA FlagPut ==
  ASSUME NEW m, NEW o, NEW flag
  PROVE  Flag(Put(m, o, flag), o) = flag
  BY DEF Flag, Put

LEMMA FlagOther ==
  ASSUME NEW m, NEW o, NEW flag, NEW x, x # o
  PROVE  Flag(Put(m, o, flag), x) = Flag(m, x)
  BY DEF Flag, Put

(* The last of the places in i .. n that are in P.                         *)
LEMMA LastOf ==
  ASSUME NEW n \in Nat, NEW i \in 1 .. n, NEW P, i \in P
  PROVE  \E k \in i .. n : k \in P /\ \A m \in k + 1 .. n : m \notin P
  <1> DEFINE T == {d \in Nat : d <= n /\ n - d \in P /\ n - d >= i}
  <1>1. T \subseteq Nat
    OBVIOUS
  <1>2. T # {}
    <2> DEFINE d == n - i
    <2>1. d \in Nat /\ d <= n /\ n - d = i /\ n - d >= i
      OBVIOUS
    <2> HIDE DEF d
    <2>2. d \in T
      BY <2>1
    <2> QED BY <2>2
  <1>3. PICK d \in T : \A e \in T : d <= e
    <2> HIDE DEF T
    <2> QED BY <1>1, <1>2, LeastOf
  <1> DEFINE k == n - d
  <1>4. d \in Nat /\ k \in i .. n /\ k \in P
    OBVIOUS
  <1>5. ASSUME NEW m \in k + 1 .. n, m \in P PROVE FALSE
    <2> DEFINE e == n - m
    <2>1. e \in Nat /\ e <= n /\ n - e = m /\ m >= i /\ e < d
      BY <1>4
    <2> HIDE DEF e
    <2>2. e \in T
      BY <1>5, <2>1
    <2> HIDE DEF T
    <2>3. d <= e
      BY <1>3, <2>2
    <2> QED BY <1>4, <2>1, <2>3
  <1> QED BY <1>4, <1>5

(* A frame that is no command, or none at all.                             *)
LEMMA NoCommand ==
  ASSUME WireSound, OptSound, NEW f \in Seq(Byte), ~IsCommand(f),
         wire' = wire \/ wire' = Append(wire, f), localWill' = localWill, remoteDo' = remoteDo,
         conn' = "up" => conn = "up"
  PROVE  OptSound'
  <1> DEFINE n == Len(wire)
  <1>1. wire \in Seq(Seq(Byte)) /\ n \in Nat
    BY LenProperties DEF WireSound
  <1>2. CASE wire' = wire
    BY <1>2 DEF OptSound, NoPingPong, LastIsDeclared
  <1>3. CASE wire' = Append(wire, f)
    <2>1. /\ Len(wire') = n + 1 /\ wire'[n + 1] = f
          /\ \A i \in 1 .. n : wire'[i] = wire[i]
      BY <1>1, <1>3, AppendProperties
    <2>2. \A g : ~SameMatter(f, g) /\ ~SameMatter(g, f)
      BY DEF SameMatter
    <2>3. NoPingPong'
      <3> SUFFICES ASSUME NEW i \in 1 .. n + 1, NEW j \in 1 .. n + 1, i < j,
                          SameMatter(wire'[i], wire'[j]), wire'[i][2] = wire'[j][2]
                   PROVE  \E k \in i + 1 .. j - 1 :
                            SameMatter(wire'[k], wire'[j]) /\ wire'[k][2] # wire'[j][2]
        BY <2>1 DEF NoPingPong
      <3>1. j # n + 1
        BY <2>1, <2>2
      <3>2. i \in 1 .. n /\ j \in 1 .. n
        BY <1>1, <3>1
      <3>3. wire'[i] = wire[i] /\ wire'[j] = wire[j]
        BY <2>1, <3>2
      <3> HIDE DEF n
      <3>4. SameMatter(wire[i], wire[j]) /\ wire[i][2] = wire[j][2]
        BY <3>3
      <3>5. PICK k \in i + 1 .. j - 1 : SameMatter(wire[k], wire[j]) /\ wire[k][2] # wire[j][2]
        BY <3>2, <3>4 DEF OptSound, NoPingPong, n
      <3>6. k \in 1 .. n
        BY <1>1, <3>2
      <3>7. wire'[k] = wire[k]
        BY <2>1, <3>6
      <3> QED BY <3>3, <3>5, <3>7
    <2>4. LastIsDeclared'
      <3> SUFFICES ASSUME conn' = "up" PROVE LastSays(wire', localWill, remoteDo)
        BY DEF LastIsDeclared
      <3> DEFINE w == wire'
      <3>1. /\ Len(w) = n + 1 /\ w[n + 1] = f
            /\ \A i \in 1 .. n : w[i] = wire[i]
        BY <2>1
      <3>2. LastSays(wire, localWill, remoteDo)
        BY DEF OptSound, LastIsDeclared
      <3> HIDE DEF w
      <3>3. LastSays(w, localWill, remoteDo)
        <4> SUFFICES ASSUME NEW i \in 1 .. n + 1, IsCommand(w[i]),
                            \A k \in i + 1 .. n + 1 : ~SameMatter(w[k], w[i])
                     PROVE  Flag(MapOf(w[i][2], localWill, remoteDo), w[i][3])
                              = Of(w[i][2] \in {DO, WILL})
          BY <3>1 DEF LastSays
        <4>1. i # n + 1
          BY <3>1
        <4>2. i \in 1 .. n
          BY <1>1, <4>1
        <4>3. w[i] = wire[i]
          BY <3>1, <4>2
        <4>4. \A k \in i + 1 .. n : ~SameMatter(wire[k], wire[i])
          <5> TAKE k \in i + 1 .. n
          <5>1. k \in i + 1 .. n + 1 /\ k \in 1 .. n
            BY <1>1, <4>2
          <5>2. w[k] = wire[k]
            BY <3>1, <5>1
          <5> QED BY <4>3, <5>1, <5>2
        <4>5. Flag(MapOf(wire[i][2], localWill, remoteDo), wire[i][3]) = Of(wire[i][2] \in {DO, WILL})
          BY <3>2, <4>2, <4>3, <4>4 DEF LastSays
        <4> QED BY <4>3, <4>5
      <3> QED BY <3>3 DEF w
    <2> QED BY <2>3, <2>4 DEF OptSound
  <1> QED BY <1>2, <1>3

(* A command that says what was not declared yet, and declares it.         *)
LEMMA NewCommand ==
  ASSUME NEW w \in Seq(Seq(Byte)), NEW ours, NEW theirs, NEW ours2, NEW theirs2,
         NEW a \in Verbs, NEW o \in Byte,
         LastSays(w, ours, theirs),
         Flag(MapOf(a, ours, theirs), o) # Of(a \in {DO, WILL}),
         MapOf(a, ours2, theirs2) = Put(MapOf(a, ours, theirs), o, Of(a \in {DO, WILL})),
         \A v \in Verbs : Side(v) # Side(a) => MapOf(v, ours2, theirs2) = MapOf(v, ours, theirs)
  PROVE  /\ LastSays(Append(w, Command(a, o)), ours2, theirs2)
         /\ \A i \in 1 .. Len(w) :
              SameMatter(w[i], Command(a, o)) /\ w[i][2] = a
                => \E k \in i + 1 .. Len(w) : SameMatter(w[k], Command(a, o)) /\ w[k][2] # a
  <1> DEFINE n == Len(w)
             c == Command(a, o)
             x == Append(w, c)
  <1>1. n \in Nat
    BY LenProperties
  <1>2. c \in Seq(Byte) /\ IsCommand(c) /\ c[2] = a /\ c[3] = o
    BY CommandIs
  <1> HIDE DEF c
  <1>3. /\ Len(x) = n + 1 /\ x[n + 1] = c
        /\ \A i \in 1 .. n : x[i] = w[i]
    BY <1>2, AppendProperties
  <1> HIDE DEF x
  <1>4. \A v, u \in Verbs : Side(v) = Side(u) => MapOf(v, ours, theirs) = MapOf(u, ours, theirs)
    BY DEF Side, MapOf
  <1>5. \A v, u \in Verbs : Side(v) = Side(u) => MapOf(v, ours2, theirs2) = MapOf(u, ours2, theirs2)
    BY DEF Side, MapOf
  <1>6. ASSUME NEW i \in 1 .. n, SameMatter(w[i], c), w[i][2] = a
        PROVE  \E k \in i + 1 .. n : SameMatter(w[k], c) /\ w[k][2] # a
    <2> DEFINE P == {m \in 1 .. n : SameMatter(w[m], c)}
    <2>1. i \in P
      BY <1>6
    <2> HIDE DEF n
    <2>2. PICK k \in i .. n : k \in P /\ \A m \in k + 1 .. n : m \notin P
      <3> HIDE DEF P
      <3> QED BY <1>1, <2>1, LastOf
    <2>3. k \in 1 .. n /\ SameMatter(w[k], c)
      BY <2>2
    <2>4. \A m \in k + 1 .. n : ~SameMatter(w[m], w[k])
      <3> TAKE m \in k + 1 .. n
      <3>1. m \in 1 .. n
        BY <1>1, <2>3
      <3>2. ~SameMatter(w[m], c)
        BY <2>2, <3>1
      <3> QED BY <2>3, <3>2 DEF SameMatter
    <2>5. IsCommand(w[k]) /\ w[k][2] \in Verbs /\ w[k][3] = o /\ Side(w[k][2]) = Side(a)
      BY <1>2, <2>3 DEF SameMatter, IsCommand
    <2>6. Flag(MapOf(w[k][2], ours, theirs), o) = Of(w[k][2] \in {DO, WILL})
      BY <2>3, <2>4, <2>5 DEF LastSays, n
    <2>7. MapOf(w[k][2], ours, theirs) = MapOf(a, ours, theirs)
      BY <1>4, <2>5
    <2>8. w[k][2] # a
      BY <2>6, <2>7
    <2>9. k \in i + 1 .. n
      <3>1. k # i
        BY <1>6, <2>8
      <3> QED BY <1>1, <2>2, <3>1
    <2> QED BY <2>3, <2>8, <2>9
  <1>7. ASSUME NEW i \in 1 .. n + 1, IsCommand(x[i]),
               \A k \in i + 1 .. n + 1 : ~SameMatter(x[k], x[i])
        PROVE  Flag(MapOf(x[i][2], ours2, theirs2), x[i][3]) = Of(x[i][2] \in {DO, WILL})
    <2>1. CASE i = n + 1
      <3>1. Flag(Put(MapOf(a, ours, theirs), o, Of(a \in {DO, WILL})), o) = Of(a \in {DO, WILL})
        BY FlagPut
      <3> QED BY <1>2, <1>3, <2>1, <3>1
    <2>2. CASE i # n + 1
      <3>1. i \in 1 .. n /\ n + 1 \in i + 1 .. n + 1
        BY <1>1, <2>2
      <3>2. x[i] = w[i]
        BY <1>3, <3>1
      <3> DEFINE v == w[i][2]
                 q == w[i][3]
      <3>3. IsCommand(w[i]) /\ v \in Verbs
        BY <1>7, <3>2 DEF IsCommand
      <3>4. ~SameMatter(c, w[i])
        <4>1. x[n + 1] = c
          BY <1>3
        <4>2. ~SameMatter(x[n + 1], x[i])
          BY <1>7, <3>1
        <4> QED BY <3>2, <4>1, <4>2
      <3>5. ~(q = o /\ Side(v) = Side(a))
        BY <1>2, <3>3, <3>4 DEF SameMatter
      <3>6. \A k \in i + 1 .. n : ~SameMatter(w[k], w[i])
        <4> TAKE k \in i + 1 .. n
        <4>1. k \in i + 1 .. n + 1 /\ k \in 1 .. n
          BY <1>1, <3>1
        <4>2. x[k] = w[k]
          BY <1>3, <4>1
        <4>3. ~SameMatter(x[k], x[i])
          BY <1>7, <4>1
        <4> QED BY <3>2, <4>2, <4>3
      <3>7. Flag(MapOf(v, ours, theirs), q) = Of(v \in {DO, WILL})
        BY <3>1, <3>3, <3>6 DEF LastSays
      <3> HIDE DEF v, q
      <3>8. Flag(MapOf(v, ours2, theirs2), q) = Flag(MapOf(v, ours, theirs), q)
        <4>1. CASE Side(v) # Side(a)
          BY <3>3, <4>1
        <4>2. CASE Side(v) = Side(a)
          <5>1. q # o
            BY <3>5, <4>2
          <5>2. MapOf(v, ours2, theirs2) = Put(MapOf(a, ours, theirs), o, Of(a \in {DO, WILL}))
            BY <1>5, <3>3, <4>2
          <5>3. MapOf(v, ours, theirs) = MapOf(a, ours, theirs)
            BY <1>4, <3>3, <4>2
          <5>4. Flag(Put(MapOf(a, ours, theirs), o, Of(a \in {DO, WILL})), q)
                  = Flag(MapOf(a, ours, theirs), q)
            <6> DEFINE m == MapOf(a, ours, theirs)
                       flag == Of(a \in {DO, WILL})
            <6> HIDE DEF m, flag
            <6>1. Flag(Put(m, o, flag), q) = Flag(m, q)
              BY <5>1, FlagOther
            <6> QED BY <6>1 DEF m, flag
          <5> QED BY <5>2, <5>3, <5>4
        <4> QED BY <4>1, <4>2
      <3> QED BY <3>2, <3>7, <3>8 DEF v, q
    <2> QED BY <2>1, <2>2
  <1>8. LastSays(x, ours2, theirs2)
    BY <1>3, <1>7 DEF LastSays
  <1> QED BY <1>6, <1>8 DEF x, c

LEMMA DeclareKeeps ==
  ASSUME WireSound, OptSound, NEW v \in Verbs, NEW o \in Byte, Changes(v, o),
         conn' = conn, Out(Command(Answer(v, o), o)),
         IF v \in {WILL, WONT}
         THEN remoteDo' = Put(Declared(v), o, Of(Wants(v, o))) /\ localWill' = localWill
         ELSE localWill' = Put(Declared(v), o, Of(Wants(v, o))) /\ remoteDo' = remoteDo
  PROVE  OptSound'
  <1> DEFINE a == Answer(v, o)
             c == Command(a, o)
             n == Len(wire)
  <1>1. v \in {DONT, DO, WONT, WILL}
    BY DEF Verbs
  <1>2. /\ a \in Verbs
        /\ a \in {DO, DONT} <=> v \in {WILL, WONT}
        /\ a \in {DO, WILL} <=> Wants(v, o)
        /\ Wants(v, o) => v \in {WILL, DO}
    BY <1>1 DEF Answer, Verbs, Wants, DO, DONT, WILL, WONT
  <1> HIDE DEF a
  <1>3. Declared(v) = MapOf(a, localWill, remoteDo)
    BY <1>2 DEF Declared, MapOf
  <1>4. Of(a \in {DO, WILL}) = Of(Wants(v, o))
    BY <1>2 DEF Of
  <1>5. Of(v \in {WILL, DO} /\ Wants(v, o)) = Of(Wants(v, o))
    BY <1>2 DEF Of
  <1>6. Flag(MapOf(a, localWill, remoteDo), o) # Of(a \in {DO, WILL})
    BY <1>3, <1>4, <1>5 DEF Changes
  <1>7. MapOf(a, localWill', remoteDo') = Put(MapOf(a, localWill, remoteDo), o, Of(a \in {DO, WILL}))
    BY <1>2, <1>3, <1>4 DEF MapOf
  <1>8. ASSUME NEW u \in Verbs, Side(u) # Side(a)
        PROVE  MapOf(u, localWill', remoteDo') = MapOf(u, localWill, remoteDo)
    <2>1. u \in {DO, DONT} <=> ~(a \in {DO, DONT})
      BY <1>8 DEF Side
    <2> QED BY <1>2, <2>1 DEF MapOf
  <1>9. wire \in Seq(Seq(Byte)) /\ n \in Nat
    BY LenProperties DEF WireSound
  <1>10. CASE conn # "up"
    <2>1. wire' = wire
      BY <1>10 DEF Out
    <2> QED BY <1>10, <2>1 DEF OptSound, NoPingPong, LastIsDeclared
  <1>11. CASE conn = "up"
    <2>1. wire' = Append(wire, c)
      BY <1>11 DEF Out, a
    <2>2. LastSays(wire, localWill, remoteDo)
      BY <1>11 DEF OptSound, LastIsDeclared
    <2>3. /\ LastSays(Append(wire, c), localWill', remoteDo')
          /\ \A i \in 1 .. n :
               SameMatter(wire[i], c) /\ wire[i][2] = a
                 => \E k \in i + 1 .. n : SameMatter(wire[k], c) /\ wire[k][2] # a
      BY <1>2, <1>6, <1>7, <1>8, <1>9, <2>2, NewCommand
    <2>4. c \in Seq(Byte) /\ c[2] = a
      BY <1>2, CommandIs
    <2> HIDE DEF c
    <2>5. /\ Len(wire') = n + 1 /\ wire'[n + 1] = c
          /\ \A i \in 1 .. n : wire'[i] = wire[i]
      BY <1>9, <2>1, <2>4, AppendProperties
    <2>6. NoPingPong'
      <3> SUFFICES ASSUME NEW i \in 1 .. n + 1, NEW j \in 1 .. n + 1, i < j,
                          SameMatter(wire'[i], wire'[j]), wire'[i][2] = wire'[j][2]
                   PROVE  \E k \in i + 1 .. j - 1 :
                            SameMatter(wire'[k], wire'[j]) /\ wire'[k][2] # wire'[j][2]
        BY <2>5 DEF NoPingPong
      <3>1. i \in 1 .. n
        BY <1>9
      <3>2. wire'[i] = wire[i]
        BY <2>5, <3>1
      <3>3. CASE j = n + 1
        <4>1. wire'[j] = c
          BY <2>5, <3>3
        <4>2. SameMatter(wire[i], c) /\ wire[i][2] = a
          BY <2>4, <3>2, <4>1
        <4>3. PICK k \in i + 1 .. n : SameMatter(wire[k], c) /\ wire[k][2] # a
          BY <2>3, <3>1, <4>2
        <4>4. k \in i + 1 .. j - 1 /\ k \in 1 .. n
          BY <1>9, <3>1, <3>3
        <4>5. wire'[k] = wire[k]
          BY <2>5, <4>4
        <4> QED BY <2>4, <4>1, <4>3, <4>4, <4>5
      <3>4. CASE j # n + 1
        <4>1. j \in 1 .. n
          <5> HIDE DEF n
          <5> QED BY <1>9, <3>4
        <4>2. wire'[j] = wire[j]
          BY <2>5, <4>1
        <4>3. SameMatter(wire[i], wire[j]) /\ wire[i][2] = wire[j][2]
          BY <3>2, <4>2
        <4>4. PICK k \in i + 1 .. j - 1 : SameMatter(wire[k], wire[j]) /\ wire[k][2] # wire[j][2]
          BY <3>1, <4>1, <4>3 DEF OptSound, NoPingPong
        <4>5. k \in 1 .. n
          BY <1>9, <3>1, <4>1
        <4>6. wire'[k] = wire[k]
          BY <2>5, <4>5
        <4> QED BY <4>2, <4>4, <4>6
      <3> QED BY <3>3, <3>4
    <2>7. LastIsDeclared'
      BY <2>1, <2>3 DEF LastIsDeclared
    <2> QED BY <2>6, <2>7 DEF OptSound
  <1> QED BY <1>10, <1>11

------------------------------------------------------------------------------
(* Every size on its way was set, every answer on its way is news, and the *)
(* far end names options.                                                  *)
Call == [step : {"idle", "declare", "size", "send"}, verb : Byte, opt : Byte,
         size : RealSize \cup {<<>>}]
CallSound == /\ size \in RealSize /\ reader \in Call /\ caller \in [Callers -> Call]
             /\ reader.step = "send" => reader.size \in RealSize
             /\ \A c \in Callers : caller[c].step = "send" => caller[c].size \in RealSize
             /\ reader.step = "declare" => reader.verb \in Verbs /\ Changes(reader.verb, reader.opt)
PeerSound == DOMAIN peerWill \subseteq Byte /\ DOMAIN peerDo \subseteq Byte /\ peerRead \in Nat

Sound == WireSound /\ OptSound /\ ReadSound /\ CallSound /\ PeerSound

LEMMA IdleIsCall == Idle \in Call /\ Idle.step = "idle"
  <1>1. 0 \in Byte
    BY DEF Byte
  <1> QED BY <1>1 DEF Idle, Call

LEMMA OffersAre ==
  /\ TType \in Byte /\ NAWS \in Byte /\ SGA \in Byte /\ Echo \in Byte
  /\ WILL \in Verbs /\ DO \in Verbs /\ WILL # DO
  BY DEF Byte, TType, NAWS, SGA, Echo, Verbs, WILL, DO

LEMMA SoundInit == Init => Sound
  <1> SUFFICES ASSUME Init PROVE Sound
    OBVIOUS
  <1> DEFINE f1 == Command(WILL, TType)
             f2 == Command(WILL, NAWS)
             f3 == Command(DO, SGA)
             f4 == Command(DO, Echo)
  <1>1. /\ f1 \in Seq(Byte) /\ Reads(f1, <<>>) /\ ~IsSizeFrame(f1) /\ IsCommand(f1)
        /\ f1[2] = WILL /\ f1[3] = TType
    BY OffersAre, CommandIs
  <1>2. /\ f2 \in Seq(Byte) /\ Reads(f2, <<>>) /\ ~IsSizeFrame(f2) /\ IsCommand(f2)
        /\ f2[2] = WILL /\ f2[3] = NAWS
    BY OffersAre, CommandIs
  <1>3. /\ f3 \in Seq(Byte) /\ Reads(f3, <<>>) /\ ~IsSizeFrame(f3) /\ IsCommand(f3)
        /\ f3[2] = DO /\ f3[3] = SGA
    BY OffersAre, CommandIs
  <1>4. /\ f4 \in Seq(Byte) /\ Reads(f4, <<>>) /\ ~IsSizeFrame(f4) /\ IsCommand(f4)
        /\ f4[2] = DO /\ f4[3] = Echo
    BY OffersAre, CommandIs
  <1> HIDE DEF f1, f2, f3, f4
  <1>5. wire = <<f1, f2, f3, f4>>
    BY DEF Init, f1, f2, f3, f4
  <1>6. /\ wire \in Seq(Seq(Byte)) /\ Len(wire) = 4 /\ wire[1] = f1 /\ wire[2] = f2
        /\ wire[3] = f3 /\ wire[4] = f4
    BY <1>1, <1>2, <1>3, <1>4, <1>5
  <1>7. ASSUME NEW i \in 1 .. 4
        PROVE  /\ Reads(wire[i], <<>>) /\ ~IsSizeFrame(wire[i])
               /\ i = 1 => wire[i][2] = WILL /\ wire[i][3] = TType
               /\ i = 2 => wire[i][2] = WILL /\ wire[i][3] = NAWS
               /\ i = 3 => wire[i][2] = DO /\ wire[i][3] = SGA
               /\ i = 4 => wire[i][2] = DO /\ wire[i][3] = Echo
    <2>1. i = 1 \/ i = 2 \/ i = 3 \/ i = 4
      OBVIOUS
    <2>2. CASE i = 1
      BY <1>1, <1>6, <2>2
    <2>3. CASE i = 2
      BY <1>2, <1>6, <2>3
    <2>4. CASE i = 3
      BY <1>3, <1>6, <2>4
    <2>5. CASE i = 4
      BY <1>4, <1>6, <2>5
    <2> QED BY <2>1, <2>2, <2>3, <2>4, <2>5
  <1>8. WireSound
    <2>1. Reads(FlattenSeq(wire), <<>>)
      <3> DEFINE n == 4
      <3>1. n \in Nat /\ wire \in [1 .. n -> Seq(Byte)] /\ \A i \in 1 .. n : Reads(wire[i], <<>>)
        BY <1>6, <1>7, LenProperties
      <3> HIDE DEF n
      <3> QED BY <3>1, PiecesReadNothing
    <2>2. written = <<>>
      BY DEF Init
    <2>3. Carried(<<>>) = <<>>
      <3>1. [i \in 1 .. Len(<<>>) |-> Newlines(<<>>[i])] = <<>>
        OBVIOUS
      <3> QED BY <3>1, FlattenEmpty DEF Carried
    <2>4. written \in Seq(Seq(Byte))
      BY <2>2
    <2> QED BY <1>6, <1>7, <2>1, <2>2, <2>3, <2>4 DEF WireSound
  <1>9. OptSound
    <2>1. \A i, j \in 1 .. 4 : i < j => ~SameMatter(wire[i], wire[j])
      <3> SUFFICES ASSUME NEW i \in 1 .. 4, NEW j \in 1 .. 4, i < j PROVE wire[i][3] # wire[j][3]
        BY DEF SameMatter
      <3>1. TType # NAWS /\ TType # SGA /\ TType # Echo /\ NAWS # SGA /\ NAWS # Echo /\ SGA # Echo
        BY DEF TType, NAWS, SGA, Echo
      <3>2. CASE i = 1
        <4>1. j = 2 \/ j = 3 \/ j = 4
          BY <3>2
        <4> QED BY <1>7, <3>1, <3>2, <4>1
      <3>3. CASE i = 2
        <4>1. j = 3 \/ j = 4
          BY <3>3
        <4> QED BY <1>7, <3>1, <3>3, <4>1
      <3>4. CASE i = 3
        <4>1. j = 4
          BY <3>4
        <4> QED BY <1>7, <3>1, <3>4, <4>1
      <3>5. i = 1 \/ i = 2 \/ i = 3
        OBVIOUS
      <3> QED BY <3>2, <3>3, <3>4, <3>5
    <2>2. NoPingPong
      BY <1>6, <2>1 DEF NoPingPong
    <2>3. /\ localWill = [o \in {TType, NAWS} |-> "yes"]
          /\ remoteDo = [o \in {SGA, Echo} |-> "yes"]
      BY DEF Init
    <2>4. /\ Flag(localWill, TType) = "yes" /\ Flag(localWill, NAWS) = "yes"
          /\ Flag(remoteDo, SGA) = "yes" /\ Flag(remoteDo, Echo) = "yes"
      BY <2>3 DEF Flag
    <2>5. WILL \notin {DO, DONT} /\ WILL \in {DO, WILL} /\ DO \in {DO, DONT} /\ DO \in {DO, WILL}
      BY DEF WILL, DO, DONT
    <2>6. ASSUME NEW i \in 1 .. 4
          PROVE  Flag(MapOf(wire[i][2], localWill, remoteDo), wire[i][3])
                   = Of(wire[i][2] \in {DO, WILL})
      <3>1. i = 1 \/ i = 2 \/ i = 3 \/ i = 4
        OBVIOUS
      <3>2. CASE i = 1 \/ i = 2
        BY <1>7, <2>4, <2>5, <3>2 DEF MapOf, Of
      <3>3. CASE i = 3 \/ i = 4
        BY <1>7, <2>4, <2>5, <3>3 DEF MapOf, Of
      <3> QED BY <3>1, <3>2, <3>3
    <2>7. LastIsDeclared
      BY <1>6, <2>6 DEF LastIsDeclared, LastSays
    <2> QED BY <2>2, <2>7 DEF OptSound
  <1>10. ReadSound
    <2>1. /\ inbound = <<>> /\ consumed = <<>> /\ got = <<>> /\ prevCR = FALSE /\ state = "data"
      BY DEF Init
    <2>2. <<>> \in Seq(Byte) /\ <<>> \o <<>> = <<>>
      <3>1. <<>> \in Seq(Byte)
        BY BytesAre
      <3> QED BY <3>1, ConcatEmptySeq
    <2>3. SoFar(<<>>, <<>>, <<>>)
      BY <2>2, ReadsNothing DEF SoFar
    <2>4. BareCR(<<>>) = <<>>
      <3>1. [i \in 1 .. Len(<<>>) |-> Kept(<<>>, i)] = <<>>
        OBVIOUS
      <3> QED BY <3>1, FlattenEmpty DEF BareCR
    <2>5. EndsCR(<<>>) = FALSE
      BY DEF EndsCR
    <2>6. Pending("data", <<>>)
      BY DEF Pending
    <2>7. Delivered(state, consumed, got, prevCR)
      BY <2>1, <2>2, <2>3, <2>4, <2>5, <2>6 DEF Delivered
    <2> QED BY <2>1, <2>2, <2>7 DEF ReadSound, States
  <1>11. CallSound
    <2>1. size = <<80, 24>> /\ reader = Idle /\ caller = [c \in Callers |-> Idle]
      BY DEF Init
    <2>2. size \in RealSize
      BY <2>1 DEF RealSize
    <2>3. caller \in [Callers -> Call]
      BY <2>1, IdleIsCall
    <2> QED BY <2>1, <2>2, <2>3, IdleIsCall DEF CallSound
  <1>12. PeerSound
    <2>1. peerWill = <<>> /\ peerDo = <<>> /\ peerRead = 0
      BY DEF Init
    <2>2. DOMAIN <<>> = {}
      OBVIOUS
    <2> QED BY <2>1, <2>2 DEF PeerSound
  <1> QED BY <1>8, <1>9, <1>10, <1>11, <1>12 DEF Sound

------------------------------------------------------------------------------
(* Every step keeps the five.                                              *)
AppActions == (\E c \in Callers : (\E sz \in Sizes : Resize(c, sz)) \/ CopySize(c))
              \/ Close \/ CloseFinish \/ CloseSocket
PeerActions == PeerReads \/ (\E o \in PeerWill \cup PeerDo : PeerChanges(o)) \/ PeerRepeats
               \/ (\E b \in Streams : PeerSends(b)) \/ HangsUp

(* The steps that put nothing on the wire.                                 *)
LEMMA SilentSteps ==
  ASSUME Read \/ ReadCommand \/ ReaderCopiesSize \/ ReadFails \/ AppActions \/ PeerActions
         \/ UNCHANGED vars
  PROVE  /\ wire' = wire /\ written' = written /\ localWill' = localWill /\ remoteDo' = remoteDo
         /\ conn' = "up" => conn = "up"
  <1>1. CASE Read
    BY <1>1 DEF Read, optVars
  <1>2. CASE ReadCommand
    BY <1>2 DEF ReadCommand, optVars
  <1>3. CASE ReaderCopiesSize
    BY <1>3 DEF ReaderCopiesSize, optVars
  <1>4. CASE ReadFails
    BY <1>4 DEF ReadFails, optVars
  <1>5. CASE AppActions
    <2>1. ASSUME NEW c \in Callers, NEW sz \in Sizes, Resize(c, sz)
          PROVE  /\ wire' = wire /\ written' = written /\ localWill' = localWill
                 /\ remoteDo' = remoteDo /\ conn' = conn
      BY <2>1 DEF Resize, optVars
    <2>2. ASSUME NEW c \in Callers, CopySize(c)
          PROVE  /\ wire' = wire /\ written' = written /\ localWill' = localWill
                 /\ remoteDo' = remoteDo /\ conn' = conn
      BY <2>2 DEF CopySize, optVars
    <2>3. CASE Close
      BY <2>3 DEF Close, optVars
    <2>4. CASE CloseFinish
      BY <2>4 DEF CloseFinish, optVars
    <2>5. CASE CloseSocket
      BY <2>5 DEF CloseSocket, optVars
    <2> QED BY <1>5, <2>1, <2>2, <2>3, <2>4, <2>5 DEF AppActions
  <1>6. CASE PeerActions
    <2>1. PeerKeeps
      BY <1>6 DEF PeerActions, PeerReads, PeerChanges, PeerRepeats, PeerSends, HangsUp
    <2> QED BY <2>1 DEF PeerKeeps, optVars
  <1>7. CASE UNCHANGED vars
    BY <1>7 DEF vars, optVars
  <1> QED BY <1>1, <1>2, <1>3, <1>4, <1>5, <1>6, <1>7

LEMMA WireStep == Sound /\ [Next]_vars => WireSound' /\ OptSound'
  <1> SUFFICES ASSUME Sound, [Next]_vars PROVE WireSound' /\ OptSound'
    OBVIOUS
  <1>1. WireSound /\ OptSound /\ CallSound /\ ReadSound
    BY DEF Sound
  <1>0. crlf' = crlf
    BY DEF Next, vars
  <1>2. CASE Read \/ ReadCommand \/ ReaderCopiesSize \/ ReadFails \/ AppActions \/ PeerActions
             \/ UNCHANGED vars
    <2>1. /\ wire' = wire /\ written' = written /\ localWill' = localWill /\ remoteDo' = remoteDo
          /\ conn' = "up" => conn = "up"
      BY <1>2, SilentSteps
    <2>2. WireSound'
      BY <1>0, <1>1, <2>1, WireStays
    <2>3. OptSound'
      BY <1>1, <2>1 DEF OptSound, NoPingPong, LastIsDeclared
    <2> QED BY <2>2, <2>3
  (* A frame that carries nothing of what was typed and is no command.     *)
  <1>3. ASSUME NEW f \in Seq(Byte), Reads(f, <<>>), ~IsCommand(f),
               IsSizeFrame(f) => SizeOf(f) \in RealSize,
               Out(f) \/ wire' = wire, written' = written, localWill' = localWill,
               remoteDo' = remoteDo, conn' = conn
        PROVE  WireSound' /\ OptSound'
    <2>1. wire' = wire \/ wire' = Append(wire, f)
      BY <1>3 DEF Out
    <2>2. OptSound'
      BY <1>1, <1>3, <2>1, NoCommand
    <2>3. CASE Out(f)
      BY <1>0, <1>1, <1>3, <2>2, <2>3, SaysNothing
    <2>4. CASE wire' = wire
      BY <1>0, <1>1, <1>3, <2>2, <2>4, WireStays
    <2> QED BY <1>3, <2>3, <2>4
  <1>4. CASE Declare
    <2> DEFINE v == reader.verb
               o == reader.opt
               f == Command(Answer(v, o), o)
    <2>1. v \in Verbs /\ o \in Byte /\ Changes(v, o)
      BY <1>1, <1>4 DEF CallSound, Call, Declare
    <2>2. /\ Out(f) /\ written' = written /\ conn' = conn
      BY <1>4 DEF Declare
    <2>3. IF v \in {WILL, WONT}
          THEN remoteDo' = Put(Declared(v), o, Of(Wants(v, o))) /\ localWill' = localWill
          ELSE localWill' = Put(Declared(v), o, Of(Wants(v, o))) /\ remoteDo' = remoteDo
      BY <1>4 DEF Declare
    <2> HIDE DEF v, o
    <2>4. Answer(v, o) \in Verbs
      BY DEF Answer, Verbs
    <2>5. f \in Seq(Byte) /\ Reads(f, <<>>) /\ ~IsSizeFrame(f)
      BY <2>1, <2>4, CommandIs
    <2>6. OptSound'
      BY <1>1, <2>1, <2>2, <2>3, DeclareKeeps
    <2> HIDE DEF f
    <2>7. WireSound'
      BY <1>0, <1>1, <2>2, <2>5, SaysNothing
    <2> QED BY <2>6, <2>7
  <1>5. CASE ReaderSendsSize
    <2>1. reader.size \in RealSize
      BY <1>1, <1>5 DEF CallSound, ReaderSendsSize
    <2>2. /\ Out(NawsFrame(reader.size)) /\ written' = written /\ localWill' = localWill
          /\ remoteDo' = remoteDo /\ conn' = conn
      BY <1>5 DEF ReaderSendsSize, optVars
    <2>3. /\ NawsFrame(reader.size) \in Seq(Byte) /\ Reads(NawsFrame(reader.size), <<>>)
          /\ ~IsCommand(NawsFrame(reader.size)) /\ SizeOf(NawsFrame(reader.size)) = reader.size
      BY <2>1, NawsIs
    <2> QED BY <1>3, <2>1, <2>2, <2>3
  <1>6. ASSUME NEW c \in Callers, SendSize(c) PROVE WireSound' /\ OptSound'
    <2> DEFINE z == caller[c].size
    <2>1. z \in RealSize
      BY <1>1, <1>6 DEF CallSound, SendSize
    <2>2. /\ Out(NawsFrame(z)) /\ written' = written /\ localWill' = localWill
          /\ remoteDo' = remoteDo /\ conn' = conn
      BY <1>6 DEF SendSize, optVars
    <2> HIDE DEF z
    <2>3. /\ NawsFrame(z) \in Seq(Byte) /\ Reads(NawsFrame(z), <<>>)
          /\ ~IsCommand(NawsFrame(z)) /\ SizeOf(NawsFrame(z)) = z
      BY <2>1, NawsIs
    <2> QED BY <1>3, <2>1, <2>2, <2>3
  <1>7. CASE EndSubneg
    <2>1. /\ Out(TTypeFrame) \/ wire' = wire
          /\ written' = written /\ localWill' = localWill /\ remoteDo' = remoteDo /\ conn' = conn
      BY <1>7 DEF EndSubneg, optVars
    <2> QED BY <1>3, <2>1, TTypeIs
  <1>8. ASSUME NEW p \in Texts, Write(p) PROVE WireSound' /\ OptSound'
    <2>1. p \in Seq(Byte)
      BY TelnetAssumption DEF TelnetAssumption
    <2>2. localWill' = localWill /\ remoteDo' = remoteDo /\ conn' = conn
      BY <1>8 DEF Write, optVars
    <2>3. \/ wire' = Append(wire, TransformWrite(p)) /\ written' = Append(written, p)
          \/ wire' = wire /\ written' = written
      BY <1>8 DEF Write
    <2>4. TransformWrite(p) \in Seq(Byte) /\ ~IsCommand(TransformWrite(p))
      BY <2>1, TextIs
    <2>5. OptSound'
      BY <1>1, <2>2, <2>3, <2>4, NoCommand
    <2>6. CASE wire' = Append(wire, TransformWrite(p)) /\ written' = Append(written, p)
      BY <1>0, <1>1, <2>1, <2>5, <2>6, SaysText
    <2>7. CASE wire' = wire /\ written' = written
      BY <1>0, <1>1, <2>5, <2>7, WireStays
    <2> QED BY <2>3, <2>6, <2>7
  <1> QED BY <1>2, <1>4, <1>5, <1>6, <1>7, <1>8
          DEF Next, Reader, Caller, Peer, AppActions, PeerActions

(* What the far end says is bytes.                                         *)
LEMMA PeerSays ==
  ASSUME PeerActions, WireSound, PeerSound, inbound \in Seq(Byte)
  PROVE  inbound' \in Seq(Byte) /\ PeerSound'
  <1>1. \A x \in Seq(Byte) : inbound \o x \in Seq(Byte)
    BY ConcatProperties
  <1>2. \A v \in Verbs, o \in Byte : Command(v, o) \in Seq(Byte)
    BY CommandIs
  <1>3. WILL \in Verbs /\ WONT \in Verbs /\ DO \in Verbs /\ DONT \in Verbs
    BY DEF Verbs
  <1>4. ASSUME NEW m, NEW o \in Byte, NEW flag, DOMAIN m \subseteq Byte
        PROVE  DOMAIN Put(m, o, flag) \subseteq Byte
    BY <1>4 DEF Put
  <1>5. DOMAIN peerWill \subseteq Byte /\ DOMAIN peerDo \subseteq Byte
    BY DEF PeerSound
  <1>6. CASE PeerReads
    <2> DEFINE f == wire[peerRead + 1]
               o == f[3]
    <2>1. CASE ~IsCommand(f)
      <3>1. peerWill' = peerWill /\ peerDo' = peerDo /\ inbound' = inbound
        BY <1>6, <2>1 DEF PeerReads
      <3>2. peerRead' = peerRead + 1
        BY <1>6 DEF PeerReads
      <3> QED BY <3>1, <3>2 DEF PeerSound
    <2>2. CASE IsCommand(f)
      <3>1. o \in Byte
        <4>1. peerRead + 1 \in 1 .. Len(wire)
          BY <1>6, LenProperties DEF PeerReads, PeerSound, WireSound
        <4>2. f \in Seq(Byte)
          BY <4>1, ElementOfSeq DEF WireSound
        <4>3. Len(f) = 3
          BY <2>2 DEF IsCommand
        <4> HIDE DEF f
        <4>4. f \in [1 .. Len(f) -> Byte]
          BY <4>2, LenProperties
        <4>5. f[3] \in Byte
          BY <4>3, <4>4
        <4> QED BY <4>5
      <3>2. \/ inbound' = inbound
            \/ inbound' = inbound \o Command(WILL, o) \/ inbound' = inbound \o Command(WONT, o)
            \/ inbound' = inbound \o Command(DO, o) \/ inbound' = inbound \o Command(DONT, o)
        BY <1>6, <2>2 DEF PeerReads, Says
      <3>3. /\ peerRead' = peerRead + 1
            /\ \/ peerDo' = peerDo /\ \E flag : peerWill' = Put(peerWill, o, flag)
               \/ peerWill' = peerWill /\ \E flag : peerDo' = Put(peerDo, o, flag)
        BY <1>6, <2>2 DEF PeerReads
      <3> HIDE DEF o, f
      <3>4. inbound' \in Seq(Byte)
        BY <1>1, <1>2, <1>3, <3>1, <3>2
      <3>5. DOMAIN peerWill' \subseteq Byte /\ DOMAIN peerDo' \subseteq Byte
        BY <1>4, <1>5, <3>1, <3>3
      <3> QED BY <3>3, <3>4, <3>5 DEF PeerSound
    <2> QED BY <2>1, <2>2
  <1>7. ASSUME NEW o \in PeerWill \cup PeerDo, PeerChanges(o)
        PROVE  inbound' \in Seq(Byte) /\ PeerSound'
    <2>1. o \in Byte
      BY TelnetAssumption DEF TelnetAssumption
    <2>2. \/ inbound' = inbound \o Command(WILL, o) \/ inbound' = inbound \o Command(WONT, o)
          \/ inbound' = inbound \o Command(DO, o) \/ inbound' = inbound \o Command(DONT, o)
      BY <1>7 DEF PeerChanges, Says
    <2>3. /\ peerRead' = peerRead
          /\ \/ peerDo' = peerDo /\ \E flag : peerWill' = Put(peerWill, o, flag)
             \/ peerWill' = peerWill /\ \E flag : peerDo' = Put(peerDo, o, flag)
      BY <1>7 DEF PeerChanges
    <2>4. inbound' \in Seq(Byte)
      BY <1>1, <1>2, <1>3, <2>1, <2>2
    <2>5. DOMAIN peerWill' \subseteq Byte /\ DOMAIN peerDo' \subseteq Byte
      BY <1>4, <1>5, <2>1, <2>3
    <2> QED BY <2>3, <2>4, <2>5 DEF PeerSound
  <1>8. CASE PeerRepeats
    <2>1. /\ peerWill' = peerWill /\ peerDo' = peerDo /\ peerRead' = peerRead
      BY <1>8 DEF PeerRepeats, peerVars
    <2>2. \/ \E o \in DOMAIN peerWill : \/ inbound' = inbound \o Command(WILL, o)
                                       \/ inbound' = inbound \o Command(WONT, o)
          \/ \E o \in DOMAIN peerDo : \/ inbound' = inbound \o Command(DO, o)
                                     \/ inbound' = inbound \o Command(DONT, o)
      BY <1>8 DEF PeerRepeats, Says
    <2>3. inbound' \in Seq(Byte)
      BY <1>1, <1>2, <1>3, <1>5, <2>2
    <2> QED BY <2>1, <2>3 DEF PeerSound
  <1>9. ASSUME NEW b \in Streams, PeerSends(b) PROVE inbound' \in Seq(Byte) /\ PeerSound'
    <2>1. b \in Seq(Byte)
      BY TelnetAssumption DEF TelnetAssumption
    <2>2. inbound' = inbound \o b /\ peerWill' = peerWill /\ peerDo' = peerDo /\ peerRead' = peerRead
      BY <1>9 DEF PeerSends, Says, peerVars
    <2> QED BY <1>1, <2>1, <2>2 DEF PeerSound
  <1>10. CASE HangsUp
    <2>1. inbound' = inbound /\ peerWill' = peerWill /\ peerDo' = peerDo /\ peerRead' = peerRead
      BY <1>10 DEF HangsUp, peerVars
    <2> QED BY <2>1 DEF PeerSound
  <1> QED BY <1>6, <1>7, <1>8, <1>9, <1>10 DEF PeerActions

(* The steps that read no byte.                                            *)
LEMMA NoByte ==
  ASSUME \/ Declare \/ ReaderCopiesSize \/ ReaderSendsSize \/ ReadFails \/ PeerActions
         \/ (\E p \in Texts : Write(p)) \/ (\E c \in Callers : SendSize(c)) \/ AppActions
         \/ UNCHANGED vars
  PROVE  state' = state /\ consumed' = consumed /\ got' = got /\ prevCR' = prevCR
  <1>1. CASE Declare
    BY <1>1 DEF Declare, filterVars
  <1>2. CASE ReaderCopiesSize
    BY <1>2 DEF ReaderCopiesSize, filterVars
  <1>3. CASE ReaderSendsSize
    BY <1>3 DEF ReaderSendsSize, filterVars
  <1>4. CASE ReadFails
    BY <1>4 DEF ReadFails, filterVars
  <1>5. CASE PeerActions
    <2>1. PeerKeeps
      BY <1>5 DEF PeerActions, PeerReads, PeerChanges, PeerRepeats, PeerSends, HangsUp
    <2> QED BY <2>1 DEF PeerKeeps
  <1>6. CASE \E p \in Texts : Write(p)
    BY <1>6 DEF Write, filterVars
  <1>7. CASE \E c \in Callers : SendSize(c)
    BY <1>7 DEF SendSize, filterVars
  <1>8. CASE AppActions
    <2>1. UNCHANGED filterVars
      BY <1>8 DEF AppActions, Resize, CopySize, Close, CloseFinish, CloseSocket
    <2> QED BY <2>1 DEF filterVars
  <1>9. CASE UNCHANGED vars
    BY <1>9 DEF vars, filterVars
  <1> QED BY <1>1, <1>2, <1>3, <1>4, <1>5, <1>6, <1>7, <1>8, <1>9

LEMMA ReadStep == Sound /\ [Next]_vars => ReadSound' /\ PeerSound'
  <1> SUFFICES ASSUME Sound, [Next]_vars PROVE ReadSound' /\ PeerSound'
    OBVIOUS
  <1>1. WireSound /\ ReadSound /\ PeerSound
    BY DEF Sound
  <1>2. inbound \in Seq(Byte) /\ state \in States /\ Delivered(state, consumed, got, prevCR)
    BY <1>1 DEF ReadSound
  <1>3. CASE PeerActions
    <2>1. inbound' \in Seq(Byte) /\ PeerSound'
      BY <1>1, <1>2, <1>3, PeerSays
    <2>2. state' = state /\ consumed' = consumed /\ got' = got /\ prevCR' = prevCR
      BY <1>3, NoByte
    <2> QED BY <1>2, <2>1, <2>2 DEF ReadSound
  <1>4. ASSUME UNCHANGED peerVars PROVE PeerSound'
    BY <1>1, <1>4 DEF PeerSound, peerVars
  <1>5. CASE \/ Declare \/ ReaderCopiesSize \/ ReaderSendsSize \/ ReadFails
             \/ (\E p \in Texts : Write(p)) \/ (\E c \in Callers : SendSize(c)) \/ AppActions
             \/ UNCHANGED vars
    <2>1. state' = state /\ consumed' = consumed /\ got' = got /\ prevCR' = prevCR
      BY <1>5, NoByte
    <2>2. inbound' = inbound /\ UNCHANGED peerVars
      <3>1. CASE Declare \/ ReaderCopiesSize \/ ReaderSendsSize \/ ReadFails
        BY <3>1 DEF Declare, ReaderCopiesSize, ReaderSendsSize, ReadFails
      <3>2. CASE (\E p \in Texts : Write(p)) \/ (\E c \in Callers : SendSize(c))
        BY <3>2 DEF Write, SendSize
      <3>3. CASE AppActions
        BY <3>3 DEF AppActions, Resize, CopySize, Close, CloseFinish, CloseSocket
      <3>4. CASE UNCHANGED vars
        BY <3>4 DEF vars
      <3> QED BY <1>5, <3>1, <3>2, <3>3, <3>4
    <2> QED BY <1>2, <1>4, <2>1, <2>2 DEF ReadSound
  <1>6. ASSUME Consume, FilterByte(Head(inbound)) \/ LastByte(Head(inbound)), UNCHANGED peerVars
        PROVE  ReadSound' /\ PeerSound'
    <2> DEFINE c == Head(inbound)
    <2>1. inbound # <<>> /\ inbound' = Tail(inbound) /\ consumed' = Append(consumed, c)
      BY <1>6 DEF Consume
    <2>2. c \in Byte /\ inbound' \in Seq(Byte)
      BY <1>2, <2>1, HeadTailProperties
    <2> HIDE DEF c
    <2>3. FilterByte(c) \/ LastByte(c)
      BY <1>6 DEF c
    <2>4. state' \in States /\ Delivered(state', consumed', got', prevCR')
      BY <1>2, <2>1, <2>2, <2>3, FilterDelivers
    <2> QED BY <1>4, <1>6, <2>2, <2>4 DEF ReadSound
  <1>7. CASE Read
    <2>1. Consume /\ UNCHANGED peerVars
      BY <1>7 DEF Read
    <2>2. FilterByte(Head(inbound)) \/ LastByte(Head(inbound))
      BY <1>7 DEF Read
    <2> QED BY <1>6, <2>1, <2>2
  <1>8. CASE ReadCommand
    <2>1. Consume /\ LastByte(Head(inbound)) /\ UNCHANGED peerVars
      BY <1>8 DEF ReadCommand, LastByte, Negotiating
    <2> QED BY <1>6, <2>1
  <1>9. CASE EndSubneg
    <2>1. SE # IAC
      BY BytesAre
    <2>2. Consume /\ LastByte(Head(inbound)) /\ UNCHANGED peerVars
      BY <1>9, <2>1 DEF EndSubneg, LastByte
    <2> QED BY <1>6, <2>2
  <1> QED BY <1>3, <1>5, <1>7, <1>8, <1>9
          DEF Next, Reader, Caller, Peer, AppActions, PeerActions

LEMMA CallStep == Sound /\ [Next]_vars => CallSound'
  <1> SUFFICES ASSUME Sound, [Next]_vars PROVE CallSound'
    OBVIOUS
  <1>1. CallSound /\ ReadSound
    BY DEF Sound
  <1>2. /\ size \in RealSize /\ reader \in Call /\ caller \in [Callers -> Call]
        /\ reader.step = "send" => reader.size \in RealSize
        /\ \A c \in Callers : caller[c].step = "send" => caller[c].size \in RealSize
        /\ reader.step = "declare" => reader.verb \in Verbs /\ Changes(reader.verb, reader.opt)
    BY <1>1 DEF CallSound
  <1>3. Idle \in Call /\ [Idle EXCEPT !.step = "size"] \in Call
        /\ Idle.step = "idle" /\ [Idle EXCEPT !.step = "size"].step = "size"
    <2>1. Idle \in Call /\ Idle.step = "idle"
      BY IdleIsCall
    <2> QED BY <2>1 DEF Call
  (* Nothing is declared.                                                  *)
  <1>4. ASSUME size' = size, reader' = reader, caller' = caller, UNCHANGED optVars
        PROVE  CallSound'
    BY <1>1, <1>4 DEF CallSound, Changes, Declared, optVars
  <1>5. ASSUME size' = size, caller' = caller, reader' = Idle \/ reader' = [Idle EXCEPT !.step = "size"]
        PROVE  CallSound'
    <2>1. reader' \in Call /\ reader'.step # "send" /\ reader'.step # "declare"
      BY <1>3, <1>5
    <2> QED BY <1>2, <1>5, <2>1 DEF CallSound
  <1>6. ASSUME size' \in RealSize, reader' = reader, UNCHANGED optVars,
               NEW c \in Callers, NEW r \in Call, caller' = [caller EXCEPT ![c] = r] \/ caller' = caller,
               r.step = "send" => r.size \in RealSize
        PROVE  CallSound'
    <2>1. caller' \in [Callers -> Call]
      BY <1>2, <1>6
    <2>2. \A d \in Callers : caller'[d].step = "send" => caller'[d].size \in RealSize
      BY <1>2, <1>6
    <2>3. reader'.step = "declare" => reader'.verb \in Verbs /\ Changes(reader.verb, reader.opt)'
      BY <1>2, <1>6 DEF Changes, Declared, optVars
    <2> QED BY <1>2, <1>6, <2>1, <2>2, <2>3 DEF CallSound
  <1>7. CASE Read \/ EndSubneg \/ ReadFails
    <2>1. size' = size /\ reader' = reader /\ caller' = caller /\ UNCHANGED optVars
      BY <1>7 DEF Read, EndSubneg, ReadFails
    <2> QED BY <1>4, <2>1
  <1>8. CASE PeerActions
    <2>1. PeerKeeps
      BY <1>8 DEF PeerActions, PeerReads, PeerChanges, PeerRepeats, PeerSends, HangsUp
    <2>2. size' = size /\ reader' = reader /\ caller' = caller /\ UNCHANGED optVars
      BY <2>1 DEF PeerKeeps
    <2> QED BY <1>4, <2>2
  <1>9. CASE Close \/ CloseFinish \/ CloseSocket
    <2>1. size' = size /\ reader' = reader /\ caller' = caller /\ UNCHANGED optVars
      BY <1>9 DEF Close, CloseFinish, CloseSocket
    <2> QED BY <1>4, <2>1
  <1>10. CASE \E p \in Texts : Write(p)
    <2>1. size' = size /\ reader' = reader /\ caller' = caller /\ UNCHANGED optVars
      BY <1>10 DEF Write
    <2> QED BY <1>4, <2>1
  <1>11. CASE UNCHANGED vars
    BY <1>4, <1>11 DEF vars
  <1>12. CASE Declare \/ ReaderSendsSize
    <2>1. size' = size /\ caller' = caller /\ (reader' = Idle \/ reader' = [Idle EXCEPT !.step = "size"])
      BY <1>12 DEF Declare, ReaderSendsSize
    <2> QED BY <1>5, <2>1
  <1>13. CASE ReaderCopiesSize
    <2>1. size' = size /\ caller' = caller /\ reader' = [reader EXCEPT !.step = "send", !.size = size]
      BY <1>13 DEF ReaderCopiesSize
    <2>2. reader' \in Call /\ reader'.step = "send" /\ reader'.size \in RealSize
      BY <1>2, <2>1 DEF Call
    <2> QED BY <1>2, <2>1, <2>2 DEF CallSound
  <1>14. CASE ReadCommand
    <2> DEFINE v == VerbOf(state)
               c == Head(inbound)
               r == [step |-> "declare", verb |-> v, opt |-> c, size |-> <<>>]
    <2>1. /\ inbound # <<>> /\ state \in Negotiating /\ Changes(v, c) /\ reader' = r
          /\ size' = size /\ caller' = caller /\ UNCHANGED optVars
      BY <1>14 DEF ReadCommand, Consume, Negotiating
    <2>2. c \in Byte
      BY <1>1, <2>1, HeadTailProperties DEF ReadSound
    <2>3. v \in Verbs /\ v \in Byte
      <3>1. v \in Verbs
        BY <2>1 DEF Negotiating, VerbOf, Verbs
      <3> QED BY <3>1, BytesAre
    <2> HIDE DEF v, c
    <2>4. r \in Call /\ r.step = "declare" /\ r.verb = v /\ r.opt = c
      BY <2>2, <2>3 DEF Call
    <2>5. localWill' = localWill /\ remoteDo' = remoteDo
      BY <2>1 DEF optVars
    <2> HIDE DEF r
    <2>6. Changes(reader.verb, reader.opt)'
      <3>1. reader'.verb = v /\ reader'.opt = c
        BY <2>1, <2>4
      <3> QED BY <2>1, <2>5, <3>1 DEF Changes, Declared
    <2> QED BY <1>2, <2>1, <2>3, <2>4, <2>6 DEF CallSound
  <1>15. ASSUME NEW c \in Callers, NEW sz \in Sizes, Resize(c, sz) PROVE CallSound'
    <2>1. size' = sz /\ sz \in RealSize /\ reader' = reader /\ UNCHANGED optVars
      BY <1>15 DEF Resize, RealSize
    <2>2. PICK r \in Call : /\ caller' = [caller EXCEPT ![c] = r] \/ caller' = caller
                            /\ r.step # "send"
      BY <1>3, <1>15 DEF Resize
    <2> QED BY <1>6, <2>1, <2>2
  <1>16. ASSUME NEW c \in Callers, CopySize(c) PROVE CallSound'
    <2> DEFINE r == [caller[c] EXCEPT !.step = "send", !.size = size]
    <2>1. size' = size /\ reader' = reader /\ caller' = [caller EXCEPT ![c] = r] /\ UNCHANGED optVars
      BY <1>16 DEF CopySize
    <2>2. r \in Call /\ r.step = "send" /\ r.size \in RealSize
      BY <1>2 DEF Call
    <2> HIDE DEF r
    <2> QED BY <1>2, <1>6, <2>1, <2>2
  <1>17. ASSUME NEW c \in Callers, SendSize(c) PROVE CallSound'
    <2>1. size' = size /\ reader' = reader /\ caller' = [caller EXCEPT ![c] = Idle] /\ UNCHANGED optVars
      BY <1>17 DEF SendSize
    <2> QED BY <1>2, <1>3, <1>6, <2>1
  <1> QED BY <1>7, <1>8, <1>9, <1>10, <1>11, <1>12, <1>13, <1>14, <1>15, <1>16, <1>17
          DEF Next, Reader, Caller, Peer, PeerActions

------------------------------------------------------------------------------
(* The program never says the same thing about one option twice running,   *)
(* whatever the far end says or repeats and whoever writes, resizes or     *)
(* closes meanwhile (onWill, onWont, onDo, onDont).                        *)
THEOREM NegotiationEnds == Spec => []NoPingPong
  <1>1. Sound /\ [Next]_vars => Sound'
    BY WireStep, ReadStep, CallStep DEF Sound
  <1>2. Sound => NoPingPong
    BY DEF Sound, OptSound
  <1> QED BY <1>1, <1>2, SoundInit, PTL DEF Spec

(* The terminal gets the far end's bytes and nothing else, however they    *)
(* are cut into reads; the wire, read as the protocol says, carries what   *)
(* was typed and only sizes that were set (filter, transformWrite,         *)
(* nawsFrame, rawWrite).                                                   *)
THEOREM BytesIntact == Spec => []DataIntact
  <1>1. Sound /\ [Next]_vars => Sound'
    BY WireStep, ReadStep, CallStep DEF Sound
  <1>2. ReadSound => ReadsIntact
    <2> SUFFICES ASSUME ReadSound PROVE got = BareCR(DataOf[consumed])
      BY DEF ReadsIntact
    <2>1. PICK tail \in Seq(Byte), d \in Seq(Byte) :
            SoFar(consumed, d, tail) /\ Pending(state, tail) /\ got = BareCR(d)
      BY DEF ReadSound, Delivered
    <2>2. PICK base : Reads(base, d) /\ consumed = base \o tail
      BY <2>1 DEF SoFar
    <2>3. DataOf[base \o tail] = d \o DataOf[tail]
      BY <2>2 DEF Reads
    <2>4. DataOf[tail] = <<>>
      BY <2>1, PendingCarriesNothing DEF ReadSound
    <2>5. d \o <<>> = d
      BY ConcatEmptySeq
    <2>6. DataOf[consumed] = d
      BY <2>2, <2>3, <2>4, <2>5
    <2> QED BY <2>1, <2>6
  <1>3. WireSound => WritesIntact
    <2> SUFFICES ASSUME WireSound PROVE WritesIntact
      OBVIOUS
    <2>1. DataOf[FlattenSeq(wire)] = Carried(written)
      BY ReadsData DEF WireSound
    <2> QED BY <2>1 DEF WireSound, WritesIntact, Carried, RealSize
  <1>4. Sound => DataIntact
    BY <1>2, <1>3 DEF Sound, DataIntact
  <1> QED BY <1>1, <1>4, SoundInit, PTL DEF Spec
------------------------------------------------------------------------------
(* What the filter will meet in the bytes that are on their way: its state *)
(* before and after every one of them, and the commands that end there.    *)
Turn(st, c) ==
  CASE st = "data"        -> IF c = IAC THEN "iac" ELSE "data"
    [] st = "iac"         -> IF c \in Verbs THEN CommandState(c) ELSE IF c = SB THEN "sb" ELSE "data"
    [] st \in Negotiating -> "data"
    [] st = "sb"          -> "sbData"
    [] st = "sbData"      -> IF c = IAC THEN "sbIac" ELSE "sbData"
    [] st = "sbIac"       -> IF c = IAC THEN "sbData" ELSE "data"
Walk(h, st, s) == /\ h \in [0 .. Len(s) -> States] /\ h[0] = st /\ h[Len(s)] = "data"
                  /\ \A j \in 1 .. Len(s) : h[j] = Turn(h[j - 1], s[j])
Ends(h, s) == {j \in 1 .. Len(s) : h[j - 1] \in Negotiating}
Met(h, s) == {<<VerbOf(h[j - 1]), s[j]>> : j \in Ends(h, s)}
Coming(st, s, K) == \E h : Walk(h, st, s) /\ K = Met(h, s)

LEMMA ComingNothing ==
  /\ Coming("data", <<>>, {})
  /\ \A st, K : Coming(st, <<>>, K) => K = {}
  <1> DEFINE e == <<>>
  <1>1. Len(e) = 0 /\ 1 .. Len(e) = {}
    OBVIOUS
  <1> HIDE DEF e
  <1>2. ASSUME NEW h PROVE Met(h, e) = {}
    BY <1>1 DEF Met, Ends
  <1>3. Coming("data", e, {})
    <2> DEFINE h == [j \in 0 .. Len(e) |-> "data"]
    <2>1. Walk(h, "data", e)
      BY <1>1 DEF Walk, States
    <2> QED BY <1>2, <2>1 DEF Coming
  <1>4. ASSUME NEW st, NEW K, Coming(st, e, K) PROVE K = {}
    BY <1>2, <1>4 DEF Coming
  <1> QED BY <1>3, <1>4 DEF e

(* The next byte.                                                          *)
Follows(st, s, K) ==
  \E L : /\ Coming(Turn(st, Head(s)), Tail(s), L)
         /\ K = L \cup (IF st \in Negotiating THEN {<<VerbOf(st), Head(s)>>} ELSE {})

LEMMA ComingStep ==
  ASSUME NEW st, NEW s \in Seq(Byte), s # <<>>, NEW K, Coming(st, s, K)
  PROVE  Follows(st, s, K)
  <1>1. PICK h : Walk(h, st, s) /\ K = Met(h, s)
    BY DEF Coming
  <1> DEFINE t == Tail(s)
             n == Len(s)
             g == [j \in 0 .. Len(t) |-> h[j + 1]]
             L == Met(g, t)
             First == IF st \in Negotiating THEN {<<VerbOf(st), Head(s)>>} ELSE {}
  <1>2. /\ n \in Nat \ {0} /\ t \in Seq(Byte) /\ Len(t) = n - 1
        /\ \A i \in 1 .. Len(t) : t[i] = s[i + 1]
        /\ Head(s) = s[1]
    BY HeadTailProperties, EmptySeq, LenProperties
  <1> HIDE DEF n, t
  <1>3. /\ h \in [0 .. n -> States] /\ h[0] = st /\ h[n] = "data"
        /\ \A j \in 1 .. n : h[j] = Turn(h[j - 1], s[j])
    BY <1>1 DEF Walk, n
  <1>4. h[1] = Turn(st, Head(s))
    <2>1. 1 \in 1 .. n /\ 1 - 1 = 0
      BY <1>2
    <2> QED BY <1>2, <1>3, <2>1
  <1>5. Walk(g, h[1], t)
    <2>1. \A j \in 0 .. Len(t) : g[j] = h[j + 1] /\ g[j] \in States
      BY <1>2, <1>3
    <2>2. g[0] = h[1] /\ g[Len(t)] = h[n]
      BY <1>2
    <2>3. ASSUME NEW j \in 1 .. Len(t) PROVE g[j] = Turn(g[j - 1], t[j])
      <3>1. j + 1 \in 1 .. n /\ j - 1 \in 0 .. Len(t) /\ j \in 0 .. Len(t) /\ (j + 1) - 1 = (j - 1) + 1
        BY <1>2
      <3>2. h[j + 1] = Turn(h[(j + 1) - 1], s[j + 1])
        BY <1>3, <3>1
      <3> QED BY <1>2, <2>1, <3>1, <3>2
    <2> HIDE DEF g
    <2>4. g \in [0 .. Len(t) -> States]
      BY <2>1 DEF g
    <2> QED BY <1>3, <2>2, <2>3, <2>4 DEF Walk
  <1>6. Ends(h, s) = (IF st \in Negotiating THEN {1} ELSE {}) \cup {j + 1 : j \in Ends(g, t)}
    <2>1. ASSUME NEW i \in 1 .. n
          PROVE  i \in Ends(h, s) <=>
                   (i = 1 /\ st \in Negotiating) \/ (\E j \in Ends(g, t) : i = j + 1)
      <3>1. CASE i = 1
        <4>1. ~\E j \in Ends(g, t) : i = j + 1
          <5> HIDE DEF g
          <5>1. \A j \in Ends(g, t) : j \in Nat /\ j >= 1
            BY <1>2 DEF Ends
          <5> QED BY <3>1, <5>1
        <4>2. i - 1 = 0
          BY <3>1
        <4> QED BY <1>3, <3>1, <4>1, <4>2 DEF Ends, n
      <3>2. CASE i # 1
        <4> DEFINE j == i - 1
        <4>1. j \in 1 .. Len(t) /\ i = j + 1 /\ j - 1 \in 0 .. Len(t) /\ (j - 1) + 1 = i - 1
          BY <1>2, <3>2
        <4>2. g[j - 1] = h[i - 1]
          BY <4>1
        <4> HIDE DEF j, g
        <4>3. i \in Ends(h, s) <=> j \in Ends(g, t)
          BY <4>1, <4>2 DEF Ends, n
        <4>4. \A k \in Ends(g, t) : i = k + 1 => k = j
          BY <4>1 DEF Ends
        <4> QED BY <3>2, <4>1, <4>3, <4>4
      <3> QED BY <3>1, <3>2
    <2>2. Ends(h, s) \subseteq 1 .. n
      BY DEF Ends, n
    <2>3. \A j \in Ends(g, t) : j + 1 \in 1 .. n
      BY <1>2 DEF Ends
    <2>4. 1 \in 1 .. n
      BY <1>2
    <2> HIDE DEF g
    <2> QED BY <2>1, <2>2, <2>3, <2>4
  <1>7. ASSUME NEW j \in Ends(g, t) PROVE <<VerbOf(h[(j + 1) - 1]), s[j + 1]>> = <<VerbOf(g[j - 1]), t[j]>>
    <2>1. j \in 1 .. Len(t)
      BY DEF Ends
    <2>2. j - 1 \in 0 .. Len(t) /\ (j + 1) - 1 = (j - 1) + 1
      BY <1>2, <2>1
    <2>3. g[j - 1] = h[(j + 1) - 1]
      BY <2>2
    <2> QED BY <1>2, <2>1, <2>3
  <1> HIDE DEF g
  <1>8. K = L \cup First
    <2>1. L = {<<VerbOf(h[(j + 1) - 1]), s[j + 1]>> : j \in Ends(g, t)}
      BY <1>7 DEF Met
    <2>2. K = {<<VerbOf(h[i - 1]), s[i]>> : i \in Ends(h, s)}
      BY <1>1 DEF Met
    <2>3. 1 - 1 = 0 /\ h[0] = st /\ s[1] = Head(s)
      BY <1>2, <1>3
    <2> HIDE DEF L
    <2>4. CASE st \in Negotiating
      <3>1. Ends(h, s) = {1} \cup {j + 1 : j \in Ends(g, t)}
        BY <1>6, <2>4
      <3> QED BY <2>1, <2>2, <2>3, <2>4, <3>1
    <2>5. CASE st \notin Negotiating
      <3>1. Ends(h, s) = {j + 1 : j \in Ends(g, t)}
        BY <1>6, <2>5
      <3> QED BY <2>1, <2>2, <2>5, <3>1
    <2> QED BY <2>4, <2>5
  <1>9. Coming(h[1], t, L)
    BY <1>5 DEF Coming
  <1> HIDE DEF L
  <1> QED BY <1>4, <1>8, <1>9 DEF t, Follows

(* More bytes behind those on their way.                                   *)
LEMMA ComingMore ==
  ASSUME NEW st, NEW s \in Seq(Byte), NEW b \in Seq(Byte), NEW K, NEW L,
         Coming(st, s, K), Coming("data", b, L)
  PROVE  Coming(st, s \o b, K \cup L)
  <1>1. PICK h : Walk(h, st, s) /\ K = Met(h, s)
    BY DEF Coming
  <1>2. PICK g : Walk(g, "data", b) /\ L = Met(g, b)
    BY DEF Coming
  <1> DEFINE u == s \o b
             n == Len(s)
             m == Len(b)
             f == [j \in 0 .. n + m |-> IF j <= n THEN h[j] ELSE g[j - n]]
  <1>3. /\ n \in Nat /\ m \in Nat /\ u \in Seq(Byte) /\ Len(u) = n + m
        /\ \A i \in 1 .. n + m : u[i] = IF i <= n THEN s[i] ELSE b[i - n]
    BY ConcatProperties, LenProperties
  <1> HIDE DEF u, n, m
  <1>4. /\ h \in [0 .. n -> States] /\ h[0] = st /\ h[n] = "data"
        /\ \A j \in 1 .. n : h[j] = Turn(h[j - 1], s[j])
    BY <1>1 DEF Walk, n
  <1>5. /\ g \in [0 .. m -> States] /\ g[0] = "data" /\ g[m] = "data"
        /\ \A j \in 1 .. m : g[j] = Turn(g[j - 1], b[j])
    BY <1>2 DEF Walk, m
  <1>6. \A j \in 0 .. n : f[j] = h[j]
    BY <1>3
  <1>7. \A k \in 0 .. m : f[n + k] = g[k]
    <2> SUFFICES ASSUME NEW k \in 0 .. m PROVE f[n + k] = g[k]
      OBVIOUS
    <2>1. CASE k = 0
      <3>1. n + k = n /\ n \in 0 .. n
        BY <1>3, <2>1
      <3> QED BY <1>4, <1>5, <1>6, <2>1, <3>1
    <2>2. CASE k # 0
      <3>1. n + k \in 0 .. n + m /\ ~(n + k <= n) /\ (n + k) - n = k
        BY <1>3, <2>2
      <3> QED BY <3>1
    <2> QED BY <2>1, <2>2
  <1>8. \A j \in 0 .. n + m : f[j] \in States
    <2> SUFFICES ASSUME NEW j \in 0 .. n + m PROVE f[j] \in States
      OBVIOUS
    <2>1. j <= n => j \in 0 .. n
      BY <1>3
    <2>2. ~(j <= n) => j - n \in 0 .. m
      BY <1>3
    <2> QED BY <1>4, <1>5, <2>1, <2>2
  <1>9. f \in [0 .. n + m -> States]
    BY <1>8
  <1> HIDE DEF f
  <1>10. Walk(f, st, u)
    <2>1. f[0] = st /\ f[n + m] = "data"
      <3>1. 0 \in 0 .. n /\ m \in 0 .. m
        BY <1>3
      <3> QED BY <1>4, <1>5, <1>6, <1>7, <3>1
    <2>2. ASSUME NEW j \in 1 .. n + m PROVE f[j] = Turn(f[j - 1], u[j])
      <3>1. CASE j <= n
        <4>1. j \in 1 .. n /\ j \in 0 .. n /\ j - 1 \in 0 .. n
          BY <1>3, <3>1
        <4>2. f[j] = h[j] /\ f[j - 1] = h[j - 1] /\ u[j] = s[j]
          BY <1>3, <1>6, <3>1, <4>1
        <4> QED BY <1>4, <4>1, <4>2
      <3>2. CASE ~(j <= n)
        <4> DEFINE k == j - n
        <4>1. k \in 1 .. m /\ k \in 0 .. m /\ k - 1 \in 0 .. m /\ j = n + k /\ j - 1 = n + (k - 1)
          BY <1>3, <3>2
        <4>2. u[j] = b[k]
          BY <1>3, <3>2
        <4> HIDE DEF k
        <4>3. f[j] = g[k] /\ f[j - 1] = g[k - 1]
          BY <1>7, <4>1
        <4> QED BY <1>5, <4>1, <4>2, <4>3
      <3> QED BY <3>1, <3>2
    <2> QED BY <1>3, <1>9, <2>1, <2>2 DEF Walk
  <1>11. Met(f, u) = Met(h, s) \cup Met(g, b)
    <2>1. ASSUME NEW j \in Ends(h, s)
          PROVE  j \in Ends(f, u) /\ <<VerbOf(f[j - 1]), u[j]>> = <<VerbOf(h[j - 1]), s[j]>>
      <3>1. j \in 1 .. n /\ h[j - 1] \in Negotiating
        BY DEF Ends, n
      <3>2. j \in 1 .. n + m /\ j - 1 \in 0 .. n /\ j <= n
        BY <1>3, <3>1
      <3>3. f[j - 1] = h[j - 1] /\ u[j] = s[j]
        BY <1>3, <1>6, <3>2
      <3> QED BY <1>3, <3>1, <3>2, <3>3 DEF Ends
    <2>2. ASSUME NEW k \in Ends(g, b)
          PROVE  n + k \in Ends(f, u) /\ <<VerbOf(f[(n + k) - 1]), u[n + k]>> = <<VerbOf(g[k - 1]), b[k]>>
      <3>1. k \in 1 .. m /\ g[k - 1] \in Negotiating
        BY DEF Ends, m
      <3>2. n + k \in 1 .. n + m /\ k - 1 \in 0 .. m /\ ~(n + k <= n) /\ (n + k) - n = k
            /\ (n + k) - 1 = n + (k - 1)
        BY <1>3, <3>1
      <3>3. f[(n + k) - 1] = g[k - 1] /\ u[n + k] = b[k]
        BY <1>3, <1>7, <3>2
      <3> QED BY <1>3, <3>1, <3>2, <3>3 DEF Ends
    <2>3. ASSUME NEW i \in Ends(f, u)
          PROVE  i \in Ends(h, s) \/ \E k \in Ends(g, b) : i = n + k
      <3>1. i \in 1 .. n + m /\ f[i - 1] \in Negotiating
        BY <1>3 DEF Ends
      <3>2. CASE i <= n
        <4>1. i \in 1 .. n /\ i - 1 \in 0 .. n
          BY <1>3, <3>1, <3>2
        <4> QED BY <1>6, <3>1, <4>1 DEF Ends, n
      <3>3. CASE ~(i <= n)
        <4> DEFINE k == i - n
        <4>1. k \in 1 .. m /\ k - 1 \in 0 .. m /\ i = n + k /\ i - 1 = n + (k - 1)
          BY <1>3, <3>1, <3>3
        <4> HIDE DEF k
        <4>2. f[i - 1] = g[k - 1]
          BY <1>7, <4>1
        <4> QED BY <3>1, <4>1, <4>2 DEF Ends, m
      <3> QED BY <3>2, <3>3
    <2>4. Met(h, s) \subseteq Met(f, u)
      BY <2>1 DEF Met
    <2>5. Met(g, b) \subseteq Met(f, u)
      BY <2>2 DEF Met
    <2>6. ASSUME NEW x \in Met(f, u) PROVE x \in Met(h, s) \cup Met(g, b)
      <3>1. PICK i \in Ends(f, u) : x = <<VerbOf(f[i - 1]), u[i]>>
        BY DEF Met
      <3>2. CASE i \in Ends(h, s)
        <4>1. x = <<VerbOf(h[i - 1]), s[i]>>
          BY <2>1, <3>1, <3>2
        <4>2. x \in Met(h, s)
          BY <3>2, <4>1 DEF Met
        <4> QED BY <4>2
      <3>3. ASSUME NEW k \in Ends(g, b), i = n + k PROVE x \in Met(g, b)
        <4>1. x = <<VerbOf(g[k - 1]), b[k]>>
          BY <2>2, <3>1, <3>3
        <4> QED BY <4>1 DEF Met
      <3> QED BY <2>3, <3>2, <3>3
    <2> QED BY <2>4, <2>5, <2>6
  <1>12. K \cup L = Met(f, u)
    BY <1>1, <1>2, <1>11
  <1> QED BY <1>10, <1>12 DEF Coming, u

(* A command.                                                              *)
LEMMA ComingCommand ==
  ASSUME NEW v \in Verbs, NEW o \in Byte
  PROVE  Coming("data", Command(v, o), {<<v, o>>})
  <1> DEFINE s == <<IAC, v, o>>
             h == [j \in 0 .. 3 |-> IF j = 1 THEN "iac" ELSE IF j = 2 THEN CommandState(v) ELSE "data"]
  <1>1. CommandState(v) \in Negotiating /\ VerbOf(CommandState(v)) = v
    BY DEF CommandState, VerbOf, Negotiating, Verbs, WILL, WONT, DO, DONT
  <1>2. /\ Turn("data", IAC) = "iac" /\ Turn("iac", v) = CommandState(v)
        /\ Turn(CommandState(v), o) = "data"
    <2>1. Turn("data", IAC) = "iac"
      BY DEF Turn, Negotiating
    <2>2. Turn("iac", v) = CommandState(v)
      BY DEF Turn, Negotiating
    <2>3. \A st \in Negotiating : Turn(st, o) = "data"
      BY DEF Turn, Negotiating
    <2> QED BY <1>1, <2>1, <2>2, <2>3
  <1>3. Len(s) = 3 /\ s[1] = IAC /\ s[2] = v /\ s[3] = o
    OBVIOUS
  <1>4. h[0] = "data" /\ h[1] = "iac" /\ h[2] = CommandState(v) /\ h[3] = "data"
    OBVIOUS
  <1>5. h \in [0 .. 3 -> States]
    BY <1>1 DEF States
  <1> HIDE DEF s, h
  <1>6. Walk(h, "data", s)
    <2>1. \A j \in 1 .. 3 : j = 1 \/ j = 2 \/ j = 3
      OBVIOUS
    <2>2. \A j \in 1 .. 3 : h[j] = Turn(h[j - 1], s[j])
      BY <1>2, <1>3, <1>4, <2>1
    <2> QED BY <1>3, <1>4, <1>5, <2>2 DEF Walk
  <1>7. Ends(h, s) = {3}
    <2>1. "data" \notin Negotiating /\ "iac" \notin Negotiating
      BY DEF Negotiating
    <2> QED BY <1>1, <1>3, <1>4, <2>1 DEF Ends
  <1>8. Met(h, s) = {<<v, o>>}
    BY <1>1, <1>3, <1>4, <1>7 DEF Met
  <1> QED BY <1>6, <1>8 DEF Coming, Command, s

------------------------------------------------------------------------------
(* A matter is an option on one side: "theirs" if the far end performs it, *)
(* "ours" if the program does.                                             *)
Sides == {"theirs", "ours"}
Replies == {"yes", "no"}
Mine(s) == IF s = "theirs" THEN remoteDo ELSE localWill
Theirs(s) == IF s = "theirs" THEN peerWill ELSE peerDo
Willing(s) == IF s = "theirs" THEN PeerWill ELSE PeerDo
OurVerb(s, a) == IF s = "theirs" THEN (IF a = "yes" THEN DO ELSE DONT)
                                 ELSE (IF a = "yes" THEN WILL ELSE WONT)
TheirVerb(s, a) == IF s = "theirs" THEN (IF a = "yes" THEN WILL ELSE WONT)
                                   ELSE (IF a = "yes" THEN DO ELSE DONT)

(* The far end reads what was sent.                                        *)
ReadIsSent == peerRead <= Len(wire)

LEMMA ReadIsSentStep == Sound /\ ReadIsSent /\ [Next]_vars => ReadIsSent'
  <1> SUFFICES ASSUME Sound, ReadIsSent, [Next]_vars PROVE ReadIsSent'
    OBVIOUS
  <1>1. wire \in Seq(Seq(Byte)) /\ Len(wire) \in Nat /\ peerRead \in Nat
    BY LenProperties DEF Sound, WireSound, PeerSound
  <1>2. ASSUME peerRead' = peerRead, wire' = wire PROVE ReadIsSent'
    BY <1>2 DEF ReadIsSent
  <1>3. ASSUME NEW f, peerRead' = peerRead, wire' = Append(wire, f) PROVE ReadIsSent'
    <2>1. Len(wire') = Len(wire) + 1
      BY <1>1, <1>3, AppendProperties
    <2> QED BY <1>1, <1>3, <2>1 DEF ReadIsSent
  <1>4. CASE PeerReads
    <2>1. peerRead < Len(wire) /\ peerRead' = peerRead + 1 /\ PeerKeeps
      BY <1>4 DEF PeerReads
    <2>2. wire' = wire
      BY <2>1 DEF PeerKeeps
    <2> QED BY <1>1, <2>1, <2>2 DEF ReadIsSent
  <1>5. CASE PeerActions /\ ~PeerReads
    <2>1. wire' = wire
      BY <1>5, SilentSteps
    <2>2. peerRead' = peerRead
      BY <1>5 DEF PeerActions, PeerChanges, PeerRepeats, PeerSends, HangsUp, peerVars
    <2> QED BY <1>2, <2>1, <2>2
  <1>6. CASE Read \/ ReadCommand \/ ReaderCopiesSize \/ ReadFails \/ AppActions \/ UNCHANGED vars
    <2>1. wire' = wire
      BY <1>6, SilentSteps
    <2>2. peerRead' = peerRead
      <3>1. CASE Read \/ ReadCommand \/ ReaderCopiesSize \/ ReadFails
        BY <3>1 DEF Read, ReadCommand, ReaderCopiesSize, ReadFails, peerVars
      <3>2. CASE AppActions
        BY <3>2 DEF AppActions, Resize, CopySize, Close, CloseFinish, CloseSocket, peerVars
      <3>3. CASE UNCHANGED vars
        BY <3>3 DEF vars, peerVars
      <3> QED BY <1>6, <3>1, <3>2, <3>3
    <2> QED BY <1>2, <2>1, <2>2
  <1>7. CASE Declare \/ ReaderSendsSize \/ EndSubneg
    <2>1. peerRead' = peerRead
      BY <1>7 DEF Declare, ReaderSendsSize, EndSubneg, peerVars
    <2>2. wire' = wire \/ \E f : wire' = Append(wire, f)
      BY <1>7 DEF Declare, ReaderSendsSize, EndSubneg, Out
    <2> QED BY <1>2, <1>3, <2>1, <2>2
  <1>8. CASE (\E p \in Texts : Write(p)) \/ (\E c \in Callers : SendSize(c))
    <2>1. peerRead' = peerRead
      BY <1>8 DEF Write, SendSize, peerVars
    <2>2. wire' = wire \/ \E f : wire' = Append(wire, f)
      BY <1>8 DEF Write, SendSize, Out
    <2> QED BY <1>2, <1>3, <2>1, <2>2
  <1> QED BY <1>4, <1>5, <1>6, <1>7, <1>8
          DEF Next, Reader, Caller, Peer, AppActions, PeerActions

(* What the program has still to hear of a matter, of the commands in F,   *)
(* and the frames about it that the far end has still to read.             *)
Heard(s, o, F) == {a \in Replies : <<TheirVerb(s, a), o>> \in F}
About(s, o, f) == IsCommand(f) /\ f[3] = o /\ f[2] \in {OurVerb(s, "yes"), OurVerb(s, "no")}
Unread(s, o) == {i \in peerRead + 1 .. Len(wire) : About(s, o, wire[i])}

(* r is what the program declared, p what the far end did, H what has to   *)
(* be heard and U what has to be read.                                     *)
Fits(r, p, H, U) ==
  /\ r \in Replies \cup {"undeclared"} /\ p \in Replies \cup {"undeclared"}
  /\ H \subseteq {p} /\ (p = "undeclared" => H = {})
  /\ \A i, j \in U : i = j
  /\ p = "undeclared" => r = "undeclared" \/ (r = "yes" /\ U # {})
  /\ p # "undeclared" /\ r # p => H # {}
  /\ p # "undeclared" /\ U # {} => r = p
  /\ r = "undeclared" => p # "no"
Taking(s, o, F) ==
  /\ Fits(Flag(Mine(s), o), Flag(Theirs(s), o), Heard(s, o, F), Unread(s, o))
  /\ \A i \in Unread(s, o) : /\ Flag(Mine(s), o) \in Replies
                             /\ wire[i][2] = OurVerb(s, Flag(Mine(s), o))
  /\ Flag(Theirs(s), o) = "yes" => o \in Willing(s)

(* Of an option the program refuses: it has said no once, and the far end  *)
(* has still to read that, has read it, or has taken the option up again   *)
(* (once more tells which).                                                *)
Refuses(r, p, H, U, once) ==
  /\ r \in {"undeclared", "no"}
  /\ U # {} => r = "no"
  /\ p = "undeclared" => r = "undeclared" /\ H = {}
  /\ p # "undeclared" /\ r = "undeclared" => H # {}
  /\ p = "yes" /\ r = "no" /\ ~once => U # {}
Refusing(s, o, F) ==
  /\ Refuses(Flag(Mine(s), o), Flag(Theirs(s), o), Heard(s, o, F), Unread(s, o), <<s, o>> \in again)
  /\ \A i \in Unread(s, o) : wire[i][2] = OurVerb(s, "no")

Deal(s, o, F) == IF Taken(s, o) THEN Taking(s, o, F) ELSE Refusing(s, o, F)
Deals(F) == \A s \in Sides, o \in Byte : Deal(s, o, F)

(* The other bytes of the far end are no commands.                         *)
StreamsSayNothing == \A b \in Streams : Coming("data", b, {})

LEMMA VerbsDiffer ==
  /\ WILL # WONT /\ WILL # DO /\ WILL # DONT /\ WONT # DO /\ WONT # DONT /\ DO # DONT
  /\ Verbs = {WILL, WONT, DO, DONT}
  BY DEF WILL, WONT, DO, DONT, Verbs

LEMMA WhoseVerb ==
  ASSUME NEW v \in Verbs
  PROVE  /\ \E s \in Sides, a \in Replies : v = TheirVerb(s, a)
         /\ \E s \in Sides, a \in Replies : v = OurVerb(s, a)
  BY VerbsDiffer DEF Sides, Replies, TheirVerb, OurVerb

LEMMA VerbsAre ==
  ASSUME NEW s \in Sides, NEW a \in Replies, NEW t \in Sides, NEW b \in Replies
  PROVE  /\ TheirVerb(s, a) \in Verbs /\ OurVerb(s, a) \in Verbs
         /\ TheirVerb(s, a) = TheirVerb(t, b) <=> s = t /\ a = b
         /\ OurVerb(s, a) = OurVerb(t, b) <=> s = t /\ a = b
  BY VerbsDiffer DEF Sides, Replies, TheirVerb, OurVerb

(* The commands in F are those in G and one that says b of the matter.     *)
Adds(F, G, t, b, x) ==
  \A s \in Sides, o \in Byte :
    Heard(s, o, F) = IF s = t /\ o = x THEN Heard(s, o, G) \cup {b} ELSE Heard(s, o, G)

LEMMA OneMoreHeard ==
  ASSUME NEW F, NEW G, NEW t \in Sides, NEW b \in Replies, NEW x,
         F = G \cup {<<TheirVerb(t, b), x>>}
  PROVE  Adds(F, G, t, b, x)
  <1> SUFFICES ASSUME NEW s \in Sides, NEW o \in Byte
               PROVE  Heard(s, o, F) = IF s = t /\ o = x THEN Heard(s, o, G) \cup {b} ELSE Heard(s, o, G)
    BY DEF Adds
  <1>1. ASSUME NEW a \in Replies
        PROVE  <<TheirVerb(s, a), o>> \in F <=>
                 <<TheirVerb(s, a), o>> \in G \/ (s = t /\ a = b /\ o = x)
    <2>1. TheirVerb(s, a) = TheirVerb(t, b) <=> s = t /\ a = b
      BY VerbsAre
    <2> HIDE DEF TheirVerb
    <2> QED BY <2>1
  <1> QED BY <1>1 DEF Heard

LEMMA TakenIsFixed == ASSUME NEW s, NEW o PROVE Taken(s, o)' = Taken(s, o)
  BY DEF Taken, Wants, WILL, DO, Echo, SGA, NAWS, TType

(* Nothing about a matter has changed.                                     *)
LEMMA DealStays ==
  ASSUME NEW s \in Sides, NEW o, NEW F, NEW G, Deal(s, o, F), Heard(s, o, G) = Heard(s, o, F),
         Flag(Mine(s), o)' = Flag(Mine(s), o), Flag(Theirs(s), o)' = Flag(Theirs(s), o),
         Unread(s, o)' = Unread(s, o), \A i \in Unread(s, o) : wire'[i] = wire[i],
         again \subseteq again'
  PROVE  Deal(s, o, G)'
  <1>1. Heard(s, o, G)' = Heard(s, o, G)
    BY DEF Heard, TheirVerb, WILL, WONT, DO, DONT
  <1>2. CASE Taken(s, o)
    <2>1. Taking(s, o, F)
      BY <1>2 DEF Deal
    <2>2. Fits(Flag(Mine(s), o), Flag(Theirs(s), o), Heard(s, o, G), Unread(s, o))'
      BY <1>1, <2>1 DEF Taking, Fits, Replies
    <2>3. (\A i \in Unread(s, o) : /\ Flag(Mine(s), o) \in Replies
                                   /\ wire[i][2] = OurVerb(s, Flag(Mine(s), o)))'
      BY <2>1 DEF Taking, OurVerb, Replies
    <2>4. (Flag(Theirs(s), o) = "yes" => o \in Willing(s))'
      BY <2>1 DEF Taking, Willing
    <2>5. Taking(s, o, G)'
      BY <2>2, <2>3, <2>4 DEF Taking
    <2> QED BY <1>2, <2>5, TakenIsFixed DEF Deal
  <1>3. CASE ~Taken(s, o)
    <2>1. Refusing(s, o, F)
      BY <1>3 DEF Deal
    <2>2. Refuses(Flag(Mine(s), o), Flag(Theirs(s), o), Heard(s, o, G), Unread(s, o), <<s, o>> \in again)'
      BY <1>1, <2>1 DEF Refusing, Refuses
    <2>3. (\A i \in Unread(s, o) : wire[i][2] = OurVerb(s, "no"))'
      BY <2>1 DEF Refusing, OurVerb
    <2>4. Refusing(s, o, G)'
      BY <2>2, <2>3 DEF Refusing
    <2> QED BY <1>3, <2>4, TakenIsFixed DEF Deal
  <1> QED BY <1>2, <1>3

LEMMA UnreadStays ==
  ASSUME WireSound, PeerSound, peerRead' = peerRead, NEW s, NEW o,
         wire' = wire \/ \E f \in Seq(Byte) : ~About(s, o, f) /\ wire' = Append(wire, f)
  PROVE  Unread(s, o)' = Unread(s, o) /\ \A i \in Unread(s, o) : wire'[i] = wire[i]
  <1>1. wire \in Seq(Seq(Byte)) /\ Len(wire) \in Nat /\ peerRead \in Nat
    BY LenProperties DEF WireSound, PeerSound
  <1>2. ASSUME NEW f PROVE About(s, o, f)' = About(s, o, f)
    BY DEF About, IsCommand, OurVerb
  <1>3. CASE wire' = wire
    BY <1>3 DEF Unread, About
  <1>4. ASSUME NEW f \in Seq(Byte), ~About(s, o, f), wire' = Append(wire, f)
        PROVE  Unread(s, o)' = Unread(s, o) /\ \A i \in Unread(s, o) : wire'[i] = wire[i]
    <2> DEFINE n == Len(wire)
    <2>1. /\ Len(wire') = n + 1 /\ wire'[n + 1] = f
          /\ \A i \in 1 .. n : wire'[i] = wire[i]
      BY <1>1, <1>4, AppendProperties
    <2>2. Unread(s, o)' = {i \in peerRead + 1 .. Len(wire') : About(s, o, wire'[i])}
      BY DEF Unread, About
    <2> QED BY <1>1, <1>4, <2>1, <2>2 DEF Unread
  <1> QED BY <1>3, <1>4

(* A step that says nothing about any option.                              *)
LEMMA NothingAgreed ==
  ASSUME WireSound, PeerSound, peerRead' = peerRead,
         UNCHANGED <<localWill, remoteDo, peerWill, peerDo, again>>,
         wire' = wire \/ \E f \in Seq(Byte) : ~IsCommand(f) /\ wire' = Append(wire, f),
         NEW F, Deals(F)
  PROVE  Deals(F)'
  <1> SUFFICES ASSUME NEW s \in Sides, NEW o \in Byte PROVE Deal(s, o, F)'
    BY DEF Deals, Sides, Byte
  <1>1. wire' = wire \/ \E f \in Seq(Byte) : ~About(s, o, f) /\ wire' = Append(wire, f)
    BY DEF About
  <1>2. Unread(s, o)' = Unread(s, o) /\ \A i \in Unread(s, o) : wire'[i] = wire[i]
    BY <1>1, UnreadStays
  <1>3. Flag(Mine(s), o)' = Flag(Mine(s), o) /\ Flag(Theirs(s), o)' = Flag(Theirs(s), o)
    BY DEF Flag, Mine, Theirs
  <1> QED BY <1>2, <1>3, DealStays DEF Deals

(* What the program makes of a command about a matter.                     *)
Reply(s, a, o) == IF Taken(s, o) THEN a ELSE "no"

LEMMA Replied ==
  ASSUME NEW s \in Sides, NEW a \in Replies, NEW o \in Byte
  PROVE  LET v == TheirVerb(s, a)
         IN  /\ Declared(v) = Mine(s)
             /\ Of(v \in {WILL, DO} /\ Wants(v, o)) = Reply(s, a, o)
             /\ Of(Wants(v, o)) = Reply(s, a, o)
             /\ Answer(v, o) = OurVerb(s, Reply(s, a, o))
             /\ v \in {WILL, WONT} <=> s = "theirs"
  <1> DEFINE v == TheirVerb(s, a)
             b == Reply(s, a, o)
  <1>1. /\ v \in {WILL, WONT} <=> s = "theirs"
        /\ v \in {WILL, DO} <=> a = "yes"
    BY VerbsDiffer DEF Sides, Replies, TheirVerb
  <1>2. b \in Replies /\ (b = "yes" <=> a = "yes" /\ Taken(s, o))
    BY DEF Reply, Replies
  <1>3. Wants(v, o) <=> b = "yes"
    <2>1. CASE a = "yes"
      <3>1. v = IF s = "theirs" THEN WILL ELSE DO
        BY <2>1 DEF TheirVerb
      <3>2. Wants(v, o) <=> Taken(s, o)
        BY <3>1 DEF Taken, Sides
      <3> QED BY <1>2, <2>1, <3>2
    <2>2. CASE a # "yes"
      BY <1>1, <1>2, <2>2 DEF Wants
    <2> QED BY <2>1, <2>2
  <1>4. Declared(v) = Mine(s)
    BY <1>1 DEF Declared, Mine
  <1>5. Answer(v, o) = OurVerb(s, b)
    <2> HIDE DEF v, b
    <2> QED BY <1>1, <1>3 DEF Answer, OurVerb
  <1>6. Of(v \in {WILL, DO} /\ Wants(v, o)) = b /\ Of(Wants(v, o)) = b
    <2>1. v \in {WILL, DO} /\ Wants(v, o) <=> b = "yes"
      BY <1>1, <1>2, <1>3
    <2> HIDE DEF v, b
    <2> QED BY <1>2, <1>3, <2>1 DEF Of, Replies
  <1> QED BY <1>1, <1>4, <1>5, <1>6

(* A command about an option it takes that is heard says what the far end  *)
(* does.                                                                   *)
LEMMA HeardIsDone ==
  ASSUME NEW s \in Sides, NEW a \in Replies, NEW o \in Byte, NEW F, Deal(s, o, F), Taken(s, o),
         <<TheirVerb(s, a), o>> \in F
  PROVE  Flag(Theirs(s), o) = a /\ (a = "yes" => o \in Willing(s))
  <1>1. a \in Heard(s, o, F)
    BY DEF Heard
  <1>2. Flag(Theirs(s), o) = a
    BY <1>1 DEF Deal, Taking, Fits
  <1> QED BY <1>2 DEF Deal, Taking

(* The program passes over a command that changes nothing.                 *)
LEMMA PassedOver ==
  ASSUME NEW v \in Verbs, NEW c \in Byte, ~Changes(v, c),
         NEW F, NEW G, F = G \cup {<<v, c>>}, Deals(F)
  PROVE  Deals(G)
  <1>1. PICK t \in Sides, a \in Replies : v = TheirVerb(t, a)
    BY WhoseVerb
  <1>0. F = G \cup {<<TheirVerb(t, a), c>>}
    BY <1>1
  <1>02. Adds(F, G, t, a, c)
    BY <1>0, OneMoreHeard
  <1>4. Flag(Mine(t), c) = Reply(t, a, c)
    <2>1. /\ Declared(TheirVerb(t, a)) = Mine(t)
          /\ Of(TheirVerb(t, a) \in {WILL, DO} /\ Wants(TheirVerb(t, a), c)) = Reply(t, a, c)
      BY Replied
    <2> QED BY <1>1, <2>1 DEF Changes
  <1> SUFFICES ASSUME NEW s \in Sides, NEW o \in Byte PROVE Deal(s, o, G)
    BY DEF Deals
  <1>5. Deal(s, o, F)
    BY DEF Deals
  <1>6. CASE s = t /\ o = c
    <2>1. Heard(s, o, F) = Heard(s, o, G) \cup {a}
      BY <1>02, <1>6 DEF Adds
    <2>2. CASE Taken(s, o)
      <3>1. Flag(Theirs(s), o) = a /\ Flag(Mine(s), o) = a
        BY <1>0, <1>4, <1>5, <1>6, <2>2, HeardIsDone DEF Reply
      <3>2. Fits(Flag(Mine(s), o), Flag(Theirs(s), o), Heard(s, o, G), Unread(s, o))
        BY <1>5, <2>1, <2>2, <3>1 DEF Deal, Taking, Fits, Replies
      <3> QED BY <1>5, <2>2, <3>2 DEF Deal, Taking
    <2>3. CASE ~Taken(s, o)
      <3>1. Flag(Mine(s), o) = "no"
        BY <1>4, <1>6, <2>3 DEF Reply
      <3>2. Refuses(Flag(Mine(s), o), Flag(Theirs(s), o), Heard(s, o, G), Unread(s, o),
                    <<s, o>> \in again)
        BY <1>5, <2>1, <2>3, <3>1 DEF Deal, Refusing, Refuses
      <3> QED BY <1>5, <2>3, <3>2 DEF Deal, Refusing
    <2> QED BY <2>2, <2>3
  <1>7. CASE ~(s = t /\ o = c)
    <2>1. Heard(s, o, F) = Heard(s, o, G)
      BY <1>02, <1>7 DEF Adds
    <2> QED BY <1>5, <2>1 DEF Deal, Taking, Refusing
  <1> QED BY <1>6, <1>7

LEMMA AboutOne ==
  ASSUME NEW s \in Sides, NEW o, NEW t \in Sides, NEW x, NEW f, About(s, o, f), About(t, x, f)
  PROVE  s = t /\ o = x
  BY VerbsAre DEF About, Replies

LEMMA AboutCommand ==
  ASSUME NEW s \in Sides, NEW a \in Replies, NEW o \in Byte
  PROVE  /\ Command(OurVerb(s, a), o) \in Seq(Byte) /\ About(s, o, Command(OurVerb(s, a), o))
         /\ Command(OurVerb(s, a), o)[2] = OurVerb(s, a)
  <1>1. OurVerb(s, a) \in Verbs
    BY VerbsAre
  <1> QED BY <1>1, CommandIs DEF About, Replies

(* It declares, and answers.                                               *)
LEMMA Answered ==
  ASSUME WireSound, PeerSound, ReadIsSent, NEW v \in Verbs, NEW c \in Byte, Changes(v, c),
         NEW F, NEW G, F = G \cup {<<v, c>>}, Deals(F),
         IF v \in {WILL, WONT}
         THEN remoteDo' = Put(Declared(v), c, Of(Wants(v, c))) /\ localWill' = localWill
         ELSE localWill' = Put(Declared(v), c, Of(Wants(v, c))) /\ remoteDo' = remoteDo,
         wire' = Append(wire, Command(Answer(v, c), c)),
         UNCHANGED <<peerRead, peerWill, peerDo, again>>
  PROVE  Deals(G)'
  <1>1. PICK t \in Sides, a \in Replies : v = TheirVerb(t, a)
    BY WhoseVerb
  <1>0. F = G \cup {<<TheirVerb(t, a), c>>}
    BY <1>1
  <1>02. Adds(F, G, t, a, c)
    BY <1>0, OneMoreHeard
  <1>2. Deal(t, c, F)
    BY DEF Deals
  <1>3. Taken(t, c) => Flag(Theirs(t), c) = a /\ (a = "yes" => c \in Willing(t))
    BY <1>0, <1>2, HeardIsDone
  <1> DEFINE b == Reply(t, a, c)
  <1>03. b \in Replies /\ (Taken(t, c) => b = a) /\ (~Taken(t, c) => b = "no")
    BY DEF Reply, Replies
  <1>4. /\ Declared(v) = Mine(t) /\ Of(v \in {WILL, DO} /\ Wants(v, c)) = b
        /\ Of(Wants(v, c)) = b /\ Answer(v, c) = OurVerb(t, b)
        /\ v \in {WILL, WONT} <=> t = "theirs"
    BY <1>1, Replied
  <1> HIDE DEF b
  <1>5. Flag(Mine(t), c) # b
    BY <1>4 DEF Changes
  <1>6. Mine(t)' = Put(Mine(t), c, b) /\ \A s \in Sides : s # t => Mine(s)' = Mine(s)
    BY <1>4 DEF Mine, Sides
  <1> DEFINE f == Command(OurVerb(t, b), c)
             n == Len(wire)
  <1>7. wire' = Append(wire, f) /\ peerRead' = peerRead
    BY <1>4
  <1>8. f \in Seq(Byte) /\ About(t, c, f) /\ f[2] = OurVerb(t, b)
    BY <1>03, AboutCommand
  <1>9. wire \in Seq(Seq(Byte)) /\ n \in Nat /\ peerRead \in Nat
    BY LenProperties DEF WireSound, PeerSound
  <1> HIDE DEF f
  <1>10. /\ Len(wire') = n + 1 /\ wire'[n + 1] = f
         /\ \A i \in 1 .. n : wire'[i] = wire[i]
    BY <1>7, <1>8, <1>9, AppendProperties
  <1>11. \A s \in Sides : Theirs(s)' = Theirs(s)
    BY DEF Theirs
  <1> SUFFICES ASSUME NEW s \in Sides, NEW o \in Byte PROVE Deal(s, o, G)'
    BY DEF Deals, Sides, Byte
  <1>12. Deal(s, o, F)
    BY DEF Deals
  <1>13. CASE ~(s = t /\ o = c)
    <2>1. Heard(s, o, F) = Heard(s, o, G)
      BY <1>02, <1>13 DEF Adds
    <2>2. ~About(s, o, f)
      BY <1>8, <1>13, AboutOne
    <2>3. Unread(s, o)' = Unread(s, o) /\ \A i \in Unread(s, o) : wire'[i] = wire[i]
      BY <1>7, <1>8, <2>2, UnreadStays
    <2>4. Flag(Mine(s), o)' = Flag(Mine(s), o)
      <3>1. CASE s # t
        BY <1>6, <3>1 DEF Flag
      <3>2. CASE s = t
        <4>1. o # c
          BY <1>13, <3>2
        <4> QED BY <1>6, <3>2, <4>1, FlagOther DEF Flag, Put
      <3> QED BY <3>1, <3>2
    <2>5. Flag(Theirs(s), o)' = Flag(Theirs(s), o)
      BY <1>11 DEF Flag
    <2> QED BY <1>12, <2>1, <2>3, <2>4, <2>5, DealStays
  <1>14. CASE s = t /\ o = c
    <2>1. Heard(s, o, F) = Heard(s, o, G) \cup {a}
      BY <1>02, <1>14 DEF Adds
    <2>2. Unread(s, o) = {}
      <3>1. CASE Taken(s, o)
        BY <1>03, <1>3, <1>5, <1>12, <1>14, <3>1 DEF Deal, Taking, Fits, Replies
      <3>2. CASE ~Taken(s, o)
        BY <1>03, <1>5, <1>12, <1>14, <3>2 DEF Deal, Refusing, Refuses
      <3> QED BY <3>1, <3>2
    <2>3. Unread(s, o)' = {n + 1}
      <3>1. ASSUME NEW i \in Unread(s, o)' PROVE i = n + 1
        <4>1. i \in peerRead + 1 .. n + 1 /\ About(s, o, wire'[i])
          BY <1>7, <1>10 DEF Unread, About
        <4>2. i # n + 1 => i \in 1 .. n
          BY <1>9, <4>1
        <4>3. i # n + 1 => i \in Unread(s, o)
          BY <1>9, <1>10, <4>1, <4>2 DEF Unread
        <4> QED BY <2>2, <4>3
      <3>2. n + 1 \in Unread(s, o)'
        <4>1. Unread(s, o)' = {i \in peerRead + 1 .. n + 1 : About(s, o, wire'[i])}
          BY <1>7, <1>10 DEF Unread, About
        <4>2. n + 1 \in peerRead + 1 .. n + 1
          <5>1. peerRead <= n
            BY DEF ReadIsSent
          <5> QED BY <1>9, <5>1
        <4> QED BY <1>8, <1>10, <1>14, <4>1, <4>2
      <3> QED BY <3>1, <3>2
    <2>4. Flag(Mine(s), o)' = b /\ Flag(Theirs(s), o)' = Flag(Theirs(s), o)
      <3>1. Flag(Mine(s), o)' = Flag(Put(Mine(s), o, b), o)
        BY <1>6, <1>14 DEF Flag
      <3>2. Flag(Theirs(s), o)' = Flag(Theirs(s), o)
        BY <1>11 DEF Flag
      <3> QED BY <1>14, <3>1, <3>2, FlagPut
    <2>5. Heard(s, o, G)' = Heard(s, o, G)
      BY DEF Heard, TheirVerb, WILL, WONT, DO, DONT
    <2>6. ASSUME NEW i \in Unread(s, o)' PROVE wire'[i][2] = OurVerb(s, b)
      BY <1>8, <1>10, <1>14, <2>3
    <2>7. CASE Taken(s, o)
      <3>1. Flag(Theirs(s), o) = a /\ b = a /\ Taking(s, o, F)
        BY <1>03, <1>3, <1>12, <1>14, <2>7 DEF Deal
      <3>2. Heard(s, o, G) \subseteq {a}
        BY <2>1, <3>1 DEF Taking, Fits
      <3>3. Fits(Flag(Mine(s), o), Flag(Theirs(s), o), Heard(s, o, G), Unread(s, o))'
        BY <2>3, <2>4, <2>5, <3>1, <3>2 DEF Fits, Replies
      <3>4. (\A i \in Unread(s, o) : /\ Flag(Mine(s), o) \in Replies
                                     /\ wire[i][2] = OurVerb(s, Flag(Mine(s), o)))'
        BY <1>03, <2>4, <2>6 DEF OurVerb, Replies
      <3>5. (Flag(Theirs(s), o) = "yes" => o \in Willing(s))'
        BY <1>3, <1>14, <2>4, <2>7, <3>1 DEF Willing
      <3>6. Taking(s, o, G)'
        BY <3>3, <3>4, <3>5 DEF Taking
      <3> QED BY <2>7, <3>6, TakenIsFixed DEF Deal
    <2>8. CASE ~Taken(s, o)
      <3>1. b = "no" /\ Refusing(s, o, F)
        BY <1>03, <1>12, <1>14, <2>8 DEF Deal
      <3>2. Flag(Theirs(s), o) # "undeclared"
        BY <2>1, <3>1 DEF Refusing, Refuses
      <3>3. Refuses(Flag(Mine(s), o), Flag(Theirs(s), o), Heard(s, o, G), Unread(s, o),
                    <<s, o>> \in again)'
        BY <2>3, <2>4, <2>5, <3>1, <3>2 DEF Refuses
      <3>4. (\A i \in Unread(s, o) : wire[i][2] = OurVerb(s, "no"))'
        BY <2>6, <3>1 DEF OurVerb
      <3>5. Refusing(s, o, G)'
        BY <3>3, <3>4 DEF Refusing
      <3> QED BY <2>8, <3>5, TakenIsFixed DEF Deal
    <2> QED BY <2>7, <2>8
  <1> QED BY <1>13, <1>14

(* The far end reads what the program said of a matter, and says so if     *)
(* that changes what it does.                                              *)
LEMMA FarEndHears ==
  ASSUME WireSound, PeerSound, NEW t \in Sides, NEW c \in Byte,
         peerRead < Len(wire), About(t, c, wire[peerRead + 1]), NEW w \in Replies,
         w = "yes" <=> wire[peerRead + 1][2] = OurVerb(t, "yes") /\ c \in Willing(t),
         Theirs(t)' = Put(Theirs(t), c, w), \A s \in Sides : s # t => Theirs(s)' = Theirs(s),
         peerRead' = peerRead + 1, UNCHANGED <<wire, localWill, remoteDo, again>>,
         NEW F, NEW G, Deals(F),
         IF Flag(Theirs(t), c) # w THEN G = F \cup {<<TheirVerb(t, w), c>>} ELSE G = F
  PROVE  Deals(G)'
  <1> DEFINE i == peerRead + 1
             n == Len(wire)
  <1>1. wire \in Seq(Seq(Byte)) /\ n \in Nat /\ peerRead \in Nat /\ i \in 1 .. n
    BY LenProperties DEF WireSound, PeerSound
  <1>2. \A s \in Sides, o \in Byte : Unread(s, o)' = Unread(s, o) \ {i}
    <2> SUFFICES ASSUME NEW s \in Sides, NEW o \in Byte PROVE Unread(s, o)' = Unread(s, o) \ {i}
      OBVIOUS
    <2>1. Unread(s, o)' = {j \in (peerRead + 1) + 1 .. n : About(s, o, wire[j])}
      BY DEF Unread, About
    <2>2. (peerRead + 1) + 1 .. n = (peerRead + 1 .. n) \ {i}
      BY <1>1
    <2> HIDE DEF i
    <2> QED BY <2>1, <2>2 DEF Unread
  <1>3. Deal(t, c, F)
    BY DEF Deals
  <1>4. i \in Unread(t, c)
    BY <1>1 DEF Unread
  <1> HIDE DEF i
  <1> DEFINE r == Flag(Mine(t), c)
             p == Flag(Theirs(t), c)
  <1>5. r \in Replies /\ wire[i][2] = OurVerb(t, r)
    <2>1. CASE Taken(t, c)
      BY <1>3, <1>4, <2>1 DEF Deal, Taking
    <2>2. CASE ~Taken(t, c)
      <3>1. r = "no"
        BY <1>3, <1>4, <2>2 DEF Deal, Refusing, Refuses
      <3>2. wire[i][2] = OurVerb(t, "no")
        BY <1>3, <1>4, <2>2 DEF Deal, Refusing
      <3> QED BY <3>1, <3>2 DEF Replies
    <2> QED BY <2>1, <2>2
  <1>6. w = "yes" <=> r = "yes" /\ c \in Willing(t)
    <2>1. OurVerb(t, r) = OurVerb(t, "yes") <=> r = "yes"
      BY <1>5, VerbsAre DEF Replies
    <2>2. wire[peerRead + 1][2] = OurVerb(t, r)
      BY <1>5 DEF i
    <2> HIDE DEF r
    <2> QED BY <2>1, <2>2
  <1>7. Taken(t, c) => /\ Unread(t, c) = {i}
                       /\ p = "undeclared" => r = "yes" /\ Heard(t, c, F) = {}
                       /\ p # "undeclared" => p = r /\ p = w
    <2> SUFFICES ASSUME Taken(t, c)
                 PROVE  /\ Unread(t, c) = {i}
                        /\ p = "undeclared" => r = "yes" /\ Heard(t, c, F) = {}
                        /\ p # "undeclared" => p = r /\ p = w
      OBVIOUS
    <2>0. Taking(t, c, F)
      BY <1>3 DEF Deal
    <2>1. Unread(t, c) = {i}
      BY <1>4, <2>0 DEF Taking, Fits
    <2>2. p = "undeclared" => r = "yes" /\ Heard(t, c, F) = {}
      BY <1>5, <2>0 DEF Taking, Fits, Replies
    <2>3. p # "undeclared" => p = r
      BY <1>4, <2>0 DEF Taking, Fits
    <2>4. p = "yes" => c \in Willing(t)
      BY <2>0 DEF Taking
    <2> HIDE DEF r, p
    <2> QED BY <1>5, <1>6, <2>1, <2>2, <2>3, <2>4 DEF Replies
  <1>07. ~Taken(t, c) => r = "no" /\ w = "no" /\ Refusing(t, c, F)
    <2>1. ~Taken(t, c) => r = "no" /\ Refusing(t, c, F)
      BY <1>3, <1>4 DEF Deal, Refusing, Refuses
    <2> HIDE DEF r, p
    <2> QED BY <1>6, <2>1 DEF Replies
  <1>8. \A s \in Sides : Mine(s)' = Mine(s)
    BY DEF Mine
  <1> SUFFICES ASSUME NEW s \in Sides, NEW o \in Byte PROVE Deal(s, o, G)'
    BY DEF Deals, Sides, Byte
  <1>9. Deal(s, o, F)
    BY DEF Deals
  <1>10. Flag(Mine(s), o)' = Flag(Mine(s), o)
    BY <1>8 DEF Flag
  <1>11. p # w => Adds(G, F, t, w, c)
    BY OneMoreHeard
  <1>12. CASE ~(s = t /\ o = c)
    <2>1. Heard(s, o, G) = Heard(s, o, F)
      <3>1. CASE p # w
        BY <1>11, <1>12, <3>1 DEF Adds
      <3>2. CASE p = w
        BY <3>2
      <3> QED BY <3>1, <3>2
    <2>2. i \notin Unread(s, o)
      <3>1. i \in Unread(s, o) => About(s, o, wire[i])
        BY DEF Unread
      <3>2. About(t, c, wire[i])
        BY DEF i
      <3> QED BY <1>12, <3>1, <3>2, AboutOne
    <2>3. Unread(s, o)' = Unread(s, o)
      BY <1>2, <2>2
    <2>4. Flag(Theirs(s), o)' = Flag(Theirs(s), o)
      <3>1. CASE s # t
        BY <3>1 DEF Flag
      <3>2. CASE s = t
        <4>1. o # c
          BY <1>12, <3>2
        <4> QED BY <3>2, <4>1, FlagOther DEF Flag, Put
      <3> QED BY <3>1, <3>2
    <2> QED BY <1>9, <1>10, <2>1, <2>3, <2>4, DealStays
  <1>13. CASE s = t /\ o = c
    <2>2. Flag(Theirs(s), o)' = w
      <3>1. Flag(Theirs(s), o)' = Flag(Put(Theirs(s), o, w), o)
        BY <1>13 DEF Flag
      <3> QED BY <3>1, FlagPut
    <2>3. Heard(s, o, G)' = Heard(s, o, G)
      BY DEF Heard, TheirVerb, WILL, WONT, DO, DONT
    <2>4. Flag(Mine(s), o)' = r
      BY <1>10, <1>13
    <2>5. CASE Taken(s, o)
      <3>1. Unread(s, o)' = {}
        BY <1>2, <1>7, <1>13, <2>5
      <3>2. Fits(r, w, Heard(t, c, G), {})
        <4>1. CASE p = w
          <5>1. G = F /\ p # "undeclared"
            BY <4>1 DEF Replies
          <5>2. r = w /\ Heard(t, c, G) \subseteq {w}
            BY <1>3, <1>7, <1>13, <2>5, <4>1, <5>1 DEF Deal, Taking, Fits
          <5> HIDE DEF r, p
          <5> QED BY <1>5, <5>2 DEF Fits, Replies
        <4>2. CASE p # w
          <5>1. p = "undeclared"
            BY <1>7, <1>13, <2>5, <4>2
          <5>2. Heard(t, c, G) = {w}
            BY <1>7, <1>11, <1>13, <2>5, <4>2, <5>1 DEF Adds
          <5>3. r = "yes"
            BY <1>7, <1>13, <2>5, <5>1
          <5> HIDE DEF r, p
          <5> QED BY <1>5, <5>2, <5>3 DEF Fits, Replies
        <4> QED BY <4>1, <4>2
      <3> HIDE DEF r, p
      <3>3. Fits(Flag(Mine(s), o), Flag(Theirs(s), o), Heard(s, o, G), Unread(s, o))'
        BY <1>13, <2>2, <2>3, <2>4, <3>1, <3>2 DEF Fits, Replies
      <3>4. (Flag(Theirs(s), o) = "yes" => o \in Willing(s))'
        BY <1>6, <1>13, <2>2 DEF Willing
      <3>5. Taking(s, o, G)'
        BY <3>1, <3>3, <3>4 DEF Taking
      <3> QED BY <2>5, <3>5, TakenIsFixed DEF Deal
    <2>6. CASE ~Taken(s, o)
      <3>1. r = "no" /\ w = "no" /\ Refusing(s, o, F)
        BY <1>07, <1>13, <2>6
      <3> HIDE DEF r, p
      <3>2. Refuses(Flag(Mine(s), o), Flag(Theirs(s), o), Heard(s, o, G), Unread(s, o),
                    <<s, o>> \in again)'
        BY <2>2, <2>3, <2>4, <3>1 DEF Refuses
      <3>3. (\A j \in Unread(s, o) : wire[j][2] = OurVerb(s, "no"))'
        BY <1>2, <3>1 DEF Refusing, OurVerb
      <3>4. Refusing(s, o, G)'
        BY <3>2, <3>3 DEF Refusing
      <3> QED BY <2>6, <3>4, TakenIsFixed DEF Deal
    <2> QED BY <2>5, <2>6
  <1> QED BY <1>12, <1>13

(* It reads a frame that is about no option.                               *)
LEMMA FarEndHearsNothing ==
  ASSUME WireSound, PeerSound, peerRead < Len(wire), ~IsCommand(wire[peerRead + 1]),
         peerRead' = peerRead + 1, UNCHANGED <<wire, localWill, remoteDo, peerWill, peerDo, again>>,
         NEW F, Deals(F)
  PROVE  Deals(F)'
  <1>1. Len(wire) \in Nat /\ peerRead \in Nat
    BY LenProperties DEF WireSound, PeerSound
  <1> SUFFICES ASSUME NEW s \in Sides, NEW o \in Byte PROVE Deal(s, o, F)'
    BY DEF Deals, Sides, Byte
  <1>2. Unread(s, o)' = {j \in (peerRead + 1) + 1 .. Len(wire) : About(s, o, wire[j])}
    BY DEF Unread, About
  <1>3. ~About(s, o, wire[peerRead + 1])
    BY DEF About
  <1>4. Unread(s, o)' = Unread(s, o)
    <2>1. peerRead + 1 .. Len(wire) = {peerRead + 1} \cup ((peerRead + 1) + 1 .. Len(wire))
      BY <1>1
    <2> QED BY <1>2, <1>3, <2>1 DEF Unread
  <1>5. Flag(Mine(s), o)' = Flag(Mine(s), o) /\ Flag(Theirs(s), o)' = Flag(Theirs(s), o)
    BY DEF Flag, Mine, Theirs
  <1> QED BY <1>4, <1>5, DealStays DEF Deals

(* It changes its mind, or speaks first.                                   *)
LEMMA FarEndTells ==
  ASSUME NEW t \in Sides, NEW c \in Byte, NEW w \in Replies, c \in Willing(t),
         NEW F, NEW G, Deals(F), G = F \cup {<<TheirVerb(t, w), c>>},
         \/ Flag(Theirs(t), c) = "undeclared" /\ w = "yes"
         \/ Flag(Theirs(t), c) # "undeclared" /\ Heard(t, c, F) = {} /\ Unread(t, c) = {},
         Theirs(t)' = Put(Theirs(t), c, w), \A s \in Sides : s # t => Theirs(s)' = Theirs(s),
         UNCHANGED <<wire, localWill, remoteDo, peerRead>>, again \subseteq again',
         Flag(Theirs(t), c) # "undeclared" /\ w = "yes" => <<t, c>> \in again'
  PROVE  Deals(G)'
  <1>1. Adds(G, F, t, w, c)
    BY OneMoreHeard
  <1> SUFFICES ASSUME NEW s \in Sides, NEW o \in Byte PROVE Deal(s, o, G)'
    BY DEF Deals, Sides, Byte
  <1>2. Deal(s, o, F)
    BY DEF Deals
  <1>3. Flag(Mine(s), o)' = Flag(Mine(s), o)
    BY DEF Flag, Mine
  <1>4. Unread(s, o)' = Unread(s, o)
    BY DEF Unread, About
  <1>5. CASE ~(s = t /\ o = c)
    <2>1. Heard(s, o, G) = Heard(s, o, F)
      BY <1>1, <1>5 DEF Adds
    <2>2. Flag(Theirs(s), o)' = Flag(Theirs(s), o)
      <3>1. CASE s # t
        BY <3>1 DEF Flag
      <3>2. CASE s = t
        <4>1. o # c
          BY <1>5, <3>2
        <4> QED BY <3>2, <4>1, FlagOther DEF Flag, Put
      <3> QED BY <3>1, <3>2
    <2> QED BY <1>2, <1>3, <1>4, <2>1, <2>2, DealStays
  <1>6. CASE s = t /\ o = c
    <2>1. Heard(s, o, G) = Heard(s, o, F) \cup {w}
      BY <1>1, <1>6 DEF Adds
    <2>2. Flag(Theirs(s), o)' = w
      <3>1. Flag(Theirs(s), o)' = Flag(Put(Theirs(s), o, w), o)
        BY <1>6 DEF Flag
      <3> QED BY <3>1, FlagPut
    <2>3. Heard(s, o, G)' = Heard(s, o, G)
      BY DEF Heard, TheirVerb, WILL, WONT, DO, DONT
    <2> DEFINE r == Flag(Mine(s), o)
               p == Flag(Theirs(s), o)
               U == Unread(s, o)
               H == Heard(s, o, F)
    <2>5. \/ p = "undeclared" /\ w = "yes"
          \/ p # "undeclared" /\ H = {} /\ U = {}
      BY <1>6
    <2>6. CASE Taken(s, o)
      <3>1. Taking(s, o, F)
        BY <1>2, <2>6 DEF Deal
      <3>2. Fits(r, p, H, U) /\ (U # {} => r \in Replies)
        BY <3>1 DEF Taking
      <3>3. Fits(r, w, H \cup {w}, U)
        <4> HIDE DEF r, p, U, H
        <4> QED BY <2>5, <3>2 DEF Fits, Replies
      <3>4. Fits(Flag(Mine(s), o), Flag(Theirs(s), o), Heard(s, o, G), Unread(s, o))'
        <4>1. Fits(r, w, Heard(s, o, G), U)
          BY <2>1, <3>3
        <4> QED BY <1>3, <1>4, <2>2, <2>3, <4>1 DEF Fits, Replies
      <3>5. (\A i \in Unread(s, o) : /\ Flag(Mine(s), o) \in Replies
                                     /\ wire[i][2] = OurVerb(s, Flag(Mine(s), o)))'
        BY <1>3, <1>4, <3>1 DEF Taking, OurVerb, Replies
      <3>6. (Flag(Theirs(s), o) = "yes" => o \in Willing(s))'
        BY <1>6 DEF Willing
      <3>7. Taking(s, o, G)'
        BY <3>4, <3>5, <3>6 DEF Taking
      <3> QED BY <2>6, <3>7, TakenIsFixed DEF Deal
    <2>7. CASE ~Taken(s, o)
      <3>1. Refusing(s, o, F)
        BY <1>2, <2>7 DEF Deal
      <3>2. Refuses(r, p, H, U, <<s, o>> \in again)
        BY <3>1 DEF Refusing
      <3>3. Refuses(r, w, H \cup {w}, U, <<s, o>> \in again')
        <4>1. p # "undeclared" /\ w = "yes" => <<s, o>> \in again'
          BY <1>6
        <4>2. p = "undeclared" => r = "undeclared"
          BY <3>2 DEF Refuses
        <4>3. r \in {"undeclared", "no"} /\ (U # {} => r = "no")
          BY <3>2 DEF Refuses
        <4> HIDE DEF r, p, U, H
        <4>4. w # "undeclared"
          BY DEF Replies
        <4> QED BY <4>1, <4>2, <4>3, <4>4 DEF Refuses
      <3>4. Refuses(Flag(Mine(s), o), Flag(Theirs(s), o), Heard(s, o, G), Unread(s, o),
                    <<s, o>> \in again)'
        <4>1. Refuses(r, w, Heard(s, o, G), U, <<s, o>> \in again')
          BY <2>1, <3>3
        <4> QED BY <1>3, <1>4, <2>2, <2>3, <4>1 DEF Refuses
      <3>5. (\A i \in Unread(s, o) : wire[i][2] = OurVerb(s, "no"))'
        BY <1>4, <3>1 DEF Refusing, OurVerb
      <3>6. Refusing(s, o, G)'
        BY <3>4, <3>5 DEF Refusing
      <3> QED BY <2>7, <3>6, TakenIsFixed DEF Deal
    <2> QED BY <2>6, <2>7
  <1> QED BY <1>5, <1>6

(* It says again what it does.                                             *)
LEMMA FarEndRepeats ==
  ASSUME NEW t \in Sides, NEW c \in Byte, NEW w \in Replies, Flag(Theirs(t), c) = w,
         NEW F, NEW G, Deals(F), G = F \cup {<<TheirVerb(t, w), c>>}
  PROVE  Deals(G)
  <1>1. Adds(G, F, t, w, c)
    BY OneMoreHeard
  <1> SUFFICES ASSUME NEW s \in Sides, NEW o \in Byte PROVE Deal(s, o, G)
    BY DEF Deals
  <1>2. Deal(s, o, F)
    BY DEF Deals
  <1>3. CASE ~(s = t /\ o = c)
    <2>1. Heard(s, o, G) = Heard(s, o, F)
      BY <1>1, <1>3 DEF Adds
    <2> QED BY <1>2, <2>1 DEF Deal, Taking, Refusing
  <1>4. CASE s = t /\ o = c
    <2>1. Heard(s, o, G) = Heard(s, o, F) \cup {w}
      BY <1>1, <1>4 DEF Adds
    <2>2. CASE Taken(s, o)
      <3>1. Fits(Flag(Mine(s), o), Flag(Theirs(s), o), Heard(s, o, G), Unread(s, o))
        BY <1>2, <1>4, <2>1, <2>2 DEF Deal, Taking, Fits, Replies
      <3> QED BY <1>2, <2>2, <3>1 DEF Deal, Taking
    <2>3. CASE ~Taken(s, o)
      <3>1. Refuses(Flag(Mine(s), o), Flag(Theirs(s), o), Heard(s, o, G), Unread(s, o),
                    <<s, o>> \in again)
        BY <1>2, <1>4, <2>1, <2>3 DEF Deal, Refusing, Refuses, Replies
      <3> QED BY <1>2, <2>3, <3>1 DEF Deal, Refusing
    <2> QED BY <2>2, <2>3
  <1> QED BY <1>3, <1>4

------------------------------------------------------------------------------
(* Every step keeps the dealings.  Held is the command the reader answers. *)
Held == IF reader.step = "declare" THEN {<<reader.verb, reader.opt>>} ELSE {}
Flags(m) == \A o \in DOMAIN m : m[o] \in Replies
Dealing == \E K, F : Coming(state, inbound, K) /\ F = K \cup Held /\ Deals(F)
DealSound == Flags(peerWill) /\ Flags(peerDo) /\ (conn = "up" => Dealing)

LEMMA PutFlags ==
  ASSUME NEW m, Flags(m), NEW o, NEW w \in Replies
  PROVE  Flags(Put(m, o, w))
  BY DEF Flags, Put

LEMMA FlagIn ==
  ASSUME NEW m, Flags(m), NEW o
  PROVE  /\ o \in DOMAIN m <=> Flag(m, o) # "undeclared"
         /\ o \in DOMAIN m => Flag(m, o) = m[o] /\ m[o] \in Replies
  BY DEF Flags, Flag, Replies

LEMMA ComingNow ==
  ASSUME NEW K, Coming(state', inbound', K)
  PROVE  Coming(state, inbound, K)'
  BY DEF Coming, Walk, Met, Ends, Turn, VerbOf, CommandState, States, Negotiating,
         Verbs, WILL, WONT, DO, DONT, SB, IAC

LEMMA FilterTurns ==
  ASSUME NEW c, state \in States, FilterByte(c)
  PROVE  /\ state' = Turn(state, c)
         /\ state \in Negotiating => ~Changes(VerbOf(state), c)
  <1>1. IAC \notin Verbs /\ SB \notin Verbs /\ SB # IAC
    BY BytesAre
  <1>2. state' = Turn(state, c)
    BY <1>1 DEF FilterByte, Turn, Negotiating, States
  <1>3. state \in Negotiating => ~Changes(VerbOf(state), c)
    BY DEF FilterByte, Negotiating
  <1> QED BY <1>2, <1>3

(* A step of the program that reads no byte and declares nothing.          *)
LEMMA DealUntouched ==
  ASSUME WireSound, PeerSound, DealSound, conn' = "up" => conn = "up",
         state' = state, inbound' = inbound, Held' = Held,
         UNCHANGED <<localWill, remoteDo, peerWill, peerDo, peerRead, again>>,
         wire' = wire \/ \E f \in Seq(Byte) : ~IsCommand(f) /\ wire' = Append(wire, f)
  PROVE  DealSound'
  <1>1. Flags(peerWill)' /\ Flags(peerDo)'
    BY DEF DealSound, Flags, Replies
  <1>2. ASSUME conn = "up" PROVE Dealing'
    <2>1. PICK K, F : Coming(state, inbound, K) /\ F = K \cup Held /\ Deals(F)
      BY <1>2 DEF DealSound, Dealing
    <2>2. Deals(F)'
      BY <2>1, NothingAgreed
    <2>3. Coming(state, inbound, K)'
      BY <2>1, ComingNow
    <2> QED BY <2>1, <2>2, <2>3 DEF Dealing
  <1> QED BY <1>1, <1>2 DEF DealSound

(* A byte is read.                                                         *)
LEMMA DealReads ==
  ASSUME WireSound, PeerSound, DealSound, ReadSound, conn' = conn,
         Consume, reader' = reader, state' = Turn(state, Head(inbound)),
         state \in Negotiating => ~Changes(VerbOf(state), Head(inbound)),
         UNCHANGED <<localWill, remoteDo, peerWill, peerDo, peerRead, again>>,
         wire' = wire \/ \E f \in Seq(Byte) : ~IsCommand(f) /\ wire' = Append(wire, f)
  PROVE  DealSound'
  <1> DEFINE c == Head(inbound)
             v == VerbOf(state)
  <1>1. Flags(peerWill)' /\ Flags(peerDo)'
    BY DEF DealSound, Flags, Replies
  <1>2. /\ inbound \in Seq(Byte) /\ inbound # <<>> /\ inbound' = Tail(inbound) /\ c \in Byte
        /\ reader = Idle
    BY HeadTailProperties DEF ReadSound, Consume
  <1>3. Held = {} /\ Held' = {}
    BY <1>2 DEF Held, Idle
  <1>4. ASSUME conn = "up" PROVE Dealing'
    <2>1. PICK K, F : Coming(state, inbound, K) /\ F = K \cup Held /\ Deals(F)
      BY <1>4 DEF DealSound, Dealing
    <2>2. PICK L : /\ Coming(Turn(state, c), Tail(inbound), L)
                   /\ K = L \cup (IF state \in Negotiating THEN {<<v, c>>} ELSE {})
      <3>1. Follows(state, inbound, K)
        BY <1>2, <2>1, ComingStep
      <3> QED BY <3>1 DEF Follows
    <2> HIDE DEF c
    <2>3. Deals(L)
      <3>1. CASE state \in Negotiating
        <4>1. v \in Verbs /\ ~Changes(v, c)
          BY <3>1 DEF VerbOf, Negotiating, Verbs, c
        <4> HIDE DEF v
        <4>2. F = L \cup {<<v, c>>}
          BY <1>3, <2>1, <2>2, <3>1
        <4> QED BY <1>2, <2>1, <4>1, <4>2, PassedOver
      <3>2. CASE state \notin Negotiating
        <4>1. F = L
          BY <1>3, <2>1, <2>2, <3>2
        <4> QED BY <2>1, <4>1
      <3> QED BY <3>1, <3>2
    <2>4. Deals(L)'
      BY <2>3, NothingAgreed
    <2>5. Coming(state, inbound, L)'
      <3>1. state' = Turn(state, c) /\ inbound' = Tail(inbound)
        BY <1>2 DEF c
      <3>2. Coming(state', inbound', L)
        BY <2>2, <3>1
      <3> QED BY <3>2, ComingNow
    <2>6. L = L \cup Held'
      BY <1>3
    <2> QED BY <2>4, <2>5, <2>6 DEF Dealing
  <1> QED BY <1>1, <1>4 DEF DealSound

(* The last byte of a command that changes something.                      *)
LEMMA DealTakes ==
  ASSUME WireSound, PeerSound, DealSound, ReadSound, ReadCommand
  PROVE  DealSound'
  <1> DEFINE c == Head(inbound)
             v == VerbOf(state)
  <1>1. /\ Consume /\ state \in Negotiating /\ state' = "data" /\ wire' = wire /\ conn' = conn
        /\ reader' = [step |-> "declare", verb |-> v, opt |-> c, size |-> <<>>]
        /\ UNCHANGED <<localWill, remoteDo, peerWill, peerDo, peerRead, again>>
    BY DEF ReadCommand, optVars, peerVars, Negotiating
  <1>2. Flags(peerWill)' /\ Flags(peerDo)'
    BY <1>1 DEF DealSound, Flags, Replies
  <1>3. /\ inbound \in Seq(Byte) /\ inbound # <<>> /\ inbound' = Tail(inbound) /\ c \in Byte
        /\ reader = Idle
    BY <1>1, HeadTailProperties DEF ReadSound, Consume
  <1>4. Held = {} /\ Held' = {<<v, c>>}
    <2> HIDE DEF v, c
    <2> QED BY <1>1, <1>3 DEF Held, Idle
  <1>5. ASSUME conn = "up" PROVE Dealing'
    <2>1. PICK K, F : Coming(state, inbound, K) /\ F = K \cup Held /\ Deals(F)
      BY <1>5 DEF DealSound, Dealing
    <2>2. PICK L : /\ Coming(Turn(state, c), Tail(inbound), L)
                   /\ K = L \cup (IF state \in Negotiating THEN {<<v, c>>} ELSE {})
      <3>1. inbound \in Seq(Byte) /\ inbound # <<>> /\ Coming(state, inbound, K)
        BY <1>3, <2>1
      <3>2. Follows(state, inbound, K)
        BY <3>1, ComingStep
      <3> QED BY <3>2 DEF Follows
    <2>3. Deals(F)'
      BY <1>1, <2>1, NothingAgreed
    <2>4. Turn(state, c) = "data"
      BY <1>1 DEF Turn, Negotiating
    <2>5. Coming(state, inbound, L)'
      <3>1. Coming(state', inbound', L)
        BY <1>1, <1>3, <2>2, <2>4
      <3> QED BY <3>1, ComingNow
    <2>6. F = L \cup Held'
      BY <1>1, <1>4, <2>1, <2>2
    <2> QED BY <2>3, <2>5, <2>6 DEF Dealing
  <1> QED BY <1>1, <1>2, <1>5 DEF DealSound

LEMMA DealAnswers ==
  ASSUME WireSound, PeerSound, ReadIsSent, CallSound, DealSound, Declare
  PROVE  DealSound'
  <1> DEFINE v == reader.verb
             o == reader.opt
  <1>1. v \in Verbs /\ o \in Byte /\ Changes(v, o) /\ reader.step = "declare"
    BY DEF CallSound, Call, Declare
  <1>2. /\ Out(Command(Answer(v, o), o)) /\ conn' = conn /\ state' = state /\ inbound' = inbound
        /\ UNCHANGED <<peerRead, peerWill, peerDo, again>>
        /\ reader' = Idle \/ reader' = [Idle EXCEPT !.step = "size"]
    BY DEF Declare, filterVars, peerVars
  <1>3. IF v \in {WILL, WONT}
        THEN remoteDo' = Put(Declared(v), o, Of(Wants(v, o))) /\ localWill' = localWill
        ELSE localWill' = Put(Declared(v), o, Of(Wants(v, o))) /\ remoteDo' = remoteDo
    BY DEF Declare
  <1>4. Held = {<<v, o>>} /\ Held' = {}
    <2>1. reader'.step # "declare"
      BY <1>2 DEF Idle
    <2> QED BY <1>1, <2>1 DEF Held
  <1> HIDE DEF v, o
  <1>5. Flags(peerWill)' /\ Flags(peerDo)'
    BY <1>2 DEF DealSound, Flags, Replies
  <1>6. ASSUME conn = "up" PROVE Dealing'
    <2>1. PICK K, F : Coming(state, inbound, K) /\ F = K \cup Held /\ Deals(F)
      BY <1>6 DEF DealSound, Dealing
    <2>2. wire' = Append(wire, Command(Answer(v, o), o))
      BY <1>2, <1>6 DEF Out
    <2>3. F = K \cup {<<v, o>>}
      BY <1>4, <2>1
    <2>4. Deals(K)'
      BY <1>1, <1>2, <1>3, <2>1, <2>2, <2>3, Answered
    <2>5. Coming(state, inbound, K)'
      <3>1. Coming(state', inbound', K)
        BY <1>2, <2>1
      <3> QED BY <3>1, ComingNow
    <2>6. K = K \cup Held'
      BY <1>4
    <2> QED BY <2>4, <2>5, <2>6 DEF Dealing
  <1> QED BY <1>2, <1>5, <1>6 DEF DealSound

(* The far end says something: the commands of it are those in L.          *)
LEMMA DealSays ==
  ASSUME inbound \in Seq(Byte), NEW K, NEW F, Coming(state, inbound, K), F = K \cup Held,
         state' = state, Held' = Held, NEW b \in Seq(Byte), inbound' = inbound \o b,
         NEW L, Coming("data", b, L), Deals(F \cup L)'
  PROVE  Dealing'
  <1>1. Coming(state', inbound', K \cup L)
    BY ComingMore
  <1>2. Coming(state, inbound, K \cup L)'
    BY <1>1, ComingNow
  <1>3. F \cup L = (K \cup L) \cup Held'
    OBVIOUS
  <1>4. PICK M, G : M = K \cup L /\ G = F \cup L
    OBVIOUS
  <1>5. Coming(state, inbound, M)' /\ G = M \cup Held' /\ Deals(G)'
    BY <1>2, <1>3, <1>4
  <1> QED BY <1>5 DEF Dealing

LEMMA DealSaysNothing ==
  ASSUME NEW K, NEW F, Coming(state, inbound, K), F = K \cup Held,
         state' = state, Held' = Held, inbound' = inbound, Deals(F)'
  PROVE  Dealing'
  <1>1. Coming(state', inbound', K)
    OBVIOUS
  <1>2. Coming(state, inbound, K)'
    BY <1>1, ComingNow
  <1> QED BY <1>2 DEF Dealing

LEMMA PeerIsApart ==
  ASSUME PeerActions
  PROVE  /\ state' = state /\ reader' = reader /\ Held' = Held /\ conn' = conn
         /\ UNCHANGED <<wire, localWill, remoteDo>>
         /\ again \subseteq again'
  <1>1. PeerKeeps
    BY DEF PeerActions, PeerReads, PeerChanges, PeerRepeats, PeerSends, HangsUp
  <1>2. again \subseteq again'
    BY DEF PeerActions, PeerReads, PeerChanges, PeerRepeats, PeerSends, HangsUp, peerVars
  <1> QED BY <1>1, <1>2 DEF PeerKeeps, optVars, Held

LEMMA DealHeard ==
  ASSUME WireSound, PeerSound, ReadSound, DealSound, PeerReads
  PROVE  DealSound'
  <1> DEFINE f == wire[peerRead + 1]
             c == f[3]
  <1>0. PeerActions
    BY DEF PeerActions
  <1>1. /\ state' = state /\ Held' = Held /\ conn' = conn
        /\ UNCHANGED <<wire, localWill, remoteDo>>
    BY <1>0, PeerIsApart
  <1>2. /\ peerRead < Len(wire) /\ peerRead' = peerRead + 1 /\ inbound \in Seq(Byte)
        /\ again' = again
    BY DEF PeerReads, ReadSound
  <1>3. CASE ~IsCommand(f)
    <2>1. peerWill' = peerWill /\ peerDo' = peerDo /\ inbound' = inbound
      BY <1>3 DEF PeerReads
    <2>2. Flags(peerWill)' /\ Flags(peerDo)'
      BY <2>1 DEF DealSound, Flags, Replies
    <2>3. ASSUME conn = "up" PROVE Dealing'
      <3>1. PICK K, F : Coming(state, inbound, K) /\ F = K \cup Held /\ Deals(F)
        BY <2>3 DEF DealSound, Dealing
      <3> HIDE DEF f
      <3>2. Deals(F)'
        BY <1>1, <1>2, <1>3, <2>1, <3>1, FarEndHearsNothing DEF f
      <3> QED BY <1>1, <2>1, <3>1, <3>2, DealSaysNothing
    <2> QED BY <1>1, <2>2, <2>3 DEF DealSound
  <1>4. CASE IsCommand(f)
    <2>1. c \in Byte
      <3>1. peerRead + 1 \in 1 .. Len(wire)
        BY <1>2, LenProperties DEF PeerSound, WireSound
      <3>2. f \in Seq(Byte)
        BY <3>1, ElementOfSeq DEF WireSound
      <3>3. Len(f) = 3
        BY <1>4 DEF IsCommand
      <3> HIDE DEF f
      <3>4. f \in [1 .. Len(f) -> Byte]
        BY <3>2, LenProperties
      <3>5. f[3] \in Byte
        BY <3>3, <3>4
      <3> QED BY <3>5
    <2>2. ASSUME NEW t \in Sides, NEW w \in Replies,
                 f[2] \in {OurVerb(t, "yes"), OurVerb(t, "no")},
                 w = "yes" <=> f[2] = OurVerb(t, "yes") /\ c \in Willing(t),
                 Theirs(t)' = Put(Theirs(t), c, w), \A s \in Sides : s # t => Theirs(s)' = Theirs(s),
                 IF Flag(Theirs(t), c) # w THEN Says(Command(TheirVerb(t, w), c)) ELSE UNCHANGED inbound
          PROVE  Dealing => Dealing'
      <3> SUFFICES ASSUME Dealing PROVE Dealing'
        OBVIOUS
      <3>1. PICK K, F : Coming(state, inbound, K) /\ F = K \cup Held /\ Deals(F)
        BY DEF Dealing
      <3>2. About(t, c, f)
        BY <1>4, <2>2 DEF About
      <3>3. ASSUME NEW G, IF Flag(Theirs(t), c) # w THEN G = F \cup {<<TheirVerb(t, w), c>>} ELSE G = F
            PROVE  Deals(G)'
        <4> HIDE DEF c
        <4>1. /\ peerRead < Len(wire) /\ About(t, c, wire[peerRead + 1]) /\ peerRead' = peerRead + 1
              /\ again' = again
          BY <1>2, <3>2
        <4>2. w = "yes" <=> wire[peerRead + 1][2] = OurVerb(t, "yes") /\ c \in Willing(t)
          BY <2>2
        <4> HIDE DEF f
        <4> QED BY <1>1, <2>1, <2>2, <3>1, <3>3, <4>1, <4>2, FarEndHears
      <3> HIDE DEF c, f
      <3>4. CASE Flag(Theirs(t), c) # w
        <4>1. inbound' = inbound \o Command(TheirVerb(t, w), c)
          BY <2>2, <3>4 DEF Says
        <4>2. TheirVerb(t, w) \in Verbs
          BY VerbsAre
        <4>3. /\ Command(TheirVerb(t, w), c) \in Seq(Byte)
              /\ Coming("data", Command(TheirVerb(t, w), c), {<<TheirVerb(t, w), c>>})
          BY <2>1, <4>2, CommandIs, ComingCommand
        <4>4. PICK L : L = {<<TheirVerb(t, w), c>>}
          OBVIOUS
        <4>5. Deals(F \cup L)'
          BY <3>3, <3>4, <4>4
        <4>6. PICK b : b = Command(TheirVerb(t, w), c)
          OBVIOUS
        <4>7. b \in Seq(Byte) /\ inbound' = inbound \o b /\ Coming("data", b, L)
          BY <4>1, <4>3, <4>4, <4>6
        <4> QED BY <1>1, <1>2, <3>1, <4>5, <4>7, DealSays
      <3>5. CASE Flag(Theirs(t), c) = w
        <4>1. inbound' = inbound
          BY <2>2, <3>5
        <4>2. Deals(F)'
          BY <3>3, <3>5
        <4> QED BY <1>1, <3>1, <4>1, <4>2, DealSaysNothing
      <3> QED BY <3>4, <3>5
    <2>3. CASE f[2] \in {DO, DONT}
      <3> DEFINE does == f[2] = DO /\ c \in PeerWill
                 w == Of(does)
      <3>1. /\ peerWill' = Put(peerWill, c, w) /\ peerDo' = peerDo
            /\ IF Flag(peerWill, c) # w
               THEN Says(Command(IF does THEN WILL ELSE WONT, c)) ELSE UNCHANGED inbound
        <4>1. f[2] \notin {WILL, WONT}
          BY <2>3, VerbsDiffer
        <4> QED BY <1>4, <2>3, <4>1 DEF PeerReads
      <3>2. w \in Replies /\ (w = "yes" <=> does)
        BY DEF Of, Replies
      <3>3. (IF does THEN WILL ELSE WONT) = TheirVerb("theirs", w)
        BY <3>2 DEF TheirVerb
      <3>4. "theirs" \in Sides /\ Theirs("theirs") = peerWill /\ Theirs("theirs")' = peerWill'
            /\ Willing("theirs") = PeerWill /\ OurVerb("theirs", "yes") = DO
            /\ OurVerb("theirs", "no") = DONT
        BY DEF Sides, Theirs, Willing, OurVerb
      <3>5. \A s \in Sides : s # "theirs" => Theirs(s)' = Theirs(s)
        BY <3>1 DEF Theirs
      <3> HIDE DEF w
      <3>6. Flags(peerWill)' /\ Flags(peerDo)'
        <4>1. Flags(peerWill')
          BY <3>1, <3>2, PutFlags DEF DealSound
        <4>2. Flags(peerDo')
          BY <3>1 DEF DealSound
        <4> QED BY <4>1, <4>2 DEF Flags, Replies
      <3>7. conn = "up" => Dealing'
        <4> HIDE DEF f, c
        <4>1. (w = "yes") <=> (f[2] = OurVerb("theirs", "yes") /\ c \in Willing("theirs"))
          BY <3>2, <3>4 DEF c, f
        <4>2. f[2] \in {OurVerb("theirs", "yes"), OurVerb("theirs", "no")}
          BY <2>3, <3>4
        <4>3. IF Flag(Theirs("theirs"), c) # w
              THEN Says(Command(TheirVerb("theirs", w), c)) ELSE UNCHANGED inbound
          BY <3>1, <3>3, <3>4
        <4>4. Theirs("theirs")' = Put(Theirs("theirs"), c, w)
          BY <3>1, <3>4
        <4> QED BY <2>2, <3>2, <3>4, <3>5, <4>1, <4>2, <4>3, <4>4 DEF DealSound
      <3> QED BY <1>1, <3>6, <3>7 DEF DealSound
    <2>4. CASE f[2] \in {WILL, WONT}
      <3> DEFINE asks == f[2] = WILL /\ c \in PeerDo
                 w == Of(asks)
      <3>1. /\ peerDo' = Put(peerDo, c, w) /\ peerWill' = peerWill
            /\ IF Flag(peerDo, c) # w
               THEN Says(Command(IF asks THEN DO ELSE DONT, c)) ELSE UNCHANGED inbound
        <4>1. f[2] \notin {DO, DONT}
          BY <2>4, VerbsDiffer
        <4> QED BY <1>4, <2>4, <4>1 DEF PeerReads
      <3>2. w \in Replies /\ (w = "yes" <=> asks)
        BY DEF Of, Replies
      <3>3. (IF asks THEN DO ELSE DONT) = TheirVerb("ours", w)
        BY <3>2 DEF TheirVerb
      <3>4. "ours" \in Sides /\ Theirs("ours") = peerDo /\ Theirs("ours")' = peerDo'
            /\ Willing("ours") = PeerDo /\ OurVerb("ours", "yes") = WILL
            /\ OurVerb("ours", "no") = WONT
        BY DEF Sides, Theirs, Willing, OurVerb
      <3>5. \A s \in Sides : s # "ours" => Theirs(s)' = Theirs(s)
        BY <3>1 DEF Theirs, Sides
      <3> HIDE DEF w
      <3>6. Flags(peerWill)' /\ Flags(peerDo)'
        <4>1. Flags(peerDo')
          BY <3>1, <3>2, PutFlags DEF DealSound
        <4>2. Flags(peerWill')
          BY <3>1 DEF DealSound
        <4> QED BY <4>1, <4>2 DEF Flags, Replies
      <3>7. conn = "up" => Dealing'
        <4> HIDE DEF f, c
        <4>1. (w = "yes") <=> (f[2] = OurVerb("ours", "yes") /\ c \in Willing("ours"))
          BY <3>2, <3>4 DEF c, f
        <4>2. f[2] \in {OurVerb("ours", "yes"), OurVerb("ours", "no")}
          BY <2>4, <3>4
        <4>3. IF Flag(Theirs("ours"), c) # w
              THEN Says(Command(TheirVerb("ours", w), c)) ELSE UNCHANGED inbound
          BY <3>1, <3>3, <3>4
        <4>4. Theirs("ours")' = Put(Theirs("ours"), c, w)
          BY <3>1, <3>4
        <4> QED BY <2>2, <3>2, <3>4, <3>5, <4>1, <4>2, <4>3, <4>4 DEF DealSound
      <3> QED BY <1>1, <3>6, <3>7 DEF DealSound
    <2>5. f[2] \in Verbs
      BY <1>4 DEF IsCommand
    <2> QED BY <2>3, <2>4, <2>5, VerbsDiffer
  <1> QED BY <1>3, <1>4

(* The far end says a command about a matter.                              *)
LEMMA DealTold ==
  ASSUME ReadSound, NEW K, NEW F, Coming(state, inbound, K), F = K \cup Held,
         state' = state, Held' = Held, NEW t \in Sides, NEW w \in Replies, NEW c \in Byte,
         inbound' = inbound \o Command(TheirVerb(t, w), c),
         \A G : G = F \cup {<<TheirVerb(t, w), c>>} => Deals(G)'
  PROVE  Dealing'
  <1>1. TheirVerb(t, w) \in Verbs
    BY VerbsAre
  <1>2. /\ Command(TheirVerb(t, w), c) \in Seq(Byte)
        /\ Coming("data", Command(TheirVerb(t, w), c), {<<TheirVerb(t, w), c>>})
    BY <1>1, CommandIs, ComingCommand
  <1>3. PICK L : L = {<<TheirVerb(t, w), c>>}
    OBVIOUS
  <1>4. Deals(F \cup L)'
    BY <1>3
  <1>5. PICK b : b = Command(TheirVerb(t, w), c)
    OBVIOUS
  <1>6. b \in Seq(Byte) /\ inbound' = inbound \o b /\ Coming("data", b, L)
    BY <1>2, <1>3, <1>5
  <1>7. inbound \in Seq(Byte)
    BY DEF ReadSound
  <1> QED BY <1>4, <1>6, <1>7, DealSays

(* What makes Settled: nothing about the matter is under way.              *)
LEMMA NothingUnderWay ==
  ASSUME NEW o, Settled(o), NEW K, NEW F, Coming(state, inbound, K), F = K \cup Held, NEW s \in Sides
  PROVE  Heard(s, o, F) = {} /\ Unread(s, o) = {}
  <1>1. inbound = <<>> /\ reader = Idle /\ ~Unheard(o)
    BY DEF Settled
  <1>2. K = {}
    BY <1>1, ComingNothing
  <1>3. Held = {}
    BY <1>1 DEF Held, Idle
  <1>4. Unread(s, o) = {}
    BY <1>1 DEF Unheard, Unread, About
  <1> QED BY <1>2, <1>3, <1>4 DEF Heard

LEMMA DealChanges ==
  ASSUME WireSound, PeerSound, ReadSound, DealSound,
         NEW c \in PeerWill \cup PeerDo, PeerChanges(c)
  PROVE  DealSound'
  <1>0. PeerActions /\ c \in Byte
    BY TelnetAssumption DEF PeerActions, TelnetAssumption
  <1>1. /\ state' = state /\ Held' = Held /\ conn' = conn
        /\ UNCHANGED <<wire, localWill, remoteDo>> /\ again \subseteq again'
    BY <1>0, PeerIsApart
  <1>2. peerRead' = peerRead
    BY DEF PeerChanges
  <1>3. ASSUME NEW t \in Sides, NEW w \in Replies, c \in Willing(t),
               c \notin DOMAIN Theirs(t) \/ Settled(c),
               w = Of(Flag(Theirs(t), c) # "yes"), Flags(Theirs(t)),
               Theirs(t)' = Put(Theirs(t), c, w), \A s \in Sides : s # t => Theirs(s)' = Theirs(s),
               Flag(Theirs(t), c) = "no" => <<t, c>> \in again',
               inbound' = inbound \o Command(TheirVerb(t, w), c)
        PROVE  Dealing => Dealing'
    <2> SUFFICES ASSUME Dealing PROVE Dealing'
      OBVIOUS
    <2>1. PICK K, F : Coming(state, inbound, K) /\ F = K \cup Held /\ Deals(F)
      BY DEF Dealing
    <2>2. \/ Flag(Theirs(t), c) = "undeclared" /\ w = "yes"
          \/ Flag(Theirs(t), c) # "undeclared" /\ Heard(t, c, F) = {} /\ Unread(t, c) = {}
      <3>1. CASE c \notin DOMAIN Theirs(t)
        <4>1. Flag(Theirs(t), c) = "undeclared"
          BY <3>1 DEF Flag
        <4> QED BY <1>3, <4>1 DEF Of
      <3>2. CASE c \in DOMAIN Theirs(t)
        <4>1. Flag(Theirs(t), c) # "undeclared"
          BY <1>3, <3>2, FlagIn
        <4>2. Settled(c)
          BY <1>3, <3>2
        <4> QED BY <2>1, <4>1, <4>2, NothingUnderWay
      <3> QED BY <3>1, <3>2
    <2>02. Flag(Theirs(t), c) # "undeclared" /\ w = "yes" => <<t, c>> \in again'
      <3>1. Flag(Theirs(t), c) \in Replies \cup {"undeclared"}
        BY <1>3, FlagIn DEF Flag
      <3> QED BY <1>3, <3>1 DEF Of, Replies
    <2>3. ASSUME NEW G, G = F \cup {<<TheirVerb(t, w), c>>} PROVE Deals(G)'
      BY <1>0, <1>1, <1>2, <1>3, <2>1, <2>2, <2>02, <2>3, FarEndTells
    <2> QED BY <1>0, <1>1, <1>3, <2>1, <2>3, DealTold
  <1>4. CASE /\ c \in PeerWill /\ (c \notin DOMAIN peerWill \/ Settled(c))
             /\ peerWill' = Put(peerWill, c, Of(Flag(peerWill, c) # "yes")) /\ UNCHANGED peerDo
             /\ again' = IF Flag(peerWill, c) = "no" THEN again \cup {<<"theirs", c>>} ELSE again
             /\ Says(Command(IF Flag(peerWill, c) = "yes" THEN WONT ELSE WILL, c))
    <2>1. PICK w : w = Of(Flag(peerWill, c) # "yes")
      OBVIOUS
    <2>2. w \in Replies /\ (w = "yes" <=> Flag(peerWill, c) # "yes")
      BY <2>1 DEF Of, Replies
    <2>3. (IF Flag(peerWill, c) = "yes" THEN WONT ELSE WILL) = TheirVerb("theirs", w)
      BY <2>2 DEF TheirVerb
    <2>4. "theirs" \in Sides /\ Theirs("theirs") = peerWill /\ Theirs("theirs")' = peerWill'
          /\ Willing("theirs") = PeerWill
      BY DEF Sides, Theirs, Willing
    <2>5. \A s \in Sides : s # "theirs" => Theirs(s)' = Theirs(s)
      BY <1>4 DEF Theirs
    <2>6. Flags(peerWill') /\ Flags(peerDo')
      BY <1>4, <2>1, <2>2, PutFlags DEF DealSound
    <2>7. Flags(peerWill)' /\ Flags(peerDo)'
      BY <2>6 DEF Flags, Replies
    <2>8. inbound' = inbound \o Command(TheirVerb("theirs", w), c)
      BY <1>4, <2>3 DEF Says
    <2>9. Flags(Theirs("theirs"))
      BY <2>4 DEF DealSound
    <2>10. Dealing => Dealing'
      BY <1>3, <1>4, <2>1, <2>2, <2>4, <2>5, <2>8, <2>9
    <2> QED BY <1>1, <2>7, <2>10 DEF DealSound
  <1>5. CASE /\ c \in PeerDo /\ (c \notin DOMAIN peerDo \/ Settled(c))
             /\ peerDo' = Put(peerDo, c, Of(Flag(peerDo, c) # "yes")) /\ UNCHANGED peerWill
             /\ again' = IF Flag(peerDo, c) = "no" THEN again \cup {<<"ours", c>>} ELSE again
             /\ Says(Command(IF Flag(peerDo, c) = "yes" THEN DONT ELSE DO, c))
    <2>1. PICK w : w = Of(Flag(peerDo, c) # "yes")
      OBVIOUS
    <2>2. w \in Replies /\ (w = "yes" <=> Flag(peerDo, c) # "yes")
      BY <2>1 DEF Of, Replies
    <2>3. (IF Flag(peerDo, c) = "yes" THEN DONT ELSE DO) = TheirVerb("ours", w)
      BY <2>2 DEF TheirVerb
    <2>4. "ours" \in Sides /\ Theirs("ours") = peerDo /\ Theirs("ours")' = peerDo'
          /\ Willing("ours") = PeerDo
      BY DEF Sides, Theirs, Willing
    <2>5. \A s \in Sides : s # "ours" => Theirs(s)' = Theirs(s)
      BY <1>5 DEF Theirs, Sides
    <2>6. Flags(peerWill') /\ Flags(peerDo')
      BY <1>5, <2>1, <2>2, PutFlags DEF DealSound
    <2>7. Flags(peerWill)' /\ Flags(peerDo)'
      BY <2>6 DEF Flags, Replies
    <2>8. inbound' = inbound \o Command(TheirVerb("ours", w), c)
      BY <1>5, <2>3 DEF Says
    <2>9. Flags(Theirs("ours"))
      BY <2>4 DEF DealSound
    <2>10. Dealing => Dealing'
      BY <1>3, <1>5, <2>1, <2>2, <2>4, <2>5, <2>8, <2>9
    <2> QED BY <1>1, <2>7, <2>10 DEF DealSound
  <1> QED BY <1>4, <1>5 DEF PeerChanges

LEMMA DealRepeats ==
  ASSUME WireSound, PeerSound, ReadSound, DealSound, PeerRepeats
  PROVE  DealSound'
  <1>0. PeerActions
    BY DEF PeerActions
  <1>1. /\ state' = state /\ Held' = Held /\ conn' = conn
        /\ UNCHANGED <<wire, localWill, remoteDo>>
    BY <1>0, PeerIsApart
  <1>2. UNCHANGED <<peerWill, peerDo, peerRead, again>>
    BY DEF PeerRepeats, peerVars
  <1>3. Flags(peerWill)' /\ Flags(peerDo)'
    BY <1>2 DEF DealSound, Flags, Replies
  <1>4. ASSUME NEW t \in Sides, NEW c \in Byte, c \in DOMAIN Theirs(t), Flags(Theirs(t)),
               NEW w, w = Theirs(t)[c], inbound' = inbound \o Command(TheirVerb(t, w), c)
        PROVE  Dealing => Dealing'
    <2> SUFFICES ASSUME Dealing PROVE Dealing'
      OBVIOUS
    <2>1. PICK K, F : Coming(state, inbound, K) /\ F = K \cup Held /\ Deals(F)
      BY DEF Dealing
    <2>2. w \in Replies /\ Flag(Theirs(t), c) = w
      BY <1>4, FlagIn
    <2>3. ASSUME NEW G, G = F \cup {<<TheirVerb(t, w), c>>} PROVE Deals(G)'
      <3>1. Deals(G)
        BY <2>1, <2>2, <2>3, FarEndRepeats
      <3> QED BY <1>1, <1>2, <3>1, NothingAgreed
    <2> QED BY <1>1, <1>4, <2>1, <2>2, <2>3, DealTold
  <1>5. /\ "theirs" \in Sides /\ Theirs("theirs") = peerWill
        /\ "ours" \in Sides /\ Theirs("ours") = peerDo
    BY DEF Sides, Theirs
  <1>6. Flags(peerWill) /\ Flags(peerDo) /\ DOMAIN peerWill \subseteq Byte /\ DOMAIN peerDo \subseteq Byte
    BY DEF DealSound, PeerSound
  <1>7. ASSUME NEW o \in DOMAIN peerWill,
               Says(Command(IF peerWill[o] = "yes" THEN WILL ELSE WONT, o))
        PROVE  Dealing => Dealing'
    <2>1. PICK w : w = peerWill[o]
      OBVIOUS
    <2>2. inbound' = inbound \o Command(TheirVerb("theirs", w), o)
      BY <1>7, <2>1 DEF Says, TheirVerb
    <2> QED BY <1>4, <1>5, <1>6, <2>1, <2>2
  <1>8. ASSUME NEW o \in DOMAIN peerDo, Says(Command(IF peerDo[o] = "yes" THEN DO ELSE DONT, o))
        PROVE  Dealing => Dealing'
    <2>1. PICK w : w = peerDo[o]
      OBVIOUS
    <2>2. inbound' = inbound \o Command(TheirVerb("ours", w), o)
      BY <1>8, <2>1 DEF Says, TheirVerb
    <2> QED BY <1>4, <1>5, <1>6, <2>1, <2>2
  <1>9. Dealing => Dealing'
    BY <1>7, <1>8 DEF PeerRepeats
  <1> QED BY <1>1, <1>3, <1>9 DEF DealSound

LEMMA DealOther ==
  ASSUME StreamsSayNothing, WireSound, PeerSound, ReadSound, DealSound,
         (\E b \in Streams : PeerSends(b)) \/ HangsUp
  PROVE  DealSound'
  <1>0. PeerActions
    BY DEF PeerActions
  <1>1. /\ state' = state /\ Held' = Held /\ conn' = conn
        /\ UNCHANGED <<wire, localWill, remoteDo>>
    BY <1>0, PeerIsApart
  <1>2. UNCHANGED <<peerWill, peerDo, peerRead, again>>
    BY DEF PeerSends, HangsUp, peerVars
  <1>3. CASE HangsUp
    <2>1. inbound' = inbound
      BY <1>3 DEF HangsUp
    <2> QED BY <1>1, <1>2, <2>1, DealUntouched
  <1>4. ASSUME NEW b \in Streams, PeerSends(b) PROVE DealSound'
    <2>1. Flags(peerWill)' /\ Flags(peerDo)'
      BY <1>2 DEF DealSound, Flags, Replies
    <2>2. inbound' = inbound \o b /\ b \in Seq(Byte) /\ inbound \in Seq(Byte)
      BY <1>4, TelnetAssumption DEF PeerSends, Says, TelnetAssumption, ReadSound
    <2>3. Coming("data", b, {})
      BY DEF StreamsSayNothing
    <2>4. ASSUME Dealing PROVE Dealing'
      <3>1. PICK K, F : Coming(state, inbound, K) /\ F = K \cup Held /\ Deals(F)
        BY <2>4 DEF Dealing
      <3>2. Deals(F)'
        BY <1>1, <1>2, <3>1, NothingAgreed
      <3>3. PICK L : L = {}
        OBVIOUS
      <3>4. Deals(F \cup L)'
        <4>1. F \cup L = F
          BY <3>3
        <4> QED BY <3>2, <4>1
      <3>5. Coming("data", b, L)
        BY <2>3, <3>3
      <3> QED BY <1>1, <2>2, <3>1, <3>4, <3>5, DealSays
    <2> QED BY <1>1, <2>1, <2>4 DEF DealSound
  <1> QED BY <1>3, <1>4

LEMMA DealInit == Init => DealSound
  <1> SUFFICES ASSUME Init PROVE DealSound
    OBVIOUS
  <1> DEFINE whose == <<"ours", "ours", "theirs", "theirs">>
             what == <<TType, NAWS, SGA, Echo>>
             f == [i \in 1 .. 4 |-> Command(OurVerb(whose[i], "yes"), what[i])]
  <1>1. /\ inbound = <<>> /\ state = "data" /\ reader = Idle /\ peerRead = 0
        /\ peerWill = <<>> /\ peerDo = <<>>
        /\ localWill = [o \in {TType, NAWS} |-> "yes"] /\ remoteDo = [o \in {SGA, Echo} |-> "yes"]
    BY DEF Init
  <1>2. /\ whose[1] = "ours" /\ whose[2] = "ours" /\ whose[3] = "theirs" /\ whose[4] = "theirs"
        /\ what[1] = TType /\ what[2] = NAWS /\ what[3] = SGA /\ what[4] = Echo
    OBVIOUS
  <1> HIDE DEF whose, what
  <1>3. \A i \in 1 .. 4 : i = 1 \/ i = 2 \/ i = 3 \/ i = 4
    OBVIOUS
  <1>4. \A i \in 1 .. 4 : whose[i] \in Sides /\ what[i] \in Byte
    BY <1>2, <1>3, OffersAre DEF Sides
  <1>5. /\ wire = <<Command(WILL, TType), Command(WILL, NAWS), Command(DO, SGA), Command(DO, Echo)>>
        /\ OurVerb("ours", "yes") = WILL /\ OurVerb("theirs", "yes") = DO
    BY DEF Init, OurVerb
  <1>6. Len(wire) = 4 /\ \A i \in 1 .. 4 : wire[i] = f[i]
    <2>1. /\ Len(wire) = 4 /\ wire[1] = Command(WILL, TType) /\ wire[2] = Command(WILL, NAWS)
          /\ wire[3] = Command(DO, SGA) /\ wire[4] = Command(DO, Echo)
      BY <1>5
    <2>2. /\ f[1] = Command(WILL, TType) /\ f[2] = Command(WILL, NAWS)
          /\ f[3] = Command(DO, SGA) /\ f[4] = Command(DO, Echo)
      BY <1>2, <1>5
    <2> HIDE DEF f
    <2> QED BY <1>3, <2>1, <2>2
  <1>7. ASSUME NEW i \in 1 .. 4
        PROVE  About(whose[i], what[i], wire[i]) /\ wire[i][2] = OurVerb(whose[i], "yes")
    <2>1. wire[i] = Command(OurVerb(whose[i], "yes"), what[i])
      BY <1>6
    <2>2. whose[i] \in Sides /\ what[i] \in Byte /\ "yes" \in Replies
      BY <1>4 DEF Replies
    <2> QED BY <2>1, <2>2, AboutCommand
  <1> HIDE DEF f
  <1>8. \A i, j \in 1 .. 4 : what[i] = what[j] => i = j
    <2>1. TType # NAWS /\ TType # SGA /\ TType # Echo /\ NAWS # SGA /\ NAWS # Echo /\ SGA # Echo
      BY DEF TType, NAWS, SGA, Echo
    <2> QED BY <1>2, <1>3, <2>1
  <1>9. ASSUME NEW s \in Sides, NEW o \in Byte PROVE Deal(s, o, {})
    <2>1. Heard(s, o, {}) = {}
      BY DEF Heard
    <2>2. Unread(s, o) = {i \in 1 .. 4 : whose[i] = s /\ what[i] = o}
      <3>1. Unread(s, o) = {i \in 1 .. 4 : About(s, o, wire[i])}
        BY <1>1, <1>6 DEF Unread
      <3>2. \A i \in 1 .. 4 : About(s, o, wire[i]) <=> whose[i] = s /\ what[i] = o
        <4> SUFFICES ASSUME NEW i \in 1 .. 4
                     PROVE  About(s, o, wire[i]) <=> whose[i] = s /\ what[i] = o
          OBVIOUS
        <4>1. About(whose[i], what[i], wire[i]) /\ whose[i] \in Sides
          BY <1>4, <1>7
        <4> QED BY <4>1, AboutOne
      <3> QED BY <3>1, <3>2
    <2>3. Flag(Theirs(s), o) = "undeclared"
      <3>1. DOMAIN Theirs(s) = {}
        BY <1>1 DEF Theirs
      <3> QED BY <3>1 DEF Flag
    <2>4. /\ Flag(Mine(s), o) = "undeclared" \/ Flag(Mine(s), o) = "yes"
          /\ Flag(Mine(s), o) = "yes" <=> Unread(s, o) # {}
      <3>1. CASE s = "theirs"
        <4>1. Mine(s) = [x \in {SGA, Echo} |-> "yes"]
          BY <1>1, <3>1 DEF Mine
        <4>2. Flag(Mine(s), o) = IF o \in {SGA, Echo} THEN "yes" ELSE "undeclared"
          BY <4>1 DEF Flag
        <4>3. Unread(s, o) # {} <=> o \in {SGA, Echo}
          BY <1>2, <1>3, <2>2, <3>1
        <4> QED BY <4>2, <4>3
      <3>2. CASE s = "ours"
        <4>1. Mine(s) = [x \in {TType, NAWS} |-> "yes"]
          BY <1>1, <3>2 DEF Mine
        <4>2. Flag(Mine(s), o) = IF o \in {TType, NAWS} THEN "yes" ELSE "undeclared"
          BY <4>1 DEF Flag
        <4>3. Unread(s, o) # {} <=> o \in {TType, NAWS}
          BY <1>2, <1>3, <2>2, <3>2
        <4> QED BY <4>2, <4>3
      <3> QED BY <3>1, <3>2 DEF Sides
    <2>5. Fits(Flag(Mine(s), o), Flag(Theirs(s), o), Heard(s, o, {}), Unread(s, o))
      <3>1. \A i, j \in Unread(s, o) : i = j
        BY <1>8, <2>2
      <3> QED BY <2>1, <2>3, <2>4, <3>1 DEF Fits, Replies
    <2>6. ASSUME NEW i \in Unread(s, o)
          PROVE  Flag(Mine(s), o) \in Replies /\ wire[i][2] = OurVerb(s, Flag(Mine(s), o))
      <3>1. Flag(Mine(s), o) = "yes" /\ i \in 1 .. 4 /\ whose[i] = s
        BY <2>2, <2>4
      <3> QED BY <1>7, <3>1 DEF Replies
    <2>7. CASE Taken(s, o)
      <3>1. Taking(s, o, {})
        BY <2>3, <2>5, <2>6 DEF Taking
      <3> QED BY <2>7, <3>1 DEF Deal
    <2>8. CASE ~Taken(s, o)
      <3>1. Unread(s, o) = {}
        <4>1. \A i \in 1 .. 4 : Taken(whose[i], what[i])
          BY <1>2, <1>3 DEF Taken, Wants, Echo, SGA, NAWS, TType
        <4> QED BY <2>2, <2>8, <4>1
      <3>2. Refusing(s, o, {})
        BY <2>1, <2>3, <2>4, <3>1 DEF Refusing, Refuses
      <3> QED BY <2>8, <3>2 DEF Deal
    <2> QED BY <2>7, <2>8
  <1>10. Dealing
    <2>1. Held = {}
      BY <1>1 DEF Held, Idle
    <2>2. Coming(state, inbound, {})
      BY <1>1, ComingNothing
    <2>3. Deals({})
      BY <1>9 DEF Deals
    <2>4. PICK K : K = {}
      OBVIOUS
    <2>5. Coming(state, inbound, K) /\ K = K \cup Held /\ Deals(K)
      BY <2>1, <2>2, <2>3, <2>4
    <2> QED BY <2>5 DEF Dealing
  <1>11. Flags(peerWill) /\ Flags(peerDo)
    BY <1>1 DEF Flags
  <1> QED BY <1>10, <1>11 DEF DealSound

LEMMA DealStep ==
  ASSUME StreamsSayNothing, Sound, ReadIsSent, DealSound, [Next]_vars
  PROVE  DealSound'
  <1>1. WireSound /\ ReadSound /\ CallSound /\ PeerSound
    BY DEF Sound
  <1>2. /\ inbound \in Seq(Byte) /\ state \in States
    BY <1>1 DEF ReadSound
  <1>3. CASE Read
    <2>1. /\ Consume /\ FilterByte(Head(inbound)) /\ conn' = conn /\ reader' = reader /\ wire' = wire
          /\ UNCHANGED <<localWill, remoteDo, peerWill, peerDo, peerRead, again>>
      BY <1>3 DEF Read, optVars, peerVars
    <2>2. /\ state' = Turn(state, Head(inbound))
          /\ state \in Negotiating => ~Changes(VerbOf(state), Head(inbound))
      BY <1>2, <2>1, FilterTurns
    <2> QED BY <1>1, <2>1, <2>2, DealReads
  <1>4. CASE ReadCommand
    BY <1>1, <1>4, DealTakes
  <1>5. CASE EndSubneg
    <2>1. /\ Consume /\ state = "sbIac" /\ Head(inbound) = SE /\ state' = "data"
          /\ conn' = conn /\ reader' = reader /\ (Out(TTypeFrame) \/ wire' = wire)
          /\ UNCHANGED <<localWill, remoteDo, peerWill, peerDo, peerRead, again>>
      BY <1>5 DEF EndSubneg, optVars, peerVars
    <2>2. state \notin Negotiating /\ Turn(state, Head(inbound)) = "data"
      BY <2>1, BytesAre DEF Turn, Negotiating
    <2>3. wire' = wire \/ \E f \in Seq(Byte) : ~IsCommand(f) /\ wire' = Append(wire, f)
      BY <2>1, TTypeIs DEF Out
    <2> QED BY <1>1, <2>1, <2>2, <2>3, DealReads
  <1>6. CASE Declare
    BY <1>1, <1>6, DealAnswers
  <1>7. CASE ReaderCopiesSize \/ ReaderSendsSize \/ ReadFails
    <2>1. /\ state' = state /\ inbound' = inbound /\ conn' = conn
          /\ UNCHANGED <<localWill, remoteDo, peerWill, peerDo, peerRead, again>>
      BY <1>7 DEF ReaderCopiesSize, ReaderSendsSize, ReadFails, filterVars, optVars, peerVars
    <2>2. Held' = Held
      <3>1. CASE ReadFails
        BY <3>1 DEF ReadFails, Held
      <3>2. CASE ReaderCopiesSize
        <4>1. reader' = [reader EXCEPT !.step = "send", !.size = size] /\ reader.step = "size"
          BY <3>2 DEF ReaderCopiesSize
        <4>2. reader'.step = "send"
          BY <1>1, <4>1 DEF CallSound, Call
        <4> QED BY <4>1, <4>2 DEF Held
      <3>3. CASE ReaderSendsSize
        BY <3>3 DEF ReaderSendsSize, Held, Idle
      <3> QED BY <1>7, <3>1, <3>2, <3>3
    <2>3. wire' = wire \/ \E f \in Seq(Byte) : ~IsCommand(f) /\ wire' = Append(wire, f)
      <3>1. CASE ReadFails \/ ReaderCopiesSize
        BY <3>1 DEF ReadFails, ReaderCopiesSize
      <3>2. CASE ReaderSendsSize
        <4>1. Out(NawsFrame(reader.size)) /\ reader.size \in RealSize
          BY <1>1, <3>2 DEF ReaderSendsSize, CallSound
        <4>2. NawsFrame(reader.size) \in Seq(Byte) /\ ~IsCommand(NawsFrame(reader.size))
          BY <4>1, NawsIs
        <4> QED BY <4>1, <4>2 DEF Out
      <3> QED BY <1>7, <3>1, <3>2
    <2> QED BY <1>1, <2>1, <2>2, <2>3, DealUntouched
  <1>8. ASSUME NEW p \in Texts, Write(p) PROVE DealSound'
    <2>1. /\ state' = state /\ inbound' = inbound /\ conn' = conn /\ reader' = reader
          /\ UNCHANGED <<localWill, remoteDo, peerWill, peerDo, peerRead, again>>
      BY <1>8 DEF Write, filterVars, optVars, peerVars
    <2>2. wire' = Append(wire, TransformWrite(p)) \/ wire' = wire
      BY <1>8 DEF Write
    <2>3. TransformWrite(p) \in Seq(Byte) /\ ~IsCommand(TransformWrite(p))
      BY TelnetAssumption, TextIs DEF TelnetAssumption
    <2>4. wire' = wire \/ \E f \in Seq(Byte) : ~IsCommand(f) /\ wire' = Append(wire, f)
      BY <2>2, <2>3
    <2>5. Held' = Held
      BY <2>1 DEF Held
    <2> QED BY <1>1, <2>1, <2>4, <2>5, DealUntouched
  <1>9. ASSUME NEW c \in Callers, SendSize(c) PROVE DealSound'
    <2>1. /\ state' = state /\ inbound' = inbound /\ conn' = conn /\ reader' = reader
          /\ UNCHANGED <<localWill, remoteDo, peerWill, peerDo, peerRead, again>>
      BY <1>9 DEF SendSize, filterVars, optVars, peerVars
    <2>2. Out(NawsFrame(caller[c].size)) /\ caller[c].size \in RealSize
      BY <1>1, <1>9 DEF SendSize, CallSound
    <2>3. NawsFrame(caller[c].size) \in Seq(Byte) /\ ~IsCommand(NawsFrame(caller[c].size))
      BY <2>2, NawsIs
    <2>4. wire' = wire \/ \E f \in Seq(Byte) : ~IsCommand(f) /\ wire' = Append(wire, f)
      BY <2>2, <2>3 DEF Out
    <2>5. Held' = Held
      BY <2>1 DEF Held
    <2> QED BY <1>1, <2>1, <2>4, <2>5, DealUntouched
  <1>10. CASE AppActions \/ UNCHANGED vars
    <2>1. /\ wire' = wire /\ localWill' = localWill /\ remoteDo' = remoteDo
          /\ conn' = "up" => conn = "up"
      BY <1>10, SilentSteps
    <2>2. state' = state
      BY <1>10, NoByte
    <2>3. inbound' = inbound /\ reader' = reader /\ UNCHANGED <<peerWill, peerDo, peerRead, again>>
      <3>1. CASE AppActions
        BY <3>1 DEF AppActions, Resize, CopySize, Close, CloseFinish, CloseSocket, peerVars
      <3>2. CASE UNCHANGED vars
        BY <3>2 DEF vars, peerVars
      <3> QED BY <1>10, <3>1, <3>2
    <2>4. Held' = Held
      BY <2>3 DEF Held
    <2> QED BY <1>1, <2>1, <2>2, <2>3, <2>4, DealUntouched
  <1>11. CASE PeerActions
    <2>1. CASE PeerReads
      BY <1>1, <2>1, DealHeard
    <2>2. ASSUME NEW o \in PeerWill \cup PeerDo, PeerChanges(o) PROVE DealSound'
      BY <1>1, <2>2, DealChanges
    <2>3. CASE PeerRepeats
      BY <1>1, <2>3, DealRepeats
    <2>4. CASE (\E b \in Streams : PeerSends(b)) \/ HangsUp
      BY <1>1, <2>4, DealOther
    <2> QED BY <1>11, <2>1, <2>2, <2>3, <2>4 DEF PeerActions
  <1> QED BY <1>3, <1>4, <1>5, <1>6, <1>7, <1>8, <1>9, <1>10, <1>11
          DEF Next, Reader, Caller, Peer, AppActions, PeerActions

(* The options the program has declared are bytes.                         *)
OursAreBytes == DOMAIN localWill \subseteq Byte /\ DOMAIN remoteDo \subseteq Byte

LEMMA OursStep == Sound /\ OursAreBytes /\ [Next]_vars => OursAreBytes'
  <1> SUFFICES ASSUME Sound, OursAreBytes, [Next]_vars PROVE OursAreBytes'
    OBVIOUS
  <1>1. CASE Declare
    <2>1. reader.opt \in Byte
      BY DEF Sound, CallSound, Call
    <2>2. \A m, flag : DOMAIN m \subseteq Byte => DOMAIN Put(m, reader.opt, flag) \subseteq Byte
      BY <2>1 DEF Put
    <2>3. \/ \E flag : /\ remoteDo' = Put(Declared(reader.verb), reader.opt, flag)
                       /\ localWill' = localWill
          \/ \E flag : /\ localWill' = Put(Declared(reader.verb), reader.opt, flag)
                       /\ remoteDo' = remoteDo
      BY <1>1 DEF Declare
    <2>4. DOMAIN Declared(reader.verb) \subseteq Byte
      BY DEF Declared, OursAreBytes
    <2> QED BY <2>2, <2>3, <2>4 DEF OursAreBytes
  <1>2. ASSUME localWill' = localWill, remoteDo' = remoteDo PROVE OursAreBytes'
    BY <1>2 DEF OursAreBytes
  <1>3. CASE Read \/ ReadCommand \/ ReaderCopiesSize \/ ReadFails \/ AppActions \/ PeerActions
             \/ UNCHANGED vars
    BY <1>2, <1>3, SilentSteps
  <1>4. CASE \/ ReaderSendsSize \/ EndSubneg \/ (\E p \in Texts : Write(p))
             \/ (\E c \in Callers : SendSize(c))
    <2>1. localWill' = localWill /\ remoteDo' = remoteDo
      BY <1>4 DEF ReaderSendsSize, EndSubneg, Write, SendSize, optVars
    <2> QED BY <1>2, <2>1
  <1> QED BY <1>1, <1>3, <1>4 DEF Next, Reader, Caller, Peer, AppActions, PeerActions

LEMMA DealAgrees == DealSound /\ OursAreBytes /\ PeerSound => Agreement
  <1> SUFFICES ASSUME DealSound, OursAreBytes, PeerSound, Quiet,
                      NEW o \in UNION {DOMAIN localWill, DOMAIN remoteDo, DOMAIN peerWill, DOMAIN peerDo}
               PROVE  Agreed("ours", localWill, peerDo, o) /\ Agreed("theirs", remoteDo, peerWill, o)
    BY DEF Agreement
  <1>1. o \in Byte
    BY DEF OursAreBytes, PeerSound
  <1>2. conn = "up" /\ inbound = <<>> /\ reader = Idle /\ peerRead = Len(wire)
    BY DEF Quiet
  <1>3. PICK K, F : Coming(state, inbound, K) /\ F = K \cup Held /\ Deals(F)
    BY <1>2 DEF DealSound, Dealing
  <1>4. F = {}
    <2>1. K = {}
      BY <1>2, <1>3, ComingNothing
    <2>2. Held = {}
      BY <1>2 DEF Held, Idle
    <2> QED BY <1>3, <2>1, <2>2
  <1>5. ASSUME NEW s \in Sides PROVE Agreed(s, Mine(s), Theirs(s), o)
    <2>1. Deal(s, o, F)
      BY <1>1, <1>3 DEF Deals
    <2>2. Heard(s, o, F) = {}
      BY <1>4 DEF Heard
    <2>3. Unread(s, o) = {}
      <3>1. peerRead + 1 .. Len(wire) = {}
        BY <1>2 DEF PeerSound
      <3> QED BY <3>1 DEF Unread
    <2>4. CASE Taken(s, o)
      <3>1. Flag(Mine(s), o) = "yes" <=> Flag(Theirs(s), o) = "yes"
        BY <2>1, <2>2, <2>3, <2>4 DEF Deal, Taking, Fits
      <3> QED BY <3>1 DEF Agreed
    <2>5. CASE ~Taken(s, o)
      <3>1. Refuses(Flag(Mine(s), o), Flag(Theirs(s), o), {}, {}, <<s, o>> \in again)
        BY <2>1, <2>2, <2>3, <2>5 DEF Deal, Refusing
      <3>2. \/ Flag(Mine(s), o) # "yes" /\ Flag(Theirs(s), o) # "yes"
            \/ Flag(Mine(s), o) = "no" /\ Flag(Theirs(s), o) = "yes" /\ <<s, o>> \in again
        BY <3>1 DEF Refuses
      <3> QED BY <2>5, <3>2 DEF Agreed
    <2> QED BY <2>4, <2>5
  <1>6. /\ "ours" \in Sides /\ Mine("ours") = localWill /\ Theirs("ours") = peerDo
        /\ "theirs" \in Sides /\ Mine("theirs") = remoteDo /\ Theirs("theirs") = peerWill
    BY DEF Sides, Mine, Theirs
  <1>7. Agreed("ours", localWill, peerDo, o)
    BY <1>5, <1>6
  <1>8. Agreed("theirs", remoteDo, peerWill, o)
    BY <1>5, <1>6
  <1> QED BY <1>7, <1>8

(* When nothing is under way both ends agree on every option, the refused  *)
(* ones among them, with any far end, however offers, changes of mind and  *)
(* repetitions cross, but for a refused option it took up once more        *)
(* (onWill, onWont, onDo, onDont).  What else the far end sends is no      *)
(* command.                                                                *)
THEOREM BothEndsAgree ==
  ASSUME StreamsSayNothing PROVE Spec => []Agreement
  <1>1. Sound /\ [Next]_vars => Sound'
    BY WireStep, ReadStep, CallStep DEF Sound
  <1>2. Sound /\ ReadIsSent /\ DealSound /\ [Next]_vars => DealSound'
    BY DealStep
  <1>5. Init => ReadIsSent
    BY DEF Init, ReadIsSent
  <1>3. Init => OursAreBytes
    BY OffersAre DEF Init, OursAreBytes
  <1>4. Sound /\ DealSound /\ OursAreBytes => Agreement
    BY DealAgrees DEF Sound
  <1> QED BY <1>1, <1>2, <1>3, <1>4, <1>5, SoundInit, DealInit, OursStep, ReadIsSentStep, PTL DEF Spec
================================================================================
