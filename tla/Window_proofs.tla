---------------------------- MODULE Window_proofs ----------------------------
(***************************************************************************)
(* Theorems about Window, for any conversations, sizes, budgets and number *)
(* of handlers: what the bisection of _fit finds, and what the note in a   *)
(* prompt and the note in _NOTE_STATE stand for.                           *)
(*                                                                         *)
(* Sums and joins over sequences, and the search, are recursive functions. *)
(* What they compute is shown by induction over the naturals, as a fact    *)
(* about sets (Induction): a set of naturals with 0 in it that is closed   *)
(* under successor is Nat.                                                 *)
(***************************************************************************)
EXTENDS Window, SequenceTheorems, WellFoundedInduction, TLAPS

-----------------------------------------------------------------------------
(***************************************************************************)
(* Numbers.                                                                *)
(***************************************************************************)
\* A set of naturals has a least element.
LEMMA LeastOf ==
  ASSUME NEW S \in SUBSET Nat, S # {}
  PROVE  Min(S) \in S /\ \A y \in S : Min(S) <= y
  <1> DEFINE R == {p \in Nat \X Nat : p[1] < p[2]}
  <1>1. OpToRel(<, Nat) = R BY DEF OpToRel
  <1>2. IsWellFoundedOn(R, Nat) BY <1>1, NatLessThanWellFounded
  <1> HIDE DEF R
  <1>3. PICK x \in S : \A y \in S : <<y, x>> \notin R
    BY <1>2, WFMin
  <1>4. ASSUME NEW y \in S PROVE x <= y
    <2>1. ~(y < x) BY <1>3 DEF R
    <2> QED BY <2>1
  <1> QED BY <1>4 DEF Min

\* A bounded one has a greatest.
LEMMA GreatestOf ==
  ASSUME NEW b \in Nat, NEW S \in SUBSET (0..b), S # {}
  PROVE  Max(S) \in S /\ \A y \in S : y <= Max(S)
  <1> DEFINE T == {b - y : y \in S}
             x == b - Min(T)
  <1>1. T \in SUBSET Nat /\ T # {}
    <2>1. \A y \in S : b - y \in Nat OBVIOUS
    <2> QED BY <2>1
  <1>2. Min(T) \in T /\ \A t \in T : Min(T) <= t
    <2> HIDE DEF T
    <2> QED BY <1>1, LeastOf
  <1>3. x \in S /\ \A y \in S : x >= y
    <2>1. PICK z \in S : Min(T) = b - z BY <1>2
    <2>2. x = z BY <2>1
    <2>3. ASSUME NEW y \in S PROVE x >= y
      <3>1. b - z <= b - y BY <1>2, <2>1
      <3> QED BY <2>2, <3>1
    <2> QED BY <2>2, <2>3
  <1> HIDE DEF x
  <1>4. Max(S) \in S /\ \A y \in S : Max(S) >= y
    <2>1. \E z \in S : \A y \in S : z >= y BY <1>3
    <2> QED BY <2>1, Zenon DEF Max
  <1>5. Max(S) \in Nat /\ \A y \in S : y \in Nat
    <2>1. \A y \in S : y \in 0..b OBVIOUS
    <2>2. \A y \in 0..b : y \in Nat OBVIOUS
    <2>3. Max(S) \in S BY <1>4
    <2> QED BY <2>1, <2>2, <2>3
  <1> QED BY <1>4, <1>5

\* Induction, of sets.
LEMMA Induction ==
  ASSUME NEW S \in SUBSET Nat, 0 \in S, \A n \in S : n + 1 \in S
  PROVE  S = Nat
  <1> SUFFICES ASSUME S # Nat PROVE FALSE OBVIOUS
  <1> DEFINE T == Nat \ S
             x == Min(T)
  <1>1. T \in SUBSET Nat /\ T # {} OBVIOUS
  <1> HIDE DEF T
  <1>2. x \in T /\ \A y \in T : x <= y BY <1>1, LeastOf
  <1> HIDE DEF x
  <1>3. x # 0 /\ x \in Nat BY <1>2 DEF T
  <1>4. x - 1 \in Nat /\ x - 1 \notin T BY <1>2, <1>3
  <1>5. x \in S BY <1>3, <1>4 DEF T
  <1> QED BY <1>2, <1>5 DEF T

-----------------------------------------------------------------------------
(***************************************************************************)
(* Sequences and their parts.                                              *)
(***************************************************************************)
\* Sequences as long that agree at every place are the same.
LEMMA SameSeq ==
  ASSUME NEW S, NEW s \in Seq(S), NEW t \in Seq(S), Len(s) = Len(t),
         \A i \in 1..Len(s) : s[i] = t[i]
  PROVE  s = t
  OBVIOUS

\* What is behind the first k.
LEMMA FromIs ==
  ASSUME NEW S, NEW s \in Seq(S), NEW k \in 0..Len(s)
  PROVE  /\ From(s, k) \in Seq(S) /\ Len(From(s, k)) = Len(s) - k
         /\ \A i \in 1..(Len(s) - k) : From(s, k)[i] = s[k + i]
  <1> DEFINE n == Len(s)
  <1>0. n \in Nat /\ k \in Nat /\ k <= n OBVIOUS
  <1>1. \A i \in (k + 1)..n : s[i] \in S BY <1>0
  <1>2. From(s, k) = SubSeq(s, k + 1, n) BY DEF From
  <1> HIDE DEF n
  <1>3. /\ From(s, k) \in Seq(S) /\ Len(From(s, k)) = n - k
        /\ \A i \in 1..(n - k) : From(s, k)[i] = s[k + i]
    BY <1>0, <1>1, <1>2, SubSeqProperties DEF n
  <1> QED BY <1>3 DEF n

\* The first k.
LEMMA FirstIs ==
  ASSUME NEW S, NEW s \in Seq(S), NEW k \in 0..Len(s)
  PROVE  /\ SubSeq(s, 1, k) \in Seq(S) /\ Len(SubSeq(s, 1, k)) = k
         /\ \A i \in 1..k : SubSeq(s, 1, k)[i] = s[i]
  <1>0. Len(s) \in Nat /\ k \in Nat /\ k <= Len(s) OBVIOUS
  <1>1. \A i \in 1..k : s[i] \in S BY <1>0
  <1> QED BY <1>0, <1>1, SubSeqProperties

\* One behind the other.
LEMMA ConcatIs ==
  ASSUME NEW S, NEW s \in Seq(S), NEW t \in Seq(S)
  PROVE  /\ s \o t \in Seq(S) /\ Len(s \o t) = Len(s) + Len(t)
         /\ Len(s) \in Nat /\ Len(t) \in Nat
         /\ \A i \in 1..Len(s) : (s \o t)[i] = s[i]
         /\ \A i \in 1..Len(t) : (s \o t)[Len(s) + i] = t[i]
  OBVIOUS

\* The first k and what is behind them.
LEMMA Split ==
  ASSUME NEW S, NEW s \in Seq(S), NEW k \in 0..Len(s)
  PROVE  SubSeq(s, 1, k) \o From(s, k) = s
  <1> DEFINE n == Len(s)
             a == SubSeq(s, 1, k)
             b == From(s, k)
             c == a \o b
  <1>0. n \in Nat /\ k \in Nat /\ k <= n OBVIOUS
  <1>1. a \in Seq(S) /\ Len(a) = k /\ \A i \in 1..k : a[i] = s[i] BY FirstIs
  <1>2. b \in Seq(S) /\ Len(b) = n - k /\ \A i \in 1..(n - k) : b[i] = s[k + i]
    BY FromIs
  <1> HIDE DEF n, a, b
  <1>3. c \in Seq(S) /\ Len(c) = n /\ (\A i \in 1..k : c[i] = a[i])
        /\ \A i \in 1..(n - k) : c[k + i] = b[i]
    <2>1. /\ c \in Seq(S) /\ Len(c) = Len(a) + Len(b) /\ (\A i \in 1..Len(a) : c[i] = a[i])
          /\ \A i \in 1..Len(b) : c[Len(a) + i] = b[i]
      <3>1. a \in Seq(S) /\ b \in Seq(S) BY <1>1, <1>2
      <3> QED BY <3>1, ConcatIs
    <2>2. k + (n - k) = n BY <1>0
    <2> QED BY <1>1, <1>2, <2>1, <2>2
  <1> HIDE DEF c
  <1>4. ASSUME NEW i \in 1..n PROVE c[i] = s[i]
    <2>1. CASE i <= k BY <1>0, <1>1, <1>3, <2>1
    <2>2. CASE ~(i <= k)
      <3>1. i - k \in 1..(n - k) /\ k + (i - k) = i BY <1>0, <2>2
      <3> QED BY <1>2, <1>3, <3>1
    <2> QED BY <2>1, <2>2
  <1>5. c = s BY <1>3, <1>4, SameSeq DEF n
  <1> QED BY <1>5 DEF c, a, b

\* What is behind the first b of what is behind the first a.
LEMMA FromFrom ==
  ASSUME NEW S, NEW s \in Seq(S), NEW a \in 0..Len(s), NEW b \in 0..(Len(s) - a)
  PROVE  From(From(s, a), b) = From(s, a + b)
  <1> DEFINE n == Len(s)
             x == From(s, a)
             y == From(x, b)
             z == From(s, a + b)
  <1>0. n \in Nat /\ a \in Nat /\ b \in Nat /\ a + b \in 0..n /\ b \in 0..(n - a) OBVIOUS
  <1>1. x \in Seq(S) /\ Len(x) = n - a /\ \A i \in 1..(n - a) : x[i] = s[a + i]
    BY FromIs
  <1>2. z \in Seq(S) /\ Len(z) = n - (a + b)
        /\ \A i \in 1..(n - (a + b)) : z[i] = s[a + b + i]
    BY <1>0, FromIs
  <1> HIDE DEF n, x, z
  <1>3. y \in Seq(S) /\ Len(y) = n - a - b /\ \A i \in 1..(n - a - b) : y[i] = x[b + i]
    <2>1. b \in 0..Len(x) BY <1>0, <1>1
    <2>2. x \in Seq(S) BY <1>1
    <2>3. y \in Seq(S) /\ Len(y) = Len(x) - b /\ \A i \in 1..(Len(x) - b) : y[i] = x[b + i]
      BY <2>1, <2>2, FromIs, Zenon
    <2> QED BY <1>1, <2>3
  <1> HIDE DEF y
  <1>4. ASSUME NEW i \in 1..(n - a - b) PROVE y[i] = z[i]
    <2>1. b + i \in 1..(n - a) /\ i \in 1..(n - (a + b)) /\ a + (b + i) = a + b + i
      BY <1>0
    <2> QED BY <1>1, <1>2, <1>3, <2>1
  <1>5. n - (a + b) = n - a - b BY <1>0
  <1>6. y = z BY <1>2, <1>3, <1>4, <1>5, SameSeq
  <1> QED BY <1>6 DEF x, y, z

\* What is behind the first sequence, and before the second.
LEMMA FromConcat ==
  ASSUME NEW S, NEW s \in Seq(S), NEW t \in Seq(S)
  PROVE  From(s \o t, Len(s)) = t /\ SubSeq(s \o t, 1, Len(s)) = s
  <1> DEFINE n == Len(s)
             k == Len(t)
             w == s \o t
  <1>0. /\ w \in Seq(S) /\ Len(w) = n + k /\ n \in Nat /\ k \in Nat
        /\ (\A i \in 1..n : w[i] = s[i]) /\ (\A i \in 1..k : w[n + i] = t[i])
    BY ConcatIs
  <1> HIDE DEF n, k, w
  <1>1. n \in 0..Len(w) /\ n + k - n = k BY <1>0
  <1>2. From(w, n) \in Seq(S) /\ Len(From(w, n)) = k
        /\ \A i \in 1..k : From(w, n)[i] = w[n + i]
    <2> DEFINE v == From(w, n)
    <2>1. v \in Seq(S) /\ Len(v) = Len(w) - n /\ \A i \in 1..(Len(w) - n) : v[i] = w[n + i]
      BY <1>0, <1>1, FromIs
    <2>2. Len(w) - n = k BY <1>0
    <2> HIDE DEF v
    <2>3. v \in Seq(S) /\ Len(v) = k /\ \A i \in 1..k : v[i] = w[n + i] BY <2>1, <2>2
    <2> QED BY <2>3 DEF v
  <1>3. SubSeq(w, 1, n) \in Seq(S) /\ Len(SubSeq(w, 1, n)) = n
        /\ \A i \in 1..n : SubSeq(w, 1, n)[i] = w[i]
    BY <1>0, <1>1, FirstIs
  <1>4. From(w, n) = t BY <1>0, <1>2, SameSeq DEF k
  <1>5. SubSeq(w, 1, n) = s BY <1>0, <1>3, SameSeq DEF n
  <1> QED BY <1>4, <1>5 DEF w, n

-----------------------------------------------------------------------------
(***************************************************************************)
(* Sums.                                                                   *)
(***************************************************************************)
\* g sums s as far as n.
SumsTo(s, n, g) ==
  g = [k \in 0..n |-> IF k = 0 THEN 0 ELSE g[k - 1] + s[k]]

\* What a function that sums is.
LEMMA SumsAre ==
  ASSUME NEW s, NEW n \in Nat, NEW g, SumsTo(s, n, g)
  PROVE  DOMAIN g = 0..n /\ g[0] = 0 /\ \A k \in 1..n : g[k] = g[k - 1] + s[k]
  <1> DEFINE h == [k \in 0..n |-> IF k = 0 THEN 0 ELSE g[k - 1] + s[k]]
  <1>1. g = h BY DEF SumsTo
  <1>2. DOMAIN h = 0..n /\ h[0] = 0 /\ \A k \in 1..n : h[k] = g[k - 1] + s[k]
    OBVIOUS
  <1> HIDE DEF h
  <1> QED BY <1>1, <1>2

\* When a function sums.
LEMMA SumsWhen ==
  ASSUME NEW s, NEW n \in Nat, NEW g, NEW S, g \in [0..n -> S], g[0] = 0,
         \A k \in 1..n : g[k] = g[k - 1] + s[k]
  PROVE  SumsTo(s, n, g)
  <1> DEFINE h == [k \in 0..n |-> IF k = 0 THEN 0 ELSE g[k - 1] + s[k]]
  <1>1. DOMAIN h = 0..n OBVIOUS
  <1>2. ASSUME NEW k \in 0..n PROVE g[k] = h[k]
    <2>1. CASE k = 0 BY <2>1
    <2>2. CASE k # 0
      <3>1. k \in 1..n BY <2>2
      <3> QED BY <2>2, <3>1
    <2> QED BY <2>1, <2>2
  <1>3. g = [k \in 0..n |-> g[k]] /\ h = [k \in 0..n |-> h[k]] OBVIOUS
  <1> HIDE DEF h
  <1>4. g = h BY <1>2, <1>3
  <1> QED BY <1>4 DEF SumsTo, h

\* There are sums, and they are numbers.
LEMMA SumsExist ==
  ASSUME NEW s \in Seq(Nat), NEW n \in 0..Len(s)
  PROVE  \E g \in [0..n -> Nat] : SumsTo(s, n, g)
  <1> DEFINE P == {m \in Nat : m <= Len(s) => \E g \in [0..m -> Nat] : SumsTo(s, m, g)}
  <1>0. Len(s) \in Nat /\ n \in Nat /\ n <= Len(s) OBVIOUS
  <1>1. 0 \in P
    <2> DEFINE g == [k \in 0..0 |-> 0]
    <2>1. g \in [0..0 -> Nat] /\ g[0] = 0 /\ 1..0 = {} OBVIOUS
    <2> HIDE DEF g
    <2>2. SumsTo(s, 0, g) BY <2>1, SumsWhen
    <2> QED BY <2>1, <2>2
  <1>2. ASSUME NEW m \in P PROVE m + 1 \in P
    <2> SUFFICES ASSUME m + 1 <= Len(s)
                 PROVE  \E g \in [0..(m + 1) -> Nat] : SumsTo(s, m + 1, g)
      BY SMTT(20)
    <2>1. m \in Nat /\ m <= Len(s) BY <1>0
    <2>2. PICK f \in [0..m -> Nat] : SumsTo(s, m, f) BY <2>1
    <2> HIDE DEF P
    <2>3. f[0] = 0 /\ \A k \in 1..m : f[k] = f[k - 1] + s[k] BY <2>1, <2>2, SumsAre
    <2>4. s[m + 1] \in Nat BY <1>0, <2>1
    <2> DEFINE g == [k \in 0..(m + 1) |-> IF k <= m THEN f[k] ELSE f[m] + s[m + 1]]
    <2>5. g \in [0..(m + 1) -> Nat] BY <2>1, <2>4
    <2>6. g[0] = 0 BY <2>1, <2>3
    <2>7. ASSUME NEW k \in 1..(m + 1) PROVE g[k] = g[k - 1] + s[k]
      <3>1. k - 1 \in 0..m /\ k - 1 \in 0..(m + 1) /\ k \in 0..(m + 1) /\ k - 1 <= m
        BY <2>1
      <3>2. g[k - 1] = f[k - 1] BY <3>1
      <3>3. CASE k <= m
        <4>1. g[k] = f[k] /\ k \in 1..m BY <2>1, <3>1, <3>3
        <4> QED BY <2>3, <3>2, <4>1
      <3>4. CASE ~(k <= m)
        <4>1. k = m + 1 /\ k - 1 = m BY <2>1, <3>4
        <4>2. g[k] = f[m] + s[m + 1] BY <3>1, <3>4
        <4> QED BY <3>2, <4>1, <4>2
      <3> QED BY <3>3, <3>4
    <2> HIDE DEF g
    <2>8. SumsTo(s, m + 1, g)
      <3>1. m + 1 \in Nat BY <2>1
      <3> QED BY <2>5, <2>6, <2>7, <3>1, SumsWhen
    <2> QED BY <2>5, <2>8
  <1>3. P \in SUBSET Nat OBVIOUS
  <1> HIDE DEF P
  <1>4. P = Nat BY <1>1, <1>2, <1>3, Induction
  <1>5. n \in P BY <1>0, <1>4
  <1> QED BY <1>0, <1>5 DEF P

\* Two that sum the same agree.
LEMMA SumsAgree ==
  ASSUME NEW s, NEW n \in Nat, NEW f, NEW g, SumsTo(s, n, f), SumsTo(s, n, g)
  PROVE  \A k \in 0..n : f[k] = g[k]
  <1> DEFINE P == {k \in Nat : k <= n => f[k] = g[k]}
  <1>0. /\ f[0] = 0 /\ \A k \in 1..n : f[k] = f[k - 1] + s[k]
        /\ g[0] = 0 /\ \A k \in 1..n : g[k] = g[k - 1] + s[k]
    BY SumsAre
  <1>1. 0 \in P BY <1>0
  <1>2. ASSUME NEW k \in P PROVE k + 1 \in P
    <2> SUFFICES ASSUME k + 1 <= n PROVE f[k + 1] = g[k + 1] OBVIOUS
    <2>1. k \in Nat /\ f[k] = g[k] /\ k + 1 \in 1..n /\ (k + 1) - 1 = k OBVIOUS
    <2> HIDE DEF P
    <2>2. f[k + 1] = f[k] + s[k + 1] /\ g[k + 1] = g[k] + s[k + 1] BY <1>0, <2>1
    <2> QED BY <2>1, <2>2
  <1>3. P \in SUBSET Nat OBVIOUS
  <1> HIDE DEF P
  <1>4. P = Nat BY <1>1, <1>2, <1>3, Induction
  <1>5. ASSUME NEW k \in 0..n PROVE f[k] = g[k]
    <2>1. k \in P /\ k <= n BY <1>4
    <2> QED BY <2>1 DEF P
  <1> QED BY <1>5

\* A total is a sum.
LEMMA TotalIs ==
  ASSUME NEW s \in Seq(Nat)
  PROVE  Total(s) \in Nat /\ \A g : SumsTo(s, Len(s), g) => Total(s) = g[Len(s)]
  <1> DEFINE n == Len(s)
             F == CHOOSE g : SumsTo(s, n, g)
  <1>0. n \in Nat /\ n \in 0..n OBVIOUS
  <1>1. PICK h \in [0..n -> Nat] : SumsTo(s, n, h) BY <1>0, SumsExist
  <1>2. SumsTo(s, n, F) BY <1>1
  <1>3. Total(s) = F[n] BY DEF Total, SumsTo
  <1> HIDE DEF F, n
  <1>4. ASSUME NEW g, SumsTo(s, n, g) PROVE Total(s) = g[n]
    <2>1. F[n] = g[n] BY <1>0, <1>2, <1>4, SumsAgree
    <2> QED BY <1>3, <2>1
  <1>5. Total(s) = h[n] /\ h[n] \in Nat BY <1>0, <1>1, <1>4
  <1> QED BY <1>4, <1>5 DEF n

\* Totals add up.
LEMMA TotalConcat ==
  ASSUME NEW s \in Seq(Nat), NEW t \in Seq(Nat)
  PROVE  Total(s \o t) = Total(s) + Total(t)
  <1> DEFINE n == Len(s)
             k == Len(t)
             w == s \o t
  <1>0. /\ w \in Seq(Nat) /\ Len(w) = n + k /\ n \in Nat /\ k \in Nat
        /\ (\A i \in 1..n : w[i] = s[i]) /\ (\A i \in 1..k : w[n + i] = t[i])
    BY ConcatIs
  <1>1. PICK f \in [0..n -> Nat] : SumsTo(s, n, f)
    <2>1. n \in 0..n BY <1>0
    <2> QED BY <2>1, SumsExist
  <1>2. PICK g \in [0..k -> Nat] : SumsTo(t, k, g)
    <2>1. k \in 0..k BY <1>0
    <2> QED BY <2>1, SumsExist
  <1>3. Total(s) = f[n] /\ Total(t) = g[k] BY <1>1, <1>2, TotalIs
  <1> HIDE DEF n, k, w
  <1>4. /\ f[0] = 0 /\ \A i \in 1..n : f[i] = f[i - 1] + s[i]
        /\ g[0] = 0 /\ \A i \in 1..k : g[i] = g[i - 1] + t[i]
        /\ f[n] \in Nat /\ \A i \in 0..k : g[i] \in Nat
    <2>1. f[0] = 0 /\ \A i \in 1..n : f[i] = f[i - 1] + s[i] BY <1>0, <1>1, SumsAre
    <2>2. g[0] = 0 /\ \A i \in 1..k : g[i] = g[i - 1] + t[i] BY <1>0, <1>2, SumsAre
    <2>3. n \in 0..n BY <1>0
    <2> QED BY <1>1, <1>2, <2>1, <2>2, <2>3
  <1>5. \A i \in 1..k : t[i] \in Nat BY DEF k
  <1> DEFINE h == [i \in 0..(n + k) |-> IF i <= n THEN f[i] ELSE f[n] + g[i - n]]
  <1>6. h \in [0..(n + k) -> Nat]
    <2> SUFFICES ASSUME NEW i \in 0..(n + k)
                 PROVE  (IF i <= n THEN f[i] ELSE f[n] + g[i - n]) \in Nat
      OBVIOUS
    <2>1. CASE i <= n BY <1>0, <2>1
    <2>2. CASE ~(i <= n)
      <3>1. i - n \in 0..k BY <1>0, <2>2
      <3> QED BY <1>4, <2>2, <3>1
    <2> QED BY <2>1, <2>2
  <1>7. h[0] = 0 BY <1>0, <1>4
  <1>8. ASSUME NEW i \in 1..(n + k) PROVE h[i] = h[i - 1] + w[i]
    <2>1. CASE i <= n
      <3>1. i \in 1..n /\ i - 1 <= n /\ i \in 0..(n + k) /\ i - 1 \in 0..(n + k)
        BY <1>0, <2>1
      <3>2. h[i] = f[i] /\ h[i - 1] = f[i - 1] BY <2>1, <3>1
      <3> QED BY <1>0, <1>4, <3>1, <3>2
    <2>2. CASE i = n + 1
      <3>1. i \in 0..(n + k) /\ i - 1 = n /\ n \in 0..(n + k) /\ ~(i <= n) /\ i - n = 1
            /\ 1 \in 1..k /\ 1 - 1 = 0
        BY <1>0, <2>2
      <3>2. h[i] = f[n] + g[1] /\ h[i - 1] = f[n] BY <3>1
      <3>3. g[1] = g[0] + t[1] /\ w[i] = t[1] /\ t[1] \in Nat
        BY <1>0, <1>4, <1>5, <2>2, <3>1
      <3> QED BY <1>4, <3>2, <3>3
    <2>3. CASE i > n + 1
      <3>1. /\ i \in 0..(n + k) /\ i - 1 \in 0..(n + k) /\ ~(i <= n) /\ ~(i - 1 <= n)
            /\ i - n \in 1..k /\ (i - 1) - n = (i - n) - 1 /\ (i - n) - 1 \in 0..k
            /\ n + (i - n) = i
        BY <1>0, <2>3
      <3>2. h[i] = f[n] + g[i - n] /\ h[i - 1] = f[n] + g[(i - n) - 1] BY <3>1
      <3> DEFINE j == i - n
      <3>3. j \in 1..k /\ n + j = i /\ j - 1 \in 0..k BY <3>1
      <3> HIDE DEF j
      <3>4. g[j] = g[j - 1] + t[j] /\ w[i] = t[j] /\ t[j] \in Nat /\ g[j - 1] \in Nat
        BY <1>0, <1>4, <1>5, <3>3
      <3>5. h[i] = f[n] + g[j] /\ h[i - 1] = f[n] + g[j - 1] BY <3>2 DEF j
      <3> HIDE DEF h
      <3> QED BY <1>4, <3>4, <3>5
    <2> QED BY <1>0, <2>1, <2>2, <2>3
  <1>9. h[n + k] = f[n] + g[k]
    <2>1. n + k \in 0..(n + k) BY <1>0
    <2>2. CASE k = 0
      <3>1. n + k = n BY <1>0, <2>2
      <3>2. h[n + k] = f[n] BY <1>0, <2>1, <3>1
      <3> QED BY <1>4, <2>2, <3>2
    <2>3. CASE k # 0
      <3>1. ~(n + k <= n) /\ (n + k) - n = k BY <1>0, <2>3
      <3> QED BY <2>1, <3>1
    <2> QED BY <2>2, <2>3
  <1>10. n + k \in Nat BY <1>0
  <1> HIDE DEF h
  <1>11. SumsTo(w, n + k, h) BY <1>6, <1>7, <1>8, <1>10, SumsWhen
  <1>12. Total(w) = h[n + k] BY <1>0, <1>11, TotalIs
  <1> QED BY <1>3, <1>9, <1>12 DEF w

\* Nothing comes to nothing.
LEMMA TotalNothing ==
  Total(<<>>) = 0
  <1>1. <<>> \in Seq(Nat) /\ Len(<<>>) = 0 OBVIOUS
  <1>2. PICK g \in [0..0 -> Nat] : SumsTo(<<>>, 0, g)
    <2>1. 0 \in 0..Len(<<>>) BY <1>1
    <2> QED BY <1>1, <2>1, SumsExist
  <1>3. g[0] = 0 BY <1>2, SumsAre
  <1>4. SumsTo(<<>>, Len(<<>>), g) BY <1>1, <1>2
  <1> QED BY <1>1, <1>3, <1>4, TotalIs

-----------------------------------------------------------------------------
(***************************************************************************)
(* Joins.                                                                  *)
(***************************************************************************)
\* g joins the facts of s as far as n.
JoinsTo(s, n, g) ==
  g = [k \in 0..n |-> IF k = 0 THEN <<>> ELSE g[k - 1] \o s[k].facts]

\* What a function that joins is.
LEMMA JoinsAre ==
  ASSUME NEW s, NEW n \in Nat, NEW g, JoinsTo(s, n, g)
  PROVE  DOMAIN g = 0..n /\ g[0] = <<>> /\ \A k \in 1..n : g[k] = g[k - 1] \o s[k].facts
  <1> DEFINE h == [k \in 0..n |-> IF k = 0 THEN <<>> ELSE g[k - 1] \o s[k].facts]
  <1>1. g = h BY DEF JoinsTo
  <1>2. DOMAIN h = 0..n OBVIOUS
  <1>3. h[0] = <<>>
    <2>1. 0 \in 0..n OBVIOUS
    <2> QED BY <2>1
  <1>4. ASSUME NEW k \in 1..n PROVE h[k] = g[k - 1] \o s[k].facts
    <2>1. k \in 0..n /\ k # 0 OBVIOUS
    <2> QED BY <2>1
  <1> HIDE DEF h
  <1> QED BY <1>1, <1>2, <1>3, <1>4

\* When a function joins.
LEMMA JoinsWhen ==
  ASSUME NEW s, NEW n \in Nat, NEW g, NEW S, g \in [0..n -> S], g[0] = <<>>,
         \A k \in 1..n : g[k] = g[k - 1] \o s[k].facts
  PROVE  JoinsTo(s, n, g)
  <1> DEFINE h == [k \in 0..n |-> IF k = 0 THEN <<>> ELSE g[k - 1] \o s[k].facts]
  <1>1. DOMAIN h = 0..n OBVIOUS
  <1>2. ASSUME NEW k \in 0..n PROVE g[k] = h[k]
    <2>1. CASE k = 0 BY <2>1
    <2>2. CASE k # 0
      <3>1. k \in 1..n BY <2>2
      <3> QED BY <2>2, <3>1
    <2> QED BY <2>1, <2>2
  <1>3. g = [k \in 0..n |-> g[k]] /\ h = [k \in 0..n |-> h[k]] OBVIOUS
  <1> HIDE DEF h
  <1>4. g = h BY <1>2, <1>3
  <1> QED BY <1>4 DEF JoinsTo, h

\* There are joins, and they are facts.
LEMMA JoinsExist ==
  ASSUME NEW s \in Seq(Message), NEW n \in 0..Len(s)
  PROVE  \E g \in [0..n -> Seq(Fact)] : JoinsTo(s, n, g)
  <1> DEFINE P == {m \in Nat : m <= Len(s) => \E g \in [0..m -> Seq(Fact)] : JoinsTo(s, m, g)}
  <1>0. Len(s) \in Nat /\ n \in Nat /\ n <= Len(s) OBVIOUS
  <1>1. 0 \in P
    <2> DEFINE g == [k \in 0..0 |-> <<>>]
    <2>0. <<>> \in Seq(Fact) OBVIOUS
    <2>1. g \in [0..0 -> Seq(Fact)] /\ g[0] = <<>> /\ 1..0 = {} BY <2>0
    <2> HIDE DEF g
    <2>2. JoinsTo(s, 0, g) BY <2>1, JoinsWhen
    <2> QED BY <2>1, <2>2
  <1>2. ASSUME NEW m \in P PROVE m + 1 \in P
    <2> SUFFICES ASSUME m + 1 <= Len(s)
                 PROVE  \E g \in [0..(m + 1) -> Seq(Fact)] : JoinsTo(s, m + 1, g)
      BY SMTT(20)
    <2>1. m \in Nat /\ m <= Len(s) BY <1>0
    <2>2. PICK f \in [0..m -> Seq(Fact)] : JoinsTo(s, m, f) BY <2>1
    <2> HIDE DEF P
    <2>3. f[0] = <<>> /\ \A k \in 1..m : f[k] = f[k - 1] \o s[k].facts BY <2>1, <2>2, JoinsAre
    <2>4. s[m + 1].facts \in Seq(Fact)
      <3>1. m + 1 \in 1..Len(s) BY <1>0, <2>1
      <3>2. s[m + 1] \in Message BY <3>1
      <3> QED BY <3>2 DEF Message
    <2> DEFINE g == [k \in 0..(m + 1) |-> IF k <= m THEN f[k] ELSE f[m] \o s[m + 1].facts]
    <2>5. g \in [0..(m + 1) -> Seq(Fact)] BY <2>1, <2>4
    <2>6. g[0] = <<>> BY <2>1, <2>3
    <2>7. ASSUME NEW k \in 1..(m + 1) PROVE g[k] = g[k - 1] \o s[k].facts
      <3>1. k - 1 \in 0..m /\ k - 1 \in 0..(m + 1) /\ k \in 0..(m + 1) /\ k - 1 <= m
        BY <2>1
      <3>2. g[k - 1] = f[k - 1] BY <3>1
      <3>3. CASE k <= m
        <4>1. g[k] = f[k] /\ k \in 1..m BY <2>1, <3>1, <3>3
        <4> QED BY <2>3, <3>2, <4>1
      <3>4. CASE ~(k <= m)
        <4>1. k = m + 1 /\ k - 1 = m BY <2>1, <3>4
        <4>2. g[k] = f[m] \o s[m + 1].facts BY <3>1, <3>4
        <4> QED BY <3>2, <4>1, <4>2
      <3> QED BY <3>3, <3>4
    <2> HIDE DEF g
    <2>8. JoinsTo(s, m + 1, g)
      <3>1. m + 1 \in Nat BY <2>1
      <3> QED BY <2>5, <2>6, <2>7, <3>1, JoinsWhen
    <2> QED BY <2>5, <2>8
  <1>3. P \in SUBSET Nat OBVIOUS
  <1> HIDE DEF P
  <1>4. P = Nat BY <1>1, <1>2, <1>3, Induction
  <1>5. n \in P BY <1>0, <1>4
  <1> QED BY <1>0, <1>5 DEF P

\* Two that join the same agree.
LEMMA JoinsAgree ==
  ASSUME NEW s, NEW n \in Nat, NEW f, NEW g, JoinsTo(s, n, f), JoinsTo(s, n, g)
  PROVE  \A k \in 0..n : f[k] = g[k]
  <1> DEFINE P == {k \in Nat : k <= n => f[k] = g[k]}
  <1>0. /\ f[0] = <<>> /\ \A k \in 1..n : f[k] = f[k - 1] \o s[k].facts
        /\ g[0] = <<>> /\ \A k \in 1..n : g[k] = g[k - 1] \o s[k].facts
    BY JoinsAre
  <1>1. 0 \in P BY <1>0
  <1>2. ASSUME NEW k \in P PROVE k + 1 \in P
    <2> SUFFICES ASSUME k + 1 <= n PROVE f[k + 1] = g[k + 1] OBVIOUS
    <2>1. k \in Nat /\ f[k] = g[k] /\ k + 1 \in 1..n /\ (k + 1) - 1 = k OBVIOUS
    <2> HIDE DEF P
    <2>2. f[k + 1] = f[k] \o s[k + 1].facts /\ g[k + 1] = g[k] \o s[k + 1].facts BY <1>0, <2>1
    <2> QED BY <2>1, <2>2
  <1>3. P \in SUBSET Nat OBVIOUS
  <1> HIDE DEF P
  <1>4. P = Nat BY <1>1, <1>2, <1>3, Induction
  <1>5. ASSUME NEW k \in 0..n PROVE f[k] = g[k]
    <2>1. k \in P /\ k <= n BY <1>4
    <2> QED BY <2>1 DEF P
  <1> QED BY <1>5

\* The facts are a join.
LEMMA FactsIs ==
  ASSUME NEW s \in Seq(Message)
  PROVE  Facts(s) \in Seq(Fact) /\ \A g : JoinsTo(s, Len(s), g) => Facts(s) = g[Len(s)]
  <1> DEFINE n == Len(s)
             F == CHOOSE g : JoinsTo(s, n, g)
  <1>0. n \in Nat /\ n \in 0..n OBVIOUS
  <1>1. PICK h \in [0..n -> Seq(Fact)] : JoinsTo(s, n, h) BY <1>0, JoinsExist
  <1>2. JoinsTo(s, n, F) BY <1>1
  <1>3. Facts(s) = F[n] BY DEF Facts, JoinsTo
  <1> HIDE DEF F, n
  <1>4. ASSUME NEW g, JoinsTo(s, n, g) PROVE Facts(s) = g[n]
    <2>1. F[n] = g[n] BY <1>0, <1>2, <1>4, JoinsAgree
    <2> QED BY <1>3, <2>1
  <1>5. Facts(s) = h[n] /\ h[n] \in Seq(Fact) BY <1>0, <1>1, <1>4
  <1> QED BY <1>4, <1>5 DEF n

\* Facts are joined in order.
LEMMA FactsConcat ==
  ASSUME NEW s \in Seq(Message), NEW t \in Seq(Message)
  PROVE  Facts(s \o t) = Facts(s) \o Facts(t)
  <1> DEFINE n == Len(s)
             k == Len(t)
             w == s \o t
  <1>0. /\ w \in Seq(Message) /\ Len(w) = n + k /\ n \in Nat /\ k \in Nat
        /\ (\A i \in 1..n : w[i] = s[i]) /\ (\A i \in 1..k : w[n + i] = t[i])
    BY ConcatIs
  <1>1. PICK f \in [0..n -> Seq(Fact)] : JoinsTo(s, n, f)
    <2>1. n \in 0..n BY <1>0
    <2> QED BY <2>1, JoinsExist
  <1>2. PICK g \in [0..k -> Seq(Fact)] : JoinsTo(t, k, g)
    <2>1. k \in 0..k BY <1>0
    <2> QED BY <2>1, JoinsExist
  <1>3. Facts(s) = f[n] /\ Facts(t) = g[k] BY <1>1, <1>2, FactsIs
  <1> HIDE DEF n, k, w
  <1>4. /\ f[0] = <<>> /\ \A i \in 1..n : f[i] = f[i - 1] \o s[i].facts
        /\ g[0] = <<>> /\ \A i \in 1..k : g[i] = g[i - 1] \o t[i].facts
        /\ f[n] \in Seq(Fact) /\ \A i \in 0..k : g[i] \in Seq(Fact)
    <2>1. f[0] = <<>> /\ \A i \in 1..n : f[i] = f[i - 1] \o s[i].facts BY <1>0, <1>1, JoinsAre
    <2>2. g[0] = <<>> /\ \A i \in 1..k : g[i] = g[i - 1] \o t[i].facts BY <1>0, <1>2, JoinsAre
    <2>3. n \in 0..n BY <1>0
    <2> QED BY <1>1, <1>2, <2>1, <2>2, <2>3
  <1>5. \A i \in 1..k : t[i].facts \in Seq(Fact)
    <2>1. \A i \in 1..k : t[i] \in Message BY DEF k
    <2> QED BY <2>1 DEF Message
  <1> DEFINE h == [i \in 0..(n + k) |-> IF i <= n THEN f[i] ELSE f[n] \o g[i - n]]
  <1>6. h \in [0..(n + k) -> Seq(Fact)]
    <2> SUFFICES ASSUME NEW i \in 0..(n + k)
                 PROVE  (IF i <= n THEN f[i] ELSE f[n] \o g[i - n]) \in Seq(Fact)
      OBVIOUS
    <2>1. CASE i <= n BY <1>0, <2>1
    <2>2. CASE ~(i <= n)
      <3>1. i - n \in 0..k BY <1>0, <2>2
      <3> QED BY <1>4, <2>2, <3>1
    <2> QED BY <2>1, <2>2
  <1>7. h[0] = <<>> BY <1>0, <1>4
  <1>8. ASSUME NEW i \in 1..(n + k) PROVE h[i] = h[i - 1] \o w[i].facts
    <2>1. CASE i <= n
      <3>1. i \in 1..n /\ i - 1 <= n /\ i \in 0..(n + k) /\ i - 1 \in 0..(n + k)
        BY <1>0, <2>1
      <3>2. h[i] = f[i] /\ h[i - 1] = f[i - 1] BY <2>1, <3>1
      <3> QED BY <1>0, <1>4, <3>1, <3>2
    <2>2. CASE i = n + 1
      <3>1. i \in 0..(n + k) /\ i - 1 = n /\ n \in 0..(n + k) /\ ~(i <= n) /\ i - n = 1
            /\ 1 \in 1..k /\ 1 - 1 = 0
        BY <1>0, <2>2
      <3>2. h[i] = f[n] \o g[1] /\ h[i - 1] = f[n]
        <4>1. h[i] = f[n] \o g[i - n]
          <5>1. i \in 0..(n + k) /\ ~(i <= n) BY <3>1
          <5> QED BY <5>1
        <4>2. h[n] = f[n]
          <5>1. n \in 0..(n + k) /\ n <= n BY <1>0, <3>1
          <5> QED BY <5>1
        <4> HIDE DEF h
        <4> QED BY <3>1, <4>1, <4>2
      <3>3. g[1] = g[0] \o t[1].facts /\ w[i] = t[1] /\ t[1].facts \in Seq(Fact)
        BY <1>0, <1>4, <1>5, <2>2, <3>1
      <3>4. g[1] = t[1].facts
        <4>1. <<>> \o t[1].facts = t[1].facts BY <3>3, ConcatEmptySeq
        <4> QED BY <1>4, <3>3, <4>1
      <3> QED BY <3>2, <3>3, <3>4
    <2>3. CASE i > n + 1
      <3>1. /\ i \in 0..(n + k) /\ i - 1 \in 0..(n + k) /\ ~(i <= n) /\ ~(i - 1 <= n)
            /\ i - n \in 1..k /\ (i - 1) - n = (i - n) - 1 /\ (i - n) - 1 \in 0..k
            /\ n + (i - n) = i
        BY <1>0, <2>3
      <3>2. h[i] = f[n] \o g[i - n] /\ h[i - 1] = f[n] \o g[(i - n) - 1]
        <4>1. h[i] = f[n] \o g[i - n] BY <3>1
        <4>2. h[i - 1] = f[n] \o g[(i - 1) - n] BY <3>1
        <4> HIDE DEF h
        <4> QED BY <3>1, <4>1, <4>2
      <3> DEFINE j == i - n
      <3>3. j \in 1..k /\ n + j = i /\ j - 1 \in 0..k BY <3>1
      <3> HIDE DEF j
      <3>4. g[j] = g[j - 1] \o t[j].facts /\ w[i] = t[j] /\ t[j].facts \in Seq(Fact) /\ g[j - 1] \in Seq(Fact)
        BY <1>0, <1>4, <1>5, <3>3
      <3>5. h[i] = f[n] \o g[j] /\ h[i - 1] = f[n] \o g[j - 1] BY <3>2 DEF j
      <3> HIDE DEF h
      <3> DEFINE a == f[n]
                 b == g[j - 1]
                 c == t[j].facts
      <3>6. a \in Seq(Fact) /\ b \in Seq(Fact) /\ c \in Seq(Fact) BY <1>4, <3>4
      <3>7. g[j] = b \o c /\ h[i] = a \o g[j] /\ h[i - 1] = a \o b /\ w[i].facts = c
        BY <3>4, <3>5
      <3> HIDE DEF a, b, c
      <3>8. (a \o b) \o c = a \o (b \o c) BY <3>6, ConcatAssociative, SMTT(20)
      <3> QED BY <3>7, <3>8
    <2>4. i <= n \/ i = n + 1 \/ i > n + 1 BY <1>0
    <2> QED BY <2>1, <2>2, <2>3, <2>4, Zenon
  <1>9. h[n + k] = f[n] \o g[k]
    <2>1. n + k \in 0..(n + k) BY <1>0
    <2>2. CASE k = 0
      <3>1. n + k = n BY <1>0, <2>2
      <3>2. h[n + k] = f[n] BY <1>0, <2>1, <3>1
      <3>3. f[n] \o <<>> = f[n] BY <1>4, ConcatEmptySeq
      <3> QED BY <1>4, <2>2, <3>2, <3>3
    <2>3. CASE k # 0
      <3>1. ~(n + k <= n) /\ (n + k) - n = k BY <1>0, <2>3
      <3> QED BY <2>1, <3>1
    <2> QED BY <2>2, <2>3
  <1>10. n + k \in Nat BY <1>0
  <1> HIDE DEF h
  <1>11. JoinsTo(w, n + k, h) BY <1>6, <1>7, <1>8, <1>10, JoinsWhen
  <1>12. Facts(w) = h[n + k] BY <1>0, <1>11, FactsIs
  <1> QED BY <1>3, <1>9, <1>12 DEF w

\* Nobody states nothing.
LEMMA FactsNothing ==
  Facts(<<>>) = <<>>
  <1>1. <<>> \in Seq(Message) /\ Len(<<>>) = 0 OBVIOUS
  <1>2. PICK g \in [0..0 -> Seq(Fact)] : JoinsTo(<<>>, 0, g)
    <2>1. 0 \in 0..Len(<<>>) BY <1>1
    <2> QED BY <1>1, <2>1, JoinsExist
  <1>3. g[0] = <<>> BY <1>2, JoinsAre
  <1>4. JoinsTo(<<>>, Len(<<>>), g) BY <1>1, <1>2
  <1> QED BY <1>1, <1>3, <1>4, FactsIs

-----------------------------------------------------------------------------
(***************************************************************************)
(* The system turn and the turns behind it.                                *)
(***************************************************************************)
\* n system messages open s, and no more.
IsLead(s, n) ==
  /\ n \in 0..Len(s)
  /\ \A i \in 1..n : s[i].role \in SYSTEM_ROLES
  /\ n < Len(s) => s[n + 1].role \notin SYSTEM_ROLES

\* There is such a number, and LeadingSystem is one.
LEMMA LeadIs ==
  ASSUME NEW s \in Seq(Message)
  PROVE  IsLead(s, LeadingSystem(s))
  <1> DEFINE n == Len(s)
             S == {i \in 1..n : s[i].role \notin SYSTEM_ROLES}
  <1>0. n \in Nat OBVIOUS
  <1>1. \E k \in 0..n : IsLead(s, k)
    <2>1. CASE S = {}
      <3>1. \A i \in 1..n : s[i].role \in SYSTEM_ROLES BY <2>1
      <3>2. n \in 0..n /\ ~(n < n) BY <1>0
      <3> QED BY <3>1, <3>2 DEF IsLead
    <2>2. CASE S # {}
      <3> DEFINE m == Min(S)
      <3>1. S \in SUBSET Nat BY <1>0
      <3> HIDE DEF S
      <3>2. m \in S /\ \A y \in S : m <= y BY <2>2, <3>1, LeastOf
      <3> HIDE DEF m
      <3>3. m \in 1..n /\ s[m].role \notin SYSTEM_ROLES BY <3>2 DEF S
      <3>4. ASSUME NEW i \in 1..(m - 1) PROVE s[i].role \in SYSTEM_ROLES
        <4>1. i \in 1..n /\ ~(m <= i) BY <1>0, <3>3
        <4>2. i \notin S BY <3>2, <4>1
        <4> QED BY <4>1, <4>2 DEF S
      <3>5. m - 1 \in 0..n /\ (m - 1) + 1 = m BY <1>0, <3>3
      <3> QED BY <3>3, <3>4, <3>5 DEF IsLead
    <2> QED BY <2>1, <2>2
  <1>2. LeadingSystem(s) = CHOOSE k \in 0..n :
          /\ \A i \in 1..k : s[i].role \in SYSTEM_ROLES
          /\ k < n => s[k + 1].role \notin SYSTEM_ROLES
    BY DEF LeadingSystem
  <1>3. \E k \in 0..n : /\ \A i \in 1..k : s[i].role \in SYSTEM_ROLES
                        /\ k < n => s[k + 1].role \notin SYSTEM_ROLES
    BY <1>1 DEF IsLead
  <1> QED BY <1>2, <1>3 DEF IsLead

\* There is only one.
LEMMA LeadOnly ==
  ASSUME NEW s \in Seq(Message), NEW n, IsLead(s, n)
  PROVE  LeadingSystem(s) = n
  <1> DEFINE m == LeadingSystem(s)
  <1>1. IsLead(s, m) BY LeadIs
  <1> HIDE DEF m
  <1>2. Len(s) \in Nat /\ m \in 0..Len(s) /\ n \in 0..Len(s) BY <1>1 DEF IsLead
  <1>3. ~(m < n)
    <2> SUFFICES ASSUME m < n PROVE FALSE OBVIOUS
    <2>1. m + 1 \in 1..n /\ m < Len(s) BY <1>2
    <2> QED BY <1>1, <2>1 DEF IsLead
  <1>4. ~(n < m)
    <2> SUFFICES ASSUME n < m PROVE FALSE OBVIOUS
    <2>1. n + 1 \in 1..m /\ n < Len(s) BY <1>2
    <2> QED BY <1>1, <2>1 DEF IsLead
  <1>5. m = n BY <1>2, <1>3, <1>4
  <1> QED BY <1>5 DEF m

\* The messages that may stand before the turns, and the turns.
Opening(a) == a \in Seq(Message) /\ \A i \in 1..Len(a) : a[i].role \in SYSTEM_ROLES
Following(b) == b \in Seq(Message) /\ (0 < Len(b) => b[1].role \notin SYSTEM_ROLES)

\* What the two parts of a conversation are.
LEMMA Parts ==
  ASSUME NEW s \in Seq(Message)
  PROVE  Opening(System(s)) /\ Following(Turns(s)) /\ System(s) \o Turns(s) = s
  <1> DEFINE m == LeadingSystem(s)
             n == Len(s)
             a == System(s)
             b == Turns(s)
  <1>1. IsLead(s, m) BY LeadIs
  <1>2. a = SubSeq(s, 1, m) /\ b = From(s, m) BY DEF System, Turns
  <1> HIDE DEF m, a, b
  <1>3. n \in Nat /\ m \in 0..n BY <1>1 DEF IsLead
  <1>4. a \in Seq(Message) /\ Len(a) = m /\ \A i \in 1..m : a[i] = s[i]
    BY <1>2, <1>3, FirstIs
  <1>5. b \in Seq(Message) /\ Len(b) = n - m /\ \A i \in 1..(n - m) : b[i] = s[m + i]
    BY <1>2, <1>3, FromIs
  <1>6. Opening(a) BY <1>1, <1>4 DEF IsLead, Opening
  <1>7. Following(b)
    <2> SUFFICES ASSUME 0 < Len(b) PROVE b[1].role \notin SYSTEM_ROLES
      BY <1>5 DEF Following
    <2>1. m < n /\ 1 \in 1..(n - m) BY <1>3, <1>5
    <2> QED BY <1>1, <1>5, <2>1 DEF IsLead
  <1>8. a \o b = s BY <1>2, <1>3, Split
  <1> QED BY <1>6, <1>7, <1>8 DEF a, b

\* A system turn put before turns is the system turn.
LEMMA Joined ==
  ASSUME NEW a, Opening(a), NEW b, Following(b)
  PROVE  /\ a \o b \in Seq(Message) /\ LeadingSystem(a \o b) = Len(a)
         /\ System(a \o b) = a /\ Turns(a \o b) = b
  <1> DEFINE n == Len(a)
             k == Len(b)
             w == a \o b
  <1>1. a \in Seq(Message) /\ b \in Seq(Message) BY DEF Opening, Following
  <1>2. /\ w \in Seq(Message) /\ Len(w) = n + k /\ n \in Nat /\ k \in Nat
        /\ (\A i \in 1..n : w[i] = a[i]) /\ (\A i \in 1..k : w[n + i] = b[i])
    BY <1>1, ConcatIs
  <1>3. From(w, n) = b /\ SubSeq(w, 1, n) = a BY <1>1, FromConcat
  <1> HIDE DEF w
  <1>4. IsLead(w, n)
    <2>1. n \in 0..Len(w) BY <1>2
    <2>2. ASSUME NEW i \in 1..n PROVE w[i].role \in SYSTEM_ROLES
      BY <1>2 DEF Opening
    <2>3. ASSUME n < Len(w) PROVE w[n + 1].role \notin SYSTEM_ROLES
      <3>1. 0 < k /\ 1 \in 1..k BY <1>2, <2>3
      <3>2. w[n + 1] = b[1] BY <1>2, <3>1
      <3> QED BY <3>1, <3>2 DEF Following
    <2> QED BY <2>1, <2>2, <2>3 DEF IsLead
  <1>5. LeadingSystem(w) = n BY <1>2, <1>4, LeadOnly
  <1>6. System(w) = a /\ Turns(w) = b BY <1>3, <1>5 DEF System, Turns
  <1> QED BY <1>2, <1>5, <1>6 DEF w

\* What may stand in front when k messages have gone.
Starts(b, k) == k < Len(b) => b[k + 1].role \notin NOT_UNIT_START

\* What starts a unit may follow a system turn.
LEMMA StartFollows ==
  ASSUME NEW b \in Seq(Message), NEW k \in 0..Len(b), Starts(b, k)
  PROVE  Following(From(b, k))
  <1>0. Len(b) \in Nat OBVIOUS
  <1>1. From(b, k) \in Seq(Message) /\ Len(From(b, k)) = Len(b) - k
        /\ \A i \in 1..(Len(b) - k) : From(b, k)[i] = b[k + i]
    BY FromIs
  <1> SUFFICES ASSUME 0 < Len(From(b, k)) PROVE From(b, k)[1].role \notin SYSTEM_ROLES
    BY <1>1 DEF Following
  <1>2. k < Len(b) /\ 1 \in 1..(Len(b) - k) BY <1>0, <1>1
  <1>3. From(b, k)[1] = b[k + 1] BY <1>1, <1>2
  <1> QED BY <1>2, <1>3 DEF Starts, NOT_UNIT_START

-----------------------------------------------------------------------------
(***************************************************************************)
(* Tokens: a system turn, and a sum of blocks.                             *)
(***************************************************************************)
\* The blocks of the turns.
Blocks(b) == [i \in DOMAIN b |-> Block(b, i)]

\* A function on 1..n with naturals for values is a sequence of them.
LEMMA NatSeq ==
  ASSUME NEW n \in Nat, NEW f \in [1..n -> Nat]
  PROVE  f \in Seq(Nat) /\ Len(f) = n
  OBVIOUS

\* Blocks are sizes.
LEMMA BlocksAre ==
  ASSUME NEW b \in Seq(Message)
  PROVE  /\ Blocks(b) \in Seq(Nat) /\ Len(Blocks(b)) = Len(b)
         /\ \A i \in 1..Len(b) : Blocks(b)[i] = Block(b, i)
  <1> DEFINE n == Len(b)
             f == [i \in 1..n |-> Block(b, i)]
  <1>1. n \in Nat /\ DOMAIN b = 1..n OBVIOUS
  <1>2. ASSUME NEW i \in 1..n PROVE Block(b, i) \in Nat
    <2>1. b[i] \in Message OBVIOUS
    <2>2. b[i].size \in Nat BY <2>1 DEF Message
    <2>3. Frame \in Nat BY WindowAssumption
    <2> QED BY <2>2, <2>3 DEF Block
  <1>3. Blocks(b) = f BY <1>1 DEF Blocks
  <1>4. f \in [1..n -> Nat] BY <1>2
  <1>5. \A i \in 1..n : f[i] = Block(b, i) OBVIOUS
  <1> HIDE DEF f, n
  <1>6. f \in Seq(Nat) /\ Len(f) = n BY <1>1, <1>4, NatSeq
  <1> QED BY <1>3, <1>5, <1>6 DEF n

\* The size of a system turn.
LEMMA SystemTurnIs ==
  ASSUME NEW a \in Seq(Message)
  PROVE  SystemTurn(a) \in Nat
  <1> DEFINE n == Len(a)
             f == [i \in 1..n |-> a[i].size + NoteSize(a[i])]
  <1>1. n \in Nat /\ DOMAIN a = 1..n OBVIOUS
  <1>2. ASSUME NEW i \in 1..n PROVE a[i].size + NoteSize(a[i]) \in Nat
    <2>1. a[i] \in Message OBVIOUS
    <2>2. a[i].size \in Nat /\ a[i].note \in Note \cup {NoNote} BY <2>1 DEF Message
    <2>3. Frame \in Nat BY WindowAssumption
    <2>4. NoteSize(a[i]) \in Nat
      <3>1. CASE a[i].note = NoNote BY <3>1 DEF NoteSize
      <3>2. CASE a[i].note # NoNote
        <4>1. a[i].note.size \in Nat BY <2>2, <3>2 DEF Note
        <4> QED BY <2>3, <3>2, <4>1 DEF NoteSize
      <3> QED BY <3>1, <3>2
    <2> QED BY <2>2, <2>4
  <1>3. f \in [1..n -> Nat] BY <1>2
  <1> HIDE DEF n
  <1>4. f \in Seq(Nat) BY <1>1, <1>3, NatSeq
  <1> DEFINE said == Total(f)
  <1>5. said \in Nat
    <2> HIDE DEF f
    <2> QED BY <1>4, TotalIs
  <1>6. SystemTurn(a) = LET size == IF said = 0 THEN DefaultSystem ELSE said
                        IN IF size = 0 THEN 0 ELSE Frame + size
    BY <1>1 DEF SystemTurn
  <1> HIDE DEF said
  <1>7. Frame \in Nat /\ DefaultSystem \in Nat BY WindowAssumption
  <1> QED BY <1>5, <1>6, <1>7

\* The tokens of a system turn and what follows it.
LEMMA TokensOf ==
  ASSUME NEW a, Opening(a), NEW b, Following(b)
  PROVE  /\ Tokens(a \o b) = SystemTurn(a) + Total(Blocks(b))
         /\ SystemTurn(a) \in Nat /\ Total(Blocks(b)) \in Nat
  <1> DEFINE w == a \o b
  <1>1. a \in Seq(Message) /\ b \in Seq(Message) BY DEF Opening, Following
  <1>2. System(w) = a /\ Turns(w) = b BY Joined
  <1> HIDE DEF w
  <1>3. Tokens(w) = SystemTurn(System(w)) + Total(Blocks(Turns(w)))
    BY DEF Tokens, System, Turns, Blocks
  <1>4. SystemTurn(a) \in Nat BY <1>1, SystemTurnIs
  <1>5. Total(Blocks(b)) \in Nat
    <2>1. Blocks(b) \in Seq(Nat) BY <1>1, BlocksAre
    <2> QED BY <2>1, TotalIs
  <1> QED BY <1>2, <1>3, <1>4, <1>5 DEF w

\* A message costs the same when those before it have gone, unless it is a
\* tool result whose frame they had.
LEMMA BlocksFrom ==
  ASSUME NEW b \in Seq(Message), NEW k \in 0..Len(b), k = 0 \/ Starts(b, k)
  PROVE  Blocks(From(b, k)) = From(Blocks(b), k)
  <1> DEFINE n == Len(b)
             c == From(b, k)
             f == Blocks(b)
             g == Blocks(c)
             h == From(f, k)
  <1>0. n \in Nat /\ k \in Nat /\ k <= n OBVIOUS
  <1>1. c \in Seq(Message) /\ Len(c) = n - k /\ \A i \in 1..(n - k) : c[i] = b[k + i]
    BY FromIs
  <1>2. f \in Seq(Nat) /\ Len(f) = n /\ \A i \in 1..n : f[i] = Block(b, i)
    BY BlocksAre
  <1>3. g \in Seq(Nat) /\ Len(g) = n - k /\ \A i \in 1..(n - k) : g[i] = Block(c, i)
    <2> HIDE DEF c
    <2>1. g \in Seq(Nat) /\ Len(g) = Len(c) /\ \A i \in 1..Len(c) : g[i] = Block(c, i)
      BY <1>1, BlocksAre
    <2> QED BY <1>1, <2>1
  <1> HIDE DEF c, f, g
  <1>4. h \in Seq(Nat) /\ Len(h) = n - k /\ \A i \in 1..(n - k) : h[i] = f[k + i]
    <2>1. k \in 0..Len(f) BY <1>2
    <2> QED BY <1>2, <2>1, FromIs
  <1> HIDE DEF h
  <1>5. ASSUME NEW i \in 1..(n - k) PROVE g[i] = h[i]
    <2>1. k + i \in 1..n BY <1>0
    <2>2. g[i] = Block(c, i) /\ h[i] = Block(b, k + i) BY <1>2, <1>3, <1>4, <2>1
    <2>3. c[i] = b[k + i] BY <1>1
    <2>4. CASE i = 1
      <3>1. CASE k = 0
        <4>1. k + i = 1 BY <2>4, <3>1
        <4> QED BY <2>2, <2>3, <2>4, <4>1 DEF Block
      <3>2. CASE k # 0
        <4>1. k < n /\ k + i = k + 1 BY <1>0, <2>1, <2>4
        <4>2. b[k + i].role # "tool" BY <3>2, <4>1 DEF Starts, NOT_UNIT_START, n
        <4> QED BY <2>2, <2>3, <4>2 DEF Block
      <3> QED BY <3>1, <3>2
    <2>5. CASE i # 1
      <3>1. i - 1 \in 1..(n - k) /\ k + (i - 1) = (k + i) - 1 /\ i > 1 /\ k + i > 1
        BY <1>0, <2>5
      <3>2. c[i - 1] = b[(k + i) - 1] BY <1>1, <3>1
      <3> QED BY <2>2, <2>3, <3>1, <3>2 DEF Block
    <2> QED BY <2>4, <2>5
  <1>6. g = h BY <1>3, <1>4, <1>5, SameSeq
  <1> QED BY <1>6 DEF c, f, g, h

\* Evicting up to a message that starts a unit never costs tokens.
LEMMA BlocksShrink ==
  ASSUME NEW b \in Seq(Message), NEW k \in 0..Len(b), k = 0 \/ Starts(b, k)
  PROVE  /\ Total(Blocks(From(b, k))) <= Total(Blocks(b))
         /\ Total(Blocks(From(b, k))) \in Nat /\ Total(Blocks(b)) \in Nat
  <1> DEFINE f == Blocks(b)
             x == SubSeq(f, 1, k)
             y == From(f, k)
  <1>1. f \in Seq(Nat) /\ Len(f) = Len(b) BY BlocksAre
  <1>2. Blocks(From(b, k)) = y BY BlocksFrom
  <1> HIDE DEF f
  <1>3. k \in 0..Len(f) BY <1>1
  <1>4. x \in Seq(Nat) /\ y \in Seq(Nat) /\ x \o y = f BY <1>1, <1>3, FirstIs, FromIs, Split
  <1> HIDE DEF x, y
  <1>5. Total(x \o y) = Total(x) + Total(y) BY <1>4, TotalConcat
  <1>6. Total(x) \in Nat /\ Total(y) \in Nat /\ Total(f) \in Nat BY <1>1, <1>4, TotalIs
  <1>7. Total(f) = Total(x) + Total(y) BY <1>4, <1>5
  <1>8. Total(y) <= Total(f) BY <1>6, <1>7
  <1> QED BY <1>2, <1>6, <1>8 DEF f

-----------------------------------------------------------------------------
(***************************************************************************)
(* Where a cut may be made, and what it leaves.                            *)
(***************************************************************************)
\* Nothing evicted.
LEMMA FromNone ==
  ASSUME NEW S, NEW s \in Seq(S)
  PROVE  From(s, 0) = s
  <1> DEFINE t == From(s, 0)
  <1>0. Len(s) \in Nat /\ 0 \in 0..Len(s) OBVIOUS
  <1>1. t \in Seq(S) /\ Len(t) = Len(s) - 0 /\ \A i \in 1..(Len(s) - 0) : t[i] = s[0 + i]
    BY <1>0, FromIs
  <1> HIDE DEF t
  <1>2. Len(t) = Len(s) BY <1>0, <1>1
  <1>3. ASSUME NEW i \in 1..Len(s) PROVE t[i] = s[i]
    <2>1. i \in 1..(Len(s) - 0) /\ 0 + i = i BY <1>0
    <2> QED BY <1>1, <2>1
  <1>4. t = s BY <1>1, <1>2, <1>3, SameSeq
  <1> QED BY <1>4 DEF t

\* An admissible cut is within the turns, and leaves a start in front.
LEMMA AdmissibleIs ==
  ASSUME NEW s \in Seq(Message)
  PROVE  /\ 0 \in Admissible(s)
         /\ \A n \in Admissible(s) :
              n \in 0..Len(Turns(s)) /\ (n = 0 \/ Starts(Turns(s), n))
  <1> DEFINE b == Turns(s)
  <1>1. b \in Seq(Message) BY Parts DEF Following
  <1> HIDE DEF b
  <1>2. Len(b) \in Nat BY <1>1
  <1>3. Admissible(s)
          = {0} \cup {n \in 1..(Len(b) - 1) : b[n + 1].role \notin NOT_UNIT_START}
    BY DEF Admissible, b
  <1>4. ASSUME NEW n \in Admissible(s) PROVE n \in 0..Len(b) /\ (n = 0 \/ Starts(b, n))
    <2>1. CASE n = 0 BY <1>2, <2>1
    <2>2. CASE n # 0
      <3>1. n \in 1..(Len(b) - 1) /\ b[n + 1].role \notin NOT_UNIT_START BY <1>3, <2>2
      <3>2. n \in 0..Len(b) BY <1>2, <3>1
      <3> QED BY <3>1, <3>2 DEF Starts
    <2> QED BY <2>1, <2>2
  <1> QED BY <1>3, <1>4 DEF b

\* What an admissible cut keeps: the system turn as it was, the tail of the
\* turns, and what these cost.
LEMMA KeptIs ==
  ASSUME NEW s \in Seq(Message), NEW n \in Admissible(s)
  PROVE  /\ Following(From(Turns(s), n)) /\ Kept(s, n) \in Seq(Message)
         /\ System(Kept(s, n)) = System(s) /\ Turns(Kept(s, n)) = From(Turns(s), n)
         /\ Tokens(Kept(s, n)) = SystemTurn(System(s)) + Total(Blocks(From(Turns(s), n)))
         /\ Tokens(Kept(s, n)) \in Nat
  <1> DEFINE a == System(s)
             b == Turns(s)
             c == From(b, n)
  <1>1. Opening(a) /\ Following(b) BY Parts
  <1>2. n \in 0..Len(b) /\ (n = 0 \/ Starts(b, n)) BY AdmissibleIs
  <1>3. Kept(s, n) = a \o c BY DEF Kept
  <1> HIDE DEF a, b
  <1>4. b \in Seq(Message) BY <1>1 DEF Following
  <1>5. Following(c)
    <2>1. CASE n = 0
      <3>1. c = b BY <1>4, <2>1, FromNone
      <3> QED BY <1>1, <3>1
    <2>2. CASE Starts(b, n) BY <1>2, <1>4, <2>2, StartFollows
    <2> QED BY <1>2, <2>1, <2>2
  <1> HIDE DEF c
  <1>6. a \o c \in Seq(Message) /\ System(a \o c) = a /\ Turns(a \o c) = c
    BY <1>1, <1>5, Joined
  <1>7. /\ Tokens(a \o c) = SystemTurn(a) + Total(Blocks(c))
        /\ SystemTurn(a) \in Nat /\ Total(Blocks(c)) \in Nat
    BY <1>1, <1>5, TokensOf
  <1>8. Tokens(a \o c) \in Nat BY <1>7
  <1> QED BY <1>3, <1>5, <1>6, <1>7, <1>8 DEF a, b, c

\* Nothing evicted.
LEMMA KeptAll ==
  ASSUME NEW s \in Seq(Message)
  PROVE  Kept(s, 0) = s
  <1>1. Turns(s) \in Seq(Message) BY Parts DEF Following
  <1>2. From(Turns(s), 0) = Turns(s) BY <1>1, FromNone
  <1>3. System(s) \o Turns(s) = s BY Parts
  <1> QED BY <1>2, <1>3 DEF Kept

\* The more goes, the fewer tokens are left.
LEMMA KeptShrinks ==
  ASSUME NEW s \in Seq(Message), NEW n \in Admissible(s), NEW m \in Admissible(s), n <= m
  PROVE  Tokens(Kept(s, m)) <= Tokens(Kept(s, n))
  <1> DEFINE b == Turns(s)
             c == From(b, n)
             d == From(b, m)
             k == m - n
             r == SystemTurn(System(s))
  <1>1. b \in Seq(Message) BY Parts DEF Following
  <1>2. n \in 0..Len(b) /\ m \in 0..Len(b) /\ (m = 0 \/ Starts(b, m)) BY AdmissibleIs
  <1>3. Tokens(Kept(s, n)) = r + Total(Blocks(c)) /\ Tokens(Kept(s, m)) = r + Total(Blocks(d))
    BY KeptIs
  <1>4. r \in Nat
    <2>1. System(s) \in Seq(Message) BY Parts DEF Opening
    <2> QED BY <2>1, SystemTurnIs
  <1> HIDE DEF b, r
  <1>5. Len(b) \in Nat BY <1>1
  <1>6. k \in 0..(Len(b) - n) /\ n + k = m BY <1>2, <1>5
  <1> HIDE DEF k
  <1>7. c \in Seq(Message) /\ Len(c) = Len(b) - n /\ \A i \in 1..(Len(b) - n) : c[i] = b[n + i]
    BY <1>1, <1>2, FromIs
  <1>8. From(c, k) = d BY <1>1, <1>2, <1>6, FromFrom
  <1> HIDE DEF c, d
  <1>9. k = 0 \/ Starts(c, k)
    <2> SUFFICES ASSUME k # 0, k < Len(c) PROVE c[k + 1].role \notin NOT_UNIT_START
      BY DEF Starts
    <2>1. m # 0 /\ m < Len(b) /\ k + 1 \in 1..(Len(b) - n) /\ n + (k + 1) = m + 1
      BY <1>2, <1>5, <1>6, <1>7
    <2>2. c[k + 1] = b[m + 1] BY <1>7, <2>1
    <2> QED BY <1>2, <2>1, <2>2 DEF Starts
  <1>10. k \in 0..Len(c) BY <1>6, <1>7
  <1>11. /\ Total(Blocks(d)) <= Total(Blocks(c))
         /\ Total(Blocks(d)) \in Nat /\ Total(Blocks(c)) \in Nat
    BY <1>7, <1>8, <1>9, <1>10, BlocksShrink
  <1> QED BY <1>3, <1>4, <1>11

\* The current unit is the furthest a cut may go.
LEMMA UnitStartIs ==
  ASSUME NEW s \in Seq(Message)
  PROVE  /\ UnitStart(Turns(s)) \in Admissible(s) /\ UnitStart(Turns(s)) \in Nat
         /\ \A n \in Admissible(s) : n <= UnitStart(Turns(s))
  <1> DEFINE b == Turns(s)
             n == Len(b)
             starts == {i \in DOMAIN b : b[i].role \notin NOT_UNIT_START}
             A == Admissible(s)
  <1>1. b \in Seq(Message) BY Parts DEF Following
  <1>2. A = {0} \cup {i \in 1..(n - 1) : b[i + 1].role \notin NOT_UNIT_START}
    BY DEF Admissible
  <1>3. UnitStart(b) = IF starts = {} THEN 0 ELSE Max(starts) - 1 BY DEF UnitStart
  <1> HIDE DEF b, A
  <1>4. n \in Nat /\ DOMAIN b = 1..n BY <1>1
  <1>5. ASSUME NEW i \in A PROVE i = 0 \/ (i \in Nat /\ i + 1 \in starts)
    <2> SUFFICES ASSUME i # 0 PROVE i \in Nat /\ i + 1 \in starts OBVIOUS
    <2>1. i \in 1..(n - 1) /\ b[i + 1].role \notin NOT_UNIT_START BY <1>2
    <2>2. i \in Nat /\ i + 1 \in 1..n BY <1>4, <2>1
    <2> QED BY <1>4, <2>1, <2>2
  <1>6. starts \in SUBSET (0..n) BY <1>4
  <1>7. \A i \in starts : i \in 1..n /\ b[i].role \notin NOT_UNIT_START BY <1>4
  <1> HIDE DEF starts
  <1>8. CASE starts = {}
    <2>1. UnitStart(b) = 0 BY <1>3, <1>8
    <2>2. \A i \in A : i = 0 BY <1>5, <1>8
    <2> QED BY <1>2, <2>1, <2>2 DEF b, A
  <1>9. CASE starts # {}
    <2> DEFINE m == Max(starts)
    <2>1. m \in starts /\ \A y \in starts : y <= m
      <3> HIDE DEF n
      <3> QED BY <1>4, <1>6, <1>9, GreatestOf
    <2>2. UnitStart(b) = m - 1 BY <1>3, <1>9
    <2> HIDE DEF m
    <2>3. m \in 1..n /\ b[m].role \notin NOT_UNIT_START BY <1>7, <2>1
    <2>4. m - 1 \in A
      <3>1. CASE m = 1 BY <1>2, <3>1
      <3>2. CASE m # 1
        <4>1. m - 1 \in 1..(n - 1) /\ (m - 1) + 1 = m BY <1>4, <2>3, <3>2
        <4> QED BY <1>2, <2>3, <4>1
      <3> QED BY <3>1, <3>2
    <2>5. m - 1 \in Nat BY <1>4, <2>3
    <2>6. ASSUME NEW i \in A PROVE i <= m - 1
      <3>1. CASE i = 0 BY <2>5, <3>1
      <3>2. CASE i \in Nat /\ i + 1 \in starts
        <4>1. i + 1 <= m BY <2>1, <3>2
        <4> QED BY <1>4, <2>3, <3>2, <4>1
      <3> QED BY <1>5, <3>1, <3>2
    <2> QED BY <2>2, <2>4, <2>5, <2>6 DEF b, A
  <1> QED BY <1>8, <1>9

\* What goes when k are asked to is the first admissible cut from there on.
LEMMA AdvanceIs ==
  ASSUME NEW s \in Seq(Message), NEW k \in 1..UnitStart(Turns(s))
  PROVE  /\ Advance(Turns(s), k) \in Admissible(s)
         /\ Advance(Turns(s), k) \in k..UnitStart(Turns(s))
         /\ \A y \in Admissible(s) : k <= y => Advance(Turns(s), k) <= y
  <1> DEFINE b == Turns(s)
             n == Len(b)
             last == UnitStart(b)
             past == {i \in k..last : i = last \/ b[i + 1].role \notin NOT_UNIT_START}
             A == Admissible(s)
             m == Min(past)
  <1>1. b \in Seq(Message) BY Parts DEF Following
  <1>2. A = {0} \cup {i \in 1..(n - 1) : b[i + 1].role \notin NOT_UNIT_START}
    BY DEF Admissible
  <1>3. last \in A /\ last \in Nat /\ \A i \in A : i <= last BY UnitStartIs
  <1>4. Advance(b, k) = m BY DEF Advance
  <1>5. n \in Nat BY <1>1
  <1>6. \A i \in A : i \in 0..n BY AdmissibleIs
  <1>7. k \in 1..last OBVIOUS
  <1> HIDE DEF b, A, last, n
  <1>8. past \in SUBSET Nat /\ last \in past BY <1>3, <1>7
  <1>9. \A i \in past : i \in k..last /\ (i = last \/ b[i + 1].role \notin NOT_UNIT_START)
    OBVIOUS
  <1>10. ASSUME NEW y \in A, k <= y PROVE y \in past
    <2>1. y # 0 /\ y \in k..last BY <1>3, <1>5, <1>6, <1>7, <1>10
    <2>2. b[y + 1].role \notin NOT_UNIT_START BY <1>2, <2>1
    <2> QED BY <2>1, <2>2
  <1> HIDE DEF past
  <1>11. m \in past /\ \A y \in past : m <= y BY <1>8, LeastOf
  <1> HIDE DEF m
  <1>12. m \in k..last BY <1>9, <1>11
  <1>13. m \in A
    <2>1. CASE m = last BY <1>3, <2>1
    <2>2. CASE m # last
      <3>1. b[m + 1].role \notin NOT_UNIT_START BY <1>9, <1>11, <2>2
      <3>2. m \in 1..(n - 1)
        <4>1. last \in 0..n BY <1>3, <1>6
        <4> QED BY <1>5, <1>7, <1>12, <2>2, <4>1
      <3> QED BY <1>2, <3>1, <3>2
    <2> QED BY <2>1, <2>2
  <1>14. \A y \in A : k <= y => m <= y BY <1>10, <1>11
  <1> QED BY <1>4, <1>12, <1>13, <1>14 DEF b, A, last

-----------------------------------------------------------------------------
(***************************************************************************)
(* Loops that count down.                                                  *)
(***************************************************************************)
\* g runs the loop: out is what it returns, to is its next state, left how
\* far it is from its end at most.
Runs(D, left, out, to, g) ==
  \A d \in D : g[d] = IF left[d] = 0 THEN out[d] ELSE g[to[d]]

\* A loop whose distance from its end shrinks can be run.
LEMMA LoopRuns ==
  ASSUME NEW D, NEW V, NEW most \in Nat, NEW left \in [D -> 0..most],
         NEW out \in [D -> V], NEW to \in [D -> D],
         \A d \in D : left[d] # 0 => left[to[d]] < left[d]
  PROVE  \E g \in [D -> V] : Runs(D, left, out, to, g)
  <1> DEFINE Steps(g, d) == g[d] = IF left[d] = 0 THEN out[d] ELSE g[to[d]]
             P == {n \in Nat : \E g \in [D -> V] : \A d \in D : left[d] <= n => Steps(g, d)}
  <1>0. \A d \in D : left[d] \in Nat /\ left[d] <= most OBVIOUS
  <1>1. 0 \in P
    <2>1. \A d \in D : left[d] <= 0 => Steps(out, d) BY <1>0
    <2> QED BY <2>1
  <1>2. ASSUME NEW n \in P PROVE n + 1 \in P
    <2>1. n \in Nat OBVIOUS
    <2>2. PICK f \in [D -> V] : \A d \in D : left[d] <= n => Steps(f, d) OBVIOUS
    <2> DEFINE g == [d \in D |-> IF left[d] = n + 1 THEN f[to[d]] ELSE f[d]]
    <2>3. g \in [D -> V] OBVIOUS
    <2>4. \A d \in D : left[d] <= n => g[d] = f[d]
      <3> SUFFICES ASSUME NEW d \in D, left[d] <= n PROVE left[d] # n + 1 OBVIOUS
      <3> QED BY <1>0, <2>1
    <2>5. \A d \in D : left[d] = n + 1 => g[d] = f[to[d]] OBVIOUS
    <2> HIDE DEF g
    <2>6. ASSUME NEW d \in D, left[d] <= n + 1 PROVE Steps(g, d)
      <3>1. to[d] \in D /\ left[d] \in Nat /\ left[to[d]] \in Nat BY <1>0
      <3>2. left[d] # 0 => g[to[d]] = f[to[d]]
        <4> SUFFICES ASSUME left[d] # 0 PROVE g[to[d]] = f[to[d]] OBVIOUS
        <4>1. left[to[d]] < left[d] OBVIOUS
        <4>2. left[to[d]] <= n BY <2>1, <2>6, <3>1, <4>1
        <4> QED BY <2>4, <3>1, <4>2
      <3>3. CASE left[d] <= n
        <4>1. g[d] = f[d] BY <2>4, <3>3
        <4>2. f[d] = IF left[d] = 0 THEN out[d] ELSE f[to[d]] BY <2>2, <3>3
        <4> QED BY <3>2, <4>1, <4>2
      <3>4. CASE ~(left[d] <= n)
        <4>1. left[d] = n + 1 /\ left[d] # 0 BY <2>1, <2>6, <3>1, <3>4
        <4> QED BY <2>5, <3>2, <4>1
      <3> QED BY <3>3, <3>4
    <2> HIDE DEF Steps
    <2>7. n + 1 \in Nat BY <2>1
    <2> QED BY <2>3, <2>6, <2>7
  <1>3. P \in SUBSET Nat OBVIOUS
  <1> HIDE DEF P
  <1>4. P = Nat BY <1>1, <1>2, <1>3, Induction
  <1>5. most \in P BY <1>4
  <1>6. PICK g \in [D -> V] : \A d \in D : left[d] <= most => Steps(g, d) BY <1>5 DEF P
  <1>7. \A d \in D : Steps(g, d) BY <1>0, <1>6
  <1> QED BY <1>7 DEF Runs

\* A loop that counts down; an invariant of it, I, at whose end W.
Counts(D, most, left, to) ==
  /\ most \in Nat /\ left \in [D -> 0..most] /\ to \in [D -> D]
  /\ \A d \in D : left[d] # 0 => left[to[d]] < left[d]
Yields(D, left, out, to, I, W) ==
  /\ I \subseteq D
  /\ \A d \in I : left[d] # 0 => to[d] \in I
  /\ \A d \in I : left[d] = 0 => out[d] \in W

\* What the loop returns from a state with the invariant is in W.
LEMMA LoopReturns ==
  ASSUME NEW D, NEW most, NEW left, NEW out, NEW to, NEW g, NEW I, NEW W,
         Counts(D, most, left, to), Runs(D, left, out, to, g), Yields(D, left, out, to, I, W)
  PROVE  \A d \in I : g[d] \in W
  <1> USE DEF Counts, Yields
  <1> DEFINE P == {n \in Nat : \A d \in I : left[d] <= n => g[d] \in W}
  <1>0. \A d \in D : left[d] \in Nat /\ left[d] <= most OBVIOUS
  <1>1. 0 \in P
    <2> SUFFICES ASSUME NEW d \in I, left[d] <= 0 PROVE g[d] \in W OBVIOUS
    <2>1. d \in D /\ left[d] = 0 BY <1>0
    <2> QED BY <2>1 DEF Runs
  <1>2. ASSUME NEW n \in P PROVE n + 1 \in P
    <2>1. n \in Nat /\ n + 1 \in Nat OBVIOUS
    <2> SUFFICES ASSUME NEW d \in I, left[d] <= n + 1 PROVE g[d] \in W BY <2>1
    <2>2. d \in D /\ to[d] \in D OBVIOUS
    <2>3. CASE left[d] = 0 BY <2>2, <2>3 DEF Runs
    <2>4. CASE left[d] # 0
      <3>1. left[to[d]] < left[d] /\ to[d] \in I BY <2>2, <2>4
      <3>2. left[to[d]] <= n BY <1>0, <2>1, <2>2, <3>1
      <3>3. g[to[d]] \in W BY <3>1, <3>2
      <3> QED BY <2>2, <2>4, <3>3 DEF Runs
    <2> QED BY <2>3, <2>4
  <1>3. P \in SUBSET Nat OBVIOUS
  <1> HIDE DEF P
  <1>4. P = Nat BY <1>1, <1>2, <1>3, Induction
  <1>5. ASSUME NEW d \in I PROVE g[d] \in W
    <2>1. most \in P /\ left[d] <= most BY <1>0, <1>4
    <2> QED BY <2>1 DEF P
  <1> QED BY <1>5

-----------------------------------------------------------------------------
(***************************************************************************)
(* The bisection.                                                          *)
(***************************************************************************)
\* Where it stands, and the next place.
Place(last) == [lo : 1..last + 1, hi : 0..last, best : 0..last]
Onward(sys, rest, budget, s) ==
  LET mid == (s.lo + s.hi) \div 2
      n == Advance(rest, mid)
  IN IF Tokens(sys \o From(rest, n)) <= budget
     THEN [lo |-> s.lo, hi |-> mid - 1, best |-> n]
     ELSE [lo |-> mid + 1, hi |-> s.hi, best |-> s.best]
Searches(sys, rest, budget, g) ==
  g = [s \in Place(UnitStart(rest)) |->
         IF s.lo > s.hi THEN s.best ELSE g[Onward(sys, rest, budget, s)]]

\* What is true wherever it stands: nothing below lo is enough, and best is
\* the first above hi that is.
Holding(msgs, budget) ==
  LET last == UnitStart(Turns(msgs))
  IN {s \in Place(last) :
        /\ s.lo <= s.hi + 1
        /\ \A n \in Fitting(msgs, budget) : n = 0 \/ s.lo <= n
        /\ \/ s.best = 0 /\ s.hi = last
           \/ /\ s.best \in Fitting(msgs, budget) /\ s.hi < s.best
              /\ \A n \in Fitting(msgs, budget) : s.hi < n => s.best <= n}

\* The middle is in the middle.
LEMMA Middle ==
  ASSUME NEW lo \in Nat, NEW hi \in Nat, lo <= hi
  PROVE  (lo + hi) \div 2 \in lo..hi
  OBVIOUS

\* The next place is a place, nearer to the end; and what holds goes on to.
LEMMA OnwardIs ==
  ASSUME NEW msgs \in Seq(Message), NEW budget \in Int,
         NEW s \in Place(UnitStart(Turns(msgs))), s.lo <= s.hi
  PROVE  LET t == Onward(System(msgs), Turns(msgs), budget, s)
         IN /\ t \in Place(UnitStart(Turns(msgs)))
            /\ t.hi - t.lo < s.hi - s.lo
            /\ s \in Holding(msgs, budget) => t \in Holding(msgs, budget)
  <1> DEFINE rest == Turns(msgs)
             last == UnitStart(rest)
             mid == (s.lo + s.hi) \div 2
             n == Advance(rest, mid)
             A == Admissible(msgs)
             E == Fitting(msgs, budget)
             t == Onward(System(msgs), rest, budget, s)
             cost == Tokens(Kept(msgs, n))
  <1>1. last \in A /\ last \in Nat /\ \A y \in A : y <= last BY UnitStartIs
  <1>2. s.lo \in 1..(last + 1) /\ s.hi \in 0..last /\ s.best \in 0..last BY DEF Place
  <1>3. mid \in s.lo..s.hi
    <2>1. s.lo \in Nat /\ s.hi \in Nat BY <1>1, <1>2
    <2> QED BY <2>1, Middle
  <1>4. \A y \in A : y \in Nat
    <2>1. Len(rest) \in Nat BY Parts DEF Following
    <2>2. \A y \in A : y \in 0..Len(rest) BY AdmissibleIs
    <2> QED BY <2>1, <2>2
  <1>5. n \in A /\ n \in mid..last /\ \A y \in A : mid <= y => n <= y
    <2>1. mid \in 1..last BY <1>1, <1>2, <1>3
    <2> HIDE DEF mid
    <2> QED BY <2>1, AdvanceIs
  <1>6. \A y \in E : y \in A BY DEF Fitting
  <1>7. cost \in Nat /\ \A y \in A : Tokens(Kept(msgs, y)) \in Nat BY <1>5, KeptIs
  <1>8. t = IF cost <= budget THEN [lo |-> s.lo, hi |-> mid - 1, best |-> n]
                              ELSE [lo |-> mid + 1, hi |-> s.hi, best |-> s.best]
    BY DEF Onward, Kept
  <1>9. cost <= budget => n \in E BY <1>5 DEF Fitting
  <1>10. ASSUME ~(cost <= budget), NEW y \in E PROVE n < y
    <2>1. y \in A /\ Tokens(Kept(msgs, y)) <= budget BY DEF Fitting
    <2>2. ~(y <= n)
      <3> SUFFICES ASSUME y <= n PROVE FALSE OBVIOUS
      <3>1. cost <= Tokens(Kept(msgs, y)) BY <1>5, <2>1, KeptShrinks
      <3> QED BY <1>7, <1>10, <2>1, <3>1
    <2> QED BY <1>4, <1>5, <2>1, <2>2
  <1>11. s \in Holding(msgs, budget) =>
           /\ \A y \in E : y = 0 \/ s.lo <= y
           /\ \/ s.best = 0 /\ s.hi = last
              \/ s.best \in E /\ s.hi < s.best /\ \A y \in E : s.hi < y => s.best <= y
    BY DEF Holding
  <1>12. t \in Holding(msgs, budget)
           <=> /\ t \in Place(last) /\ t.lo <= t.hi + 1
               /\ \A y \in E : y = 0 \/ t.lo <= y
               /\ \/ t.best = 0 /\ t.hi = last
                  \/ t.best \in E /\ t.hi < t.best /\ \A y \in E : t.hi < y => t.best <= y
    BY DEF Holding
  <1> HIDE DEF last, mid, n, A, E, t, cost
  <1>13. CASE cost <= budget
    <2>1. t.lo = s.lo /\ t.hi = mid - 1 /\ t.best = n
          /\ t = [lo |-> s.lo, hi |-> mid - 1, best |-> n]
      BY <1>8, <1>13
    <2>2. mid - 1 \in 0..last /\ n \in 0..last /\ mid - 1 < n /\ s.lo <= (mid - 1) + 1
      BY <1>1, <1>2, <1>3, <1>5
    <2>3. t \in Place(last) BY <1>2, <2>1, <2>2 DEF Place
    <2>4. t.hi - t.lo < s.hi - s.lo BY <1>1, <1>2, <1>3, <2>1
    <2>5. ASSUME s \in Holding(msgs, budget) PROVE t \in Holding(msgs, budget)
      <3>1. \A y \in E : y = 0 \/ t.lo <= y BY <1>11, <2>1, <2>5
      <3>2. ASSUME NEW y \in E, t.hi < y PROVE t.best <= y
        <4>1. y \in A /\ y \in Nat BY <1>4, <1>6
        <4>2. mid <= y BY <1>1, <1>2, <1>3, <2>1, <3>2, <4>1
        <4> QED BY <1>5, <2>1, <4>1, <4>2
      <3>3. t.best \in E /\ t.hi < t.best /\ t.lo <= t.hi + 1
        BY <1>9, <1>13, <2>1, <2>2
      <3> QED BY <1>12, <2>3, <3>1, <3>2, <3>3
    <2> QED BY <2>3, <2>4, <2>5 DEF t, last
  <1>14. CASE ~(cost <= budget)
    <2>1. t.lo = mid + 1 /\ t.hi = s.hi /\ t.best = s.best
          /\ t = [lo |-> mid + 1, hi |-> s.hi, best |-> s.best]
      BY <1>8, <1>14
    <2>2. mid + 1 \in 1..(last + 1) /\ mid + 1 <= s.hi + 1 BY <1>1, <1>2, <1>3
    <2>3. t \in Place(last) BY <1>2, <2>1, <2>2 DEF Place
    <2>4. t.hi - t.lo < s.hi - s.lo BY <1>1, <1>2, <1>3, <2>1
    <2>5. ASSUME s \in Holding(msgs, budget) PROVE t \in Holding(msgs, budget)
      <3>1. ASSUME NEW y \in E PROVE t.lo <= y
        <4>1. n < y /\ y \in Nat BY <1>4, <1>6, <1>10, <1>14
        <4> QED BY <1>1, <1>2, <1>3, <1>5, <2>1, <4>1
      <3>2. \/ t.best = 0 /\ t.hi = last
            \/ t.best \in E /\ t.hi < t.best /\ \A y \in E : t.hi < y => t.best <= y
        BY <1>11, <2>1, <2>5
      <3> QED BY <1>12, <2>1, <2>2, <2>3, <3>1, <3>2
    <2> QED BY <2>3, <2>4, <2>5 DEF t, last
  <1> QED BY <1>13, <1>14

\* The search can be run, whatever it is given to search in.
LEMMA SearchRuns ==
  ASSUME NEW msgs \in Seq(Message), NEW budget \in Int
  PROVE  \E g : Searches(System(msgs), Turns(msgs), budget, g)
  <1> DEFINE sys == System(msgs)
             rest == Turns(msgs)
             last == UnitStart(rest)
             D == Place(last)
             left == [s \in D |-> IF s.lo > s.hi THEN 0 ELSE s.hi - s.lo + 1]
             out == [s \in D |-> s.best]
             to == [s \in D |-> IF s.lo > s.hi THEN s ELSE Onward(sys, rest, budget, s)]
  <1>1. last \in Nat BY UnitStartIs
  <1>2. ASSUME NEW s \in D, s.lo <= s.hi
        PROVE  /\ Onward(sys, rest, budget, s) \in D
               /\ Onward(sys, rest, budget, s).hi - Onward(sys, rest, budget, s).lo < s.hi - s.lo
    BY <1>2, OnwardIs
  <1> HIDE DEF sys, rest, last, D
  <1>3. ASSUME NEW s \in D
        PROVE  s.lo \in 1..(last + 1) /\ s.hi \in 0..last /\ s.best \in 0..last
    BY DEF D, Place
  <1>4. left \in [D -> 0..last]
    <2> SUFFICES ASSUME NEW s \in D
                 PROVE  (IF s.lo > s.hi THEN 0 ELSE s.hi - s.lo + 1) \in 0..last
      OBVIOUS
    <2>1. s.lo \in 1..(last + 1) /\ s.hi \in 0..last BY <1>3
    <2> QED BY <1>1, <2>1
  <1>5. out \in [D -> 0..last] BY <1>3
  <1>6. to \in [D -> D]
    <2> SUFFICES ASSUME NEW s \in D
                 PROVE  (IF s.lo > s.hi THEN s ELSE Onward(sys, rest, budget, s)) \in D
      OBVIOUS
    <2>1. s.lo > s.hi \/ s.lo <= s.hi BY <1>1, <1>3
    <2> QED BY <1>2, <2>1
  <1>7. ASSUME NEW s \in D, left[s] # 0 PROVE left[to[s]] < left[s]
    <2>1. s.lo <= s.hi /\ ~(s.lo > s.hi) BY <1>1, <1>3, <1>7
    <2> DEFINE t == Onward(sys, rest, budget, s)
    <2>2. t \in D /\ t.hi - t.lo < s.hi - s.lo BY <1>2, <2>1
    <2>3. to[s] = t BY <2>1
    <2> HIDE DEF t, to
    <2>4. left[s] = s.hi - s.lo + 1 BY <2>1
    <2>5. left[t] = IF t.lo > t.hi THEN 0 ELSE t.hi - t.lo + 1 BY <2>2
    <2> HIDE DEF left
    <2> QED BY <1>1, <1>3, <2>1, <2>2, <2>3, <2>4, <2>5
  <1> DEFINE V == 0..last
  <1> HIDE DEF left, out, to, V
  <1>8. left \in [D -> 0..last] /\ out \in [D -> V] BY <1>4, <1>5 DEF V
  <1>9. PICK g \in [D -> V] : Runs(D, left, out, to, g)
    BY <1>1, <1>6, <1>7, <1>8, LoopRuns
  <1> DEFINE h == [s \in D |-> IF s.lo > s.hi THEN s.best ELSE g[Onward(sys, rest, budget, s)]]
  <1>10. ASSUME NEW s \in D PROVE g[s] = h[s]
    <2>1. g[s] = IF left[s] = 0 THEN out[s] ELSE g[to[s]] BY <1>9 DEF Runs
    <2>2. s.lo \in Nat /\ s.hi \in Nat BY <1>1, <1>3
    <2>3. h[s] = IF s.lo > s.hi THEN s.best ELSE g[Onward(sys, rest, budget, s)] OBVIOUS
    <2> HIDE DEF h
    <2>4. CASE s.lo > s.hi
      <3>1. left[s] = 0 /\ out[s] = s.best BY <2>4 DEF left, out
      <3> QED BY <2>1, <2>3, <2>4, <3>1
    <2>5. CASE ~(s.lo > s.hi)
      <3>1. left[s] # 0
        <4>1. left[s] = s.hi - s.lo + 1 BY <2>5 DEF left
        <4> QED BY <2>2, <2>5, <4>1
      <3>2. to[s] = Onward(sys, rest, budget, s) BY <2>5 DEF to
      <3> QED BY <2>1, <2>3, <2>5, <3>1, <3>2
    <2> QED BY <2>4, <2>5
  <1>11. g = [s \in D |-> g[s]] /\ h = [s \in D |-> h[s]] OBVIOUS
  <1> HIDE DEF h
  <1>12. g = h BY <1>10, <1>11
  <1>13. Searches(sys, rest, budget, g) BY <1>12 DEF Searches, h, D, last
  <1> QED BY <1>13 DEF sys, rest

\* What is enough, in order, is what the bisection returns the first of; 0 is
\* what it returns when nothing that evicts a message is.
LEMMA BisectIs ==
  ASSUME NEW msgs \in Seq(Message), NEW budget \in Int
  PROVE  LET b == Bisect(System(msgs), Turns(msgs), budget)
         IN /\ b = 0 => \A n \in Fitting(msgs, budget) : n = 0
            /\ b # 0 => /\ b \in Fitting(msgs, budget)
                        /\ \A n \in Fitting(msgs, budget) : n = 0 \/ b <= n
  <1> DEFINE sys == System(msgs)
             rest == Turns(msgs)
             last == UnitStart(rest)
             D == Place(last)
             E == Fitting(msgs, budget)
             I == Holding(msgs, budget)
             left == [s \in D |-> IF s.lo > s.hi THEN 0 ELSE s.hi - s.lo + 1]
             out == [s \in D |-> s.best]
             to == [s \in D |-> IF s.lo > s.hi THEN s ELSE Onward(sys, rest, budget, s)]
             g == CHOOSE g : Searches(sys, rest, budget, g)
             s0 == [lo |-> 1, hi |-> last, best |-> 0]
             W == {b \in 0..last :
                     /\ b = 0 => \A n \in E : n = 0
                     /\ b # 0 => b \in E /\ \A n \in E : n = 0 \/ b <= n}
  <1>1. last \in Nat /\ (\A n \in Admissible(msgs) : n <= last) BY UnitStartIs
  <1>2. ASSUME NEW s \in D, s.lo <= s.hi
        PROVE  /\ Onward(sys, rest, budget, s) \in D
               /\ Onward(sys, rest, budget, s).hi - Onward(sys, rest, budget, s).lo < s.hi - s.lo
               /\ s \in I => Onward(sys, rest, budget, s) \in I
    BY <1>2, OnwardIs
  <1>3. Bisect(sys, rest, budget) = g[s0] BY DEF Bisect, Searches, Place, Onward
  <1>4. Searches(sys, rest, budget, g) BY SearchRuns
  <1>5. \A n \in E : n \in Nat /\ n <= last
    <2>1. \A n \in Admissible(msgs) : n \in 0..Len(rest) BY AdmissibleIs
    <2>2. Len(rest) \in Nat BY Parts DEF Following
    <2>3. \A n \in E : n \in Admissible(msgs) BY DEF Fitting
    <2> HIDE DEF E, rest, last
    <2> QED BY <1>1, <2>1, <2>2, <2>3
  <1>6. I = {s \in D : /\ s.lo <= s.hi + 1
                       /\ \A n \in E : n = 0 \/ s.lo <= n
                       /\ \/ s.best = 0 /\ s.hi = last
                          \/ s.best \in E /\ s.hi < s.best /\ \A n \in E : s.hi < n => s.best <= n}
    BY DEF Holding
  <1> HIDE DEF g, sys, rest, last, E, I
  <1>7. ASSUME NEW s \in D
        PROVE  s.lo \in 1..(last + 1) /\ s.hi \in 0..last /\ s.best \in 0..last
    BY DEF Place
  <1>8. s0 \in D BY <1>1 DEF Place
  <1>9. s0 \in I
    <2>1. s0.lo = 1 /\ s0.hi = last /\ s0.best = 0 OBVIOUS
    <2> HIDE DEF s0, D
    <2>2. \A n \in E : n = 0 \/ s0.lo <= n BY <1>5, <2>1
    <2>3. s0.lo <= s0.hi + 1 BY <1>1, <2>1
    <2> QED BY <1>6, <1>8, <2>1, <2>2, <2>3
  <1>10. g = [s \in D |-> IF s.lo > s.hi THEN s.best ELSE g[Onward(sys, rest, budget, s)]]
    BY <1>4 DEF Searches, last
  <1> HIDE DEF s0, D
  <1>11. left \in [D -> 0..last]
    <2> SUFFICES ASSUME NEW s \in D
                 PROVE  (IF s.lo > s.hi THEN 0 ELSE s.hi - s.lo + 1) \in 0..last
      OBVIOUS
    <2>1. s.lo \in 1..(last + 1) /\ s.hi \in 0..last BY <1>7
    <2> QED BY <1>1, <2>1
  <1>12. to \in [D -> D]
    <2> SUFFICES ASSUME NEW s \in D
                 PROVE  (IF s.lo > s.hi THEN s ELSE Onward(sys, rest, budget, s)) \in D
      OBVIOUS
    <2>1. s.lo > s.hi \/ s.lo <= s.hi BY <1>1, <1>7
    <2> QED BY <1>2, <2>1
  <1>13. ASSUME NEW s \in D
         PROVE  /\ left[s] # 0 => to[s] = Onward(sys, rest, budget, s) /\ s.lo <= s.hi
                /\ left[s] = 0 => s.lo > s.hi
                /\ left[s] = IF s.lo > s.hi THEN 0 ELSE s.hi - s.lo + 1
                /\ out[s] = s.best
    <2>1. s.lo \in Nat /\ s.hi \in Nat BY <1>1, <1>7
    <2>2. left[s] = IF s.lo > s.hi THEN 0 ELSE s.hi - s.lo + 1 OBVIOUS
    <2>3. out[s] = s.best OBVIOUS
    <2>4. to[s] = IF s.lo > s.hi THEN s ELSE Onward(sys, rest, budget, s) OBVIOUS
    <2> HIDE DEF left, out, to
    <2> QED BY <2>1, <2>2, <2>3, <2>4
  <1> HIDE DEF left, out, to
  <1>14. ASSUME NEW s \in D, left[s] # 0 PROVE left[to[s]] < left[s]
    <2> DEFINE t == to[s]
    <2>1. t \in D /\ t.hi - t.lo < s.hi - s.lo /\ s.lo <= s.hi BY <1>2, <1>13, <1>14
    <2> HIDE DEF t
    <2>2. left[t] = IF t.lo > t.hi THEN 0 ELSE t.hi - t.lo + 1 BY <1>13, <2>1
    <2>3. left[s] = s.hi - s.lo + 1
      <3>1. s.lo \in Nat /\ s.hi \in Nat BY <1>1, <1>7
      <3> QED BY <1>13, <2>1, <3>1
    <2>4. s.lo \in Nat /\ s.hi \in Nat /\ t.lo \in Nat /\ t.hi \in Nat
      BY <1>1, <1>7, <2>1
    <2>5. left[t] < left[s] BY <2>1, <2>2, <2>3, <2>4
    <2> QED BY <2>5 DEF t
  <1>15. Runs(D, left, out, to, g)
    <2> SUFFICES ASSUME NEW s \in D PROVE g[s] = IF left[s] = 0 THEN out[s] ELSE g[to[s]]
      BY DEF Runs
    <2>1. g[s] = IF s.lo > s.hi THEN s.best ELSE g[Onward(sys, rest, budget, s)] BY <1>10
    <2>2. s.lo \in Nat /\ s.hi \in Nat BY <1>1, <1>7
    <2> QED BY <1>13, <2>1, <2>2
  <1>16. I \in SUBSET D BY <1>6
  <1>17. ASSUME NEW s \in I, left[s] # 0 PROVE to[s] \in I
    BY <1>2, <1>13, <1>16, <1>17
  <1>18. ASSUME NEW s \in I, left[s] = 0 PROVE out[s] \in W
    <2>1. s \in D BY <1>16
    <2>2. s.lo > s.hi /\ out[s] = s.best BY <1>13, <1>18, <2>1
    <2>3. s.lo \in Nat /\ s.hi \in Nat /\ s.best \in 0..last BY <1>1, <1>7, <2>1
    <2>4. /\ s.lo <= s.hi + 1
          /\ \A n \in E : n = 0 \/ s.lo <= n
          /\ \/ s.best = 0 /\ s.hi = last
             \/ s.best \in E /\ s.hi < s.best /\ \A n \in E : s.hi < n => s.best <= n
      BY <1>6
    <2>5. s.lo = s.hi + 1 BY <2>2, <2>3, <2>4
    <2>6. \A n \in E : n = 0 \/ s.hi < n BY <1>5, <2>3, <2>4, <2>5
    <2>7. CASE s.best = 0 /\ s.hi = last
      <3>1. \A n \in E : n = 0 BY <1>1, <1>5, <2>6, <2>7
      <3> QED BY <2>2, <2>3, <2>7, <3>1
    <2>8. CASE s.best \in E /\ s.hi < s.best /\ \A n \in E : s.hi < n => s.best <= n
      <3>1. s.best # 0 BY <2>3, <2>8
      <3>2. \A n \in E : n = 0 \/ s.best <= n BY <2>6, <2>8
      <3> QED BY <2>2, <2>3, <2>8, <3>1, <3>2
    <2> QED BY <2>4, <2>7, <2>8
  <1> HIDE DEF W
  <1>19. g[s0] \in W
    <2>1. \A s \in D : left[s] # 0 => left[to[s]] < left[s] BY <1>14
    <2>2. \A s \in I : left[s] # 0 => to[s] \in I BY <1>17
    <2>3. \A s \in I : left[s] = 0 => out[s] \in W BY <1>18
    <2>4. Counts(D, last, left, to) BY <1>1, <1>11, <1>12, <2>1 DEF Counts
    <2>5. Yields(D, left, out, to, I, W) BY <1>16, <2>2, <2>3 DEF Yields
    <2>6. \A s \in I : g[s] \in W BY <1>15, <2>4, <2>5, LoopReturns
    <2> QED BY <1>9, <2>6
  <1>20. /\ g[s0] = 0 => \A n \in E : n = 0
         /\ g[s0] # 0 => g[s0] \in E /\ \A n \in E : n = 0 \/ g[s0] <= n
    BY <1>19 DEF W
  <1> QED BY <1>3, <1>20 DEF sys, rest, E

\* The smallest of a set is what is in it and below the rest of it.
LEMMA MinIs ==
  ASSUME NEW S \in SUBSET Nat, NEW m \in S, \A y \in S : m <= y
  PROVE  Min(S) = m
  <1>1. Min(S) \in S /\ \A y \in S : Min(S) <= y BY LeastOf
  <1>2. Min(S) \in Nat /\ m \in Nat /\ Min(S) <= m /\ m <= Min(S) BY <1>1
  <1> QED BY <1>2

\* The greatest is what is in it and above the rest.
LEMMA MaxIs ==
  ASSUME NEW S \in SUBSET Nat, NEW m \in S, \A y \in S : y <= m
  PROVE  Max(S) = m
  <1>1. S \in SUBSET (0..m)
    <2> SUFFICES ASSUME NEW y \in S PROVE y \in 0..m OBVIOUS
    <2>1. y \in Nat /\ y <= m /\ m \in Nat OBVIOUS
    <2> QED BY <2>1
  <1>2. Max(S) \in S /\ \A y \in S : y <= Max(S) BY <1>1, GreatestOf
  <1>3. Max(S) \in Nat /\ m \in Nat /\ Max(S) <= m /\ m <= Max(S) BY <1>2
  <1> QED BY <1>3

\* What _fit decides for a conversation and a budget, and that it is the best.
Best(msgs, budget, cut, fits) ==
  /\ fits \in BOOLEAN /\ cut \in Admissible(msgs)
  /\ fits <=> Fitting(msgs, budget) # {}
  /\ cut = IF Fitting(msgs, budget) = {} THEN Max(Admissible(msgs))
                                         ELSE Min(Fitting(msgs, budget))
  /\ fits => cut \in Fitting(msgs, budget)

\* The cut is admissible, the first that is enough if any is and the furthest
\* there is if none is, and _fit says which.
THEOREM FitIs ==
  ASSUME NEW msgs \in Seq(Message), NEW budget \in Int
  PROVE  Best(msgs, budget, Fit(msgs, budget).cut, Fit(msgs, budget).fits)
  <1> DEFINE b == Bisect(System(msgs), Turns(msgs), budget)
             last == UnitStart(Turns(msgs))
             A == Admissible(msgs)
             E == Fitting(msgs, budget)
             t == Tokens(msgs)
             f == Fit(msgs, budget)
  <1>1. last \in A /\ last \in Nat /\ \A n \in A : n <= last BY UnitStartIs
  <1>2. A \in SUBSET Nat /\ 0 \in A
    <2>1. Len(Turns(msgs)) \in Nat BY Parts DEF Following
    <2>2. 0 \in A /\ \A n \in A : n \in 0..Len(Turns(msgs)) BY AdmissibleIs
    <2> HIDE DEF A
    <2> QED BY <2>1, <2>2
  <1>3. E \in SUBSET A /\ \A n \in A : n \in E <=> Tokens(Kept(msgs, n)) <= budget
    BY DEF Fitting
  <1>4. Tokens(Kept(msgs, 0)) = t /\ t \in Nat
    <2>1. Kept(msgs, 0) = msgs BY KeptAll
    <2>2. Tokens(Kept(msgs, 0)) \in Nat BY <1>2, KeptIs
    <2> QED BY <2>1, <2>2
  <1>5. /\ b = 0 => \A n \in E : n = 0
        /\ b # 0 => b \in E /\ \A n \in E : n = 0 \/ b <= n
    BY BisectIs
  <1>6. f = CASE t <= budget -> [cut |-> 0, fits |-> TRUE]
              [] t > budget /\ last = 0 -> [cut |-> 0, fits |-> FALSE]
              [] t > budget /\ last > 0 /\ b = 0 -> [cut |-> last, fits |-> FALSE]
              [] OTHER -> [cut |-> b, fits |-> TRUE]
    BY DEF Fit, System, Turns
  <1> HIDE DEF b, last, A, E, t, f
  <1>7. Max(A) = last BY <1>1, <1>2, MaxIs
  <1>8. t <= budget \/ t > budget BY <1>4
  <1>9. t > budget => 0 \notin E BY <1>2, <1>3, <1>4
  <1>10. CASE t <= budget
    <2>1. f = [cut |-> 0, fits |-> TRUE] BY <1>4, <1>6, <1>10
    <2>2. 0 \in E BY <1>2, <1>3, <1>4, <1>10
    <2>3. \A n \in E : 0 <= n BY <1>2, <1>3
    <2>4. Min(E) = 0 BY <1>2, <1>3, <2>2, <2>3, MinIs
    <2> QED BY <1>2, <2>1, <2>2, <2>4 DEF Best, A, E, f
  <1>11. CASE t > budget /\ last = 0
    <2>1. f = [cut |-> 0, fits |-> FALSE] BY <1>4, <1>6, <1>11
    <2>2. E = {}
      <3>1. \A n \in E : n = 0 BY <1>1, <1>2, <1>3, <1>11
      <3> QED BY <1>9, <1>11, <3>1
    <2> QED BY <1>2, <1>7, <1>11, <2>1, <2>2 DEF Best, A, E, f
  <1>12. CASE t > budget /\ last > 0 /\ b = 0
    <2>1. f = [cut |-> last, fits |-> FALSE]
      <3>1. ~(t <= budget) /\ last # 0 BY <1>1, <1>4, <1>12
      <3> QED BY <1>6, <1>12, <3>1
    <2>2. E = {} BY <1>5, <1>9, <1>12
    <2> QED BY <1>1, <1>7, <2>1, <2>2 DEF Best, A, E, f
  <1>13. CASE t > budget /\ last > 0 /\ b # 0
    <2>1. f = [cut |-> b, fits |-> TRUE]
      <3>1. ~(t <= budget) /\ last # 0 BY <1>1, <1>4, <1>13
      <3> QED BY <1>6, <1>13, <3>1
    <2>2. b \in E BY <1>5, <1>13
    <2>3. \A n \in E : b <= n BY <1>5, <1>9, <1>13
    <2>4. Min(E) = b BY <1>2, <1>3, <2>2, <2>3, MinIs
    <2> QED BY <1>3, <2>1, <2>2, <2>4 DEF Best, A, E, f
  <1>14. last = 0 \/ last > 0 BY <1>1
  <1> QED BY <1>8, <1>10, <1>11, <1>12, <1>13, <1>14

-----------------------------------------------------------------------------
(***************************************************************************)
(* Notes.                                                                  *)
(***************************************************************************)
\* The first of the first.
LEMMA FirstFirst ==
  ASSUME NEW S, NEW s \in Seq(S), NEW k \in 0..Len(s), NEW n \in 0..k
  PROVE  SubSeq(SubSeq(s, 1, k), 1, n) = SubSeq(s, 1, n)
  <1> DEFINE x == SubSeq(s, 1, k)
             y == SubSeq(x, 1, n)
             z == SubSeq(s, 1, n)
  <1>0. Len(s) \in Nat /\ k \in Nat /\ n \in 0..Len(s) OBVIOUS
  <1>1. x \in Seq(S) /\ Len(x) = k /\ \A i \in 1..k : x[i] = s[i] BY FirstIs
  <1>2. z \in Seq(S) /\ Len(z) = n /\ \A i \in 1..n : z[i] = s[i] BY <1>0, FirstIs
  <1> HIDE DEF x, z
  <1>3. y \in Seq(S) /\ Len(y) = n /\ \A i \in 1..n : y[i] = x[i]
    <2>1. n \in 0..Len(x) BY <1>1
    <2> QED BY <1>1, <2>1, FirstIs
  <1> HIDE DEF y
  <1>4. ASSUME NEW i \in 1..n PROVE y[i] = z[i]
    <2>1. i \in 1..k BY <1>0
    <2> QED BY <1>1, <1>2, <1>3, <2>1
  <1>5. y = z BY <1>2, <1>3, <1>4, SameSeq
  <1> QED BY <1>5 DEF x, y, z

\* One more of the first.
LEMMA FirstMore ==
  ASSUME NEW S, NEW s \in Seq(S), NEW k \in 1..Len(s)
  PROVE  /\ SubSeq(s, 1, k) = SubSeq(s, 1, k - 1) \o <<s[k]>>
         /\ SubSeq(s, 1, k - 1) \in Seq(S) /\ <<s[k]>> \in Seq(S)
  <1> DEFINE x == SubSeq(s, 1, k)
             y == SubSeq(s, 1, k - 1)
             z == <<s[k]>>
             w == y \o z
  <1>0. Len(s) \in Nat /\ k \in 0..Len(s) /\ k - 1 \in 0..Len(s) OBVIOUS
  <1>1. x \in Seq(S) /\ Len(x) = k /\ \A i \in 1..k : x[i] = s[i] BY <1>0, FirstIs
  <1>2. y \in Seq(S) /\ Len(y) = k - 1 /\ \A i \in 1..(k - 1) : y[i] = s[i]
    BY <1>0, FirstIs
  <1>3. z \in Seq(S) /\ Len(z) = 1 /\ z[1] = s[k]
    <2>1. s[k] \in S OBVIOUS
    <2> QED BY <2>1
  <1> HIDE DEF x, y, z
  <1>4. /\ w \in Seq(S) /\ Len(w) = Len(y) + Len(z)
        /\ (\A i \in 1..Len(y) : w[i] = y[i]) /\ \A i \in 1..Len(z) : w[Len(y) + i] = z[i]
    <2>1. y \in Seq(S) /\ z \in Seq(S) BY <1>2, <1>3
    <2> QED BY <2>1, ConcatIs
  <1> HIDE DEF w
  <1>5. Len(w) = k /\ k \in Nat BY <1>0, <1>2, <1>3, <1>4
  <1>6. ASSUME NEW i \in 1..k PROVE x[i] = w[i]
    <2>1. CASE i = k
      <3>1. 1 \in 1..Len(z) /\ Len(y) + 1 = k BY <1>2, <1>3, <1>5
      <3>2. w[k] = z[1] BY <1>4, <3>1
      <3> QED BY <1>1, <1>3, <2>1, <3>2
    <2>2. CASE i # k
      <3>1. i \in 1..(k - 1) BY <1>5, <2>2
      <3> QED BY <1>1, <1>2, <1>4, <3>1
    <2> QED BY <2>1, <2>2
  <1>7. x = w BY <1>1, <1>4, <1>5, <1>6, SameSeq
  <1> QED BY <1>2, <1>3, <1>7 DEF x, w, y, z

\* What one message states.
LEMMA FactsOne ==
  ASSUME NEW m \in Message
  PROVE  Facts(<<m>>) = m.facts
  <1> DEFINE s == <<m>>
             x == m.facts
             g == [k \in 0..1 |-> IF k = 0 THEN <<>> ELSE x]
  <1>1. s \in Seq(Message) /\ Len(s) = 1 /\ s[1] = m OBVIOUS
  <1>2. x \in Seq(Fact) BY DEF Message
  <1>3. s[1].facts = x BY <1>1
  <1> HIDE DEF s, x
  <1>4. <<>> \in Seq(Fact) OBVIOUS
  <1>5. g \in [0..1 -> Seq(Fact)] BY <1>2, <1>4
  <1>6. g[0] = <<>> /\ g[1] = x
    <2>1. 0 \in 0..1 /\ 1 \in 0..1 /\ 1 # 0 OBVIOUS
    <2> QED BY <2>1
  <1> HIDE DEF g
  <1>7. <<>> \o x = x BY <1>2, ConcatEmptySeq
  <1>8. ASSUME NEW k \in 1..1 PROVE g[k] = g[k - 1] \o s[k].facts
    <2>1. k = 1 /\ k - 1 = 0 OBVIOUS
    <2> QED BY <1>3, <1>6, <1>7, <2>1
  <1>9. JoinsTo(s, 1, g) BY <1>5, <1>6, <1>8, JoinsWhen
  <1>10. Facts(s) = g[1] BY <1>1, <1>9, FactsIs
  <1> QED BY <1>6, <1>10 DEF s, x

\* What is in two sequences, joined.
LEMMA SetOf ==
  ASSUME NEW S, NEW x \in Seq(S), NEW y \in Seq(S)
  PROVE  ToSet(x \o y) = ToSet(x) \cup ToSet(y)
  <1> DEFINE w == x \o y
  <1>1. /\ w \in Seq(S) /\ Len(w) = Len(x) + Len(y) /\ Len(x) \in Nat /\ Len(y) \in Nat
        /\ (\A i \in 1..Len(x) : w[i] = x[i]) /\ \A i \in 1..Len(y) : w[Len(x) + i] = y[i]
    BY ConcatIs
  <1>2. DOMAIN x = 1..Len(x) /\ DOMAIN y = 1..Len(y) OBVIOUS
  <1> HIDE DEF w
  <1>3. DOMAIN w = 1..(Len(x) + Len(y)) BY <1>1
  <1>4. ASSUME NEW i \in DOMAIN w PROVE w[i] \in ToSet(x) \cup ToSet(y)
    <2>1. CASE i <= Len(x)
      <3>1. i \in DOMAIN x /\ w[i] = x[i] BY <1>1, <1>2, <1>3, <2>1
      <3> QED BY <3>1 DEF ToSet
    <2>2. CASE ~(i <= Len(x))
      <3>1. i - Len(x) \in 1..Len(y) /\ Len(x) + (i - Len(x)) = i BY <1>1, <1>3, <2>2
      <3>2. w[i] = y[i - Len(x)] BY <1>1, <3>1
      <3> QED BY <1>2, <3>1, <3>2 DEF ToSet
    <2> QED BY <2>1, <2>2
  <1>5. ASSUME NEW i \in DOMAIN x PROVE x[i] \in ToSet(w)
    <2>1. i \in DOMAIN w /\ w[i] = x[i] BY <1>1, <1>2, <1>3
    <2> QED BY <2>1 DEF ToSet
  <1>6. ASSUME NEW i \in DOMAIN y PROVE y[i] \in ToSet(w)
    <2>1. Len(x) + i \in DOMAIN w /\ w[Len(x) + i] = y[i] BY <1>1, <1>2, <1>3
    <2> QED BY <2>1 DEF ToSet
  <1>7. ToSet(w) = ToSet(x) \cup ToSet(y) BY <1>4, <1>5, <1>6 DEF ToSet
  <1> QED BY <1>7 DEF w

\* A system turn splits into a base and a note, and states nothing that is in
\* neither.
LEMMA SplitNoteIs ==
  ASSUME NEW a \in Seq(Message)
  PROVE  LET b == SplitNote(a).base
             n == SplitNote(a).note
         IN /\ b \in Seq(Message) /\ n \in Note \cup {NoNote}
            /\ FactsOf(n) \in Seq(Fact) /\ Facts(a) \in Seq(Fact) /\ Facts(b) \in Seq(Fact)
            /\ ToSet(Facts(a)) \subseteq ToSet(Facts(b)) \cup ToSet(FactsOf(n))
  <1> DEFINE M == Marked(a)
             b == SplitNote(a).base
             n == SplitNote(a).note
  <1>1. Facts(a) \in Seq(Fact) BY FactsIs
  <1>2. CASE M = {}
    <2>1. b = a /\ n = NoNote BY <1>2 DEF SplitNote
    <2>2. FactsOf(n) = <<>> BY <2>1 DEF FactsOf
    <2>3. <<>> \in Seq(Fact) OBVIOUS
    <2> HIDE DEF b, n
    <2>4. ToSet(Facts(a)) \subseteq ToSet(Facts(b)) \cup ToSet(FactsOf(n)) BY <2>1
    <2> QED BY <1>1, <2>1, <2>2, <2>3, <2>4 DEF b, n
  <1>3. CASE M # {}
    <2> DEFINE at == Max(M)
               after == From(a, at)
               m == a[at]
               first == SubSeq(a, 1, at - 1)
               whole == SubSeq(a, 1, at)
               bare == Bare(m)
    <2>1. Len(a) \in Nat /\ DOMAIN a = 1..Len(a) OBVIOUS
    <2>2. at \in 1..Len(a) /\ m.note # NoNote
      <3>1. M \in SUBSET (0..Len(a)) BY <2>1 DEF Marked
      <3>2. \A i \in M : i \in 1..Len(a) /\ a[i].note # NoNote BY <2>1 DEF Marked
      <3> HIDE DEF M
      <3>3. Max(M) \in M BY <1>3, <2>1, <3>1, GreatestOf
      <3> QED BY <3>2, <3>3
    <2>3. b = Append(first, bare) BY <1>3 DEF SplitNote
    <2>4. n = [size |-> m.note.size + Total(Sizes(after)), of |-> m.note.of \o Facts(after)]
      BY <1>3 DEF SplitNote
    <2> HIDE DEF at, b, n, M
    <2>5. m \in Message /\ m.note \in Note
      <3>1. m \in Message BY <2>2
      <3> HIDE DEF m
      <3> QED BY <2>2, <3>1 DEF Message
    <2>6. m.note.size \in Nat /\ m.note.of \in Seq(Fact) /\ m.facts \in Seq(Fact)
      BY <2>5 DEF Message, Note
    <2>7. after \in Seq(Message) /\ Facts(after) \in Seq(Fact)
      <3>1. at \in 0..Len(a) BY <2>1, <2>2
      <3>2. after \in Seq(Message) BY <3>1, FromIs
      <3> QED BY <3>2, FactsIs
    <2>8. Total(Sizes(after)) \in Nat
      <3> DEFINE k == Len(after)
      <3>1. k \in Nat /\ DOMAIN after = 1..k BY <2>7
      <3>2. ASSUME NEW i \in 1..k PROVE after[i].size \in Nat
        <4>1. after[i] \in Message BY <2>7
        <4> QED BY <4>1 DEF Message
      <3> DEFINE f == [i \in 1..k |-> after[i].size]
      <3>3. Sizes(after) = f BY <3>1 DEF Sizes
      <3>4. f \in [1..k -> Nat] BY <3>2
      <3> HIDE DEF f, k
      <3>5. f \in Seq(Nat) BY <3>1, <3>4, NatSeq
      <3> QED BY <3>3, <3>5, TotalIs
    <2>9. bare \in Message /\ bare.facts = m.facts
      <3>1. m.role \in Role /\ m.size \in Nat BY <2>5 DEF Message
      <3>2. m = [role |-> m.role, size |-> m.size, facts |-> m.facts, note |-> m.note]
        BY <2>5 DEF Message
      <3>3. bare = [role |-> m.role, size |-> m.size, facts |-> m.facts, note |-> NoNote]
        BY <3>2 DEF Bare
      <3> HIDE DEF bare, m
      <3> QED BY <2>6, <3>1, <3>3 DEF Message
    <2>10. whole = first \o <<m>> /\ first \in Seq(Message) /\ <<m>> \in Seq(Message)
      BY <2>2, FirstMore
    <2>11. whole \o after = a
      <3>1. at \in 0..Len(a) BY <2>1, <2>2
      <3> QED BY <3>1, Split
    <2> HIDE DEF bare, m, first, whole, after
    <2>12. whole \in Seq(Message) BY <2>10
    <2>13. <<bare>> \in Seq(Message) BY <2>9
    <2>14. b = first \o <<bare>> BY <2>3, <2>9, <2>10, AppendIsConcat
    <2>15. Facts(whole) = Facts(first) \o Facts(<<m>>) BY <2>10, FactsConcat
    <2>16. Facts(first \o <<bare>>) = Facts(first) \o Facts(<<bare>>)
      BY <2>10, <2>13, FactsConcat
    <2>17. Facts(<<m>>) = m.facts /\ Facts(<<bare>>) = m.facts BY <2>5, <2>9, FactsOne
    <2>18. Facts(b) = Facts(whole) BY <2>14, <2>15, <2>16, <2>17
    <2>19. b \in Seq(Message) BY <2>10, <2>13, <2>14, ConcatIs
    <2>20. Facts(whole \o after) = Facts(whole) \o Facts(after) BY <2>7, <2>12, FactsConcat
    <2>21. Facts(a) = Facts(b) \o Facts(after) BY <2>11, <2>18, <2>20
    <2>22. Facts(b) \in Seq(Fact) BY <2>19, FactsIs
    <2> DEFINE x == m.note.of
               y == Facts(after)
               z == Facts(b)
    <2>23. x \in Seq(Fact) /\ y \in Seq(Fact) /\ z \in Seq(Fact) BY <2>6, <2>7, <2>22
    <2>24. Facts(a) = z \o y /\ n.of = x \o y BY <2>4, <2>21
    <2>25. n \in Note
      <3> DEFINE p == m.note.size + Total(Sizes(after))
                 q == x \o y
      <3>1. p \in Nat BY <2>6, <2>8
      <3>2. q \in Seq(Fact) BY <2>23, ConcatIs
      <3>3. n = [size |-> p, of |-> q] BY <2>4
      <3> HIDE DEF p, q
      <3> QED BY <3>1, <3>2, <3>3 DEF Note
    <2>26. FactsOf(n) = n.of /\ n.of \in Seq(Fact) BY <2>25, WindowAssumption DEF FactsOf, Note
    <2> HIDE DEF x, y, z
    <2>27. ToSet(z \o y) = ToSet(z) \cup ToSet(y) /\ ToSet(x \o y) = ToSet(x) \cup ToSet(y)
      BY <2>23, SetOf
    <2>28. ToSet(Facts(a)) \subseteq ToSet(z) \cup ToSet(FactsOf(n)) BY <2>24, <2>26, <2>27
    <2>29. ToSet(Facts(a)) \subseteq ToSet(Facts(b)) \cup ToSet(FactsOf(n)) BY <2>28 DEF z
    <2> QED BY <1>1, <2>19, <2>22, <2>25, <2>26, <2>29 DEF b, n
  <1> QED BY <1>2, <1>3

\* The system turn with a note applied: one system message, what the base
\* stated, and the note.
LEMMA ApplyNoteIs ==
  ASSUME NEW a \in Seq(Message), NEW note \in Note
  PROVE  LET w == ApplyNote(a, note)
         IN /\ Opening(w) /\ Facts(w) = Facts(SplitNote(a).base)
            /\ FactsOf(SplitNote(w).note) = note.of
  <1> DEFINE b == SplitNote(a).base
             t == Total(Sizes(b))
             size == IF t = 0 THEN DefaultSystem ELSE t
             m == [role |-> "system", facts |-> Facts(b), note |-> note, size |-> size]
             w == <<m>>
  <1>1. ApplyNote(a, note) = w BY DEF ApplyNote
  <1>2. b \in Seq(Message) /\ Facts(b) \in Seq(Fact) BY SplitNoteIs
  <1> HIDE DEF b
  <1>3. t \in Nat
    <2> DEFINE k == Len(b)
    <2>1. k \in Nat /\ DOMAIN b = 1..k BY <1>2
    <2>2. ASSUME NEW i \in 1..k PROVE b[i].size \in Nat
      <3>1. b[i] \in Message BY <1>2
      <3> QED BY <3>1 DEF Message
    <2> DEFINE f == [i \in 1..k |-> b[i].size]
    <2>3. Sizes(b) = f BY <2>1 DEF Sizes
    <2>4. f \in [1..k -> Nat] BY <2>2
    <2> HIDE DEF f, k
    <2>5. f \in Seq(Nat) BY <2>1, <2>4, NatSeq
    <2> QED BY <2>3, <2>5, TotalIs
  <1> HIDE DEF t
  <1>4. size \in Nat BY <1>3, WindowAssumption
  <1> HIDE DEF size
  <1>5. m \in Message /\ m.role = "system" /\ m.facts = Facts(b) /\ m.note = note
    <2> DEFINE x == Facts(b)
    <2>1. x \in Seq(Fact) BY <1>2
    <2> HIDE DEF x
    <2> DEFINE N == Note \cup {NoNote}
               r == "system"
    <2>4. r \in Role /\ note \in N BY WindowAssumption DEF NOT_UNIT_START, SYSTEM_ROLES
    <2>5. Message = [role : Role, size : Nat, facts : Seq(Fact), note : N] BY DEF Message
    <2> HIDE DEF N, r
    <2>6. [role |-> r, size |-> size, facts |-> x, note |-> note] \in Message
      BY <1>4, <2>1, <2>4, <2>5
    <2>2. [role |-> "system", size |-> size, facts |-> x, note |-> note] \in Message
      BY <2>6 DEF r
    <2>3. m = [role |-> "system", size |-> size, facts |-> x, note |-> note] BY DEF x
    <2> QED BY <2>2, <2>3 DEF x
  <1> HIDE DEF m
  <1>6. w \in Seq(Message) /\ Len(w) = 1 /\ w[1] = m BY <1>5
  <1>7. Opening(w)
    <2>1. \A i \in 1..Len(w) : w[i].role \in SYSTEM_ROLES BY <1>5, <1>6 DEF SYSTEM_ROLES
    <2> QED BY <1>6, <2>1 DEF Opening
  <1>8. Facts(w) = Facts(b) BY <1>5, FactsOne
  <1>9. note # NoNote BY WindowAssumption
  <1>10. Marked(w) = {1} BY <1>5, <1>6, <1>9 DEF Marked
  <1>11. Max({1}) = 1
    <2>1. \A y \in {1} : y <= 1 OBVIOUS
    <2> QED BY <2>1, MaxIs
  <1> HIDE DEF w
  <1>12. From(w, 1) = <<>>
    <2> DEFINE v == From(w, 1)
    <2>1. 1 \in 0..Len(w) BY <1>6
    <2>2. v \in Seq(Message) /\ Len(v) = Len(w) - 1 BY <1>6, <2>1, FromIs
    <2> HIDE DEF v
    <2>3. v = <<>> BY <1>6, <2>2
    <2> QED BY <2>3 DEF v
  <1>13. SplitNote(w).note = [size |-> note.size + Total(Sizes(<<>>)), of |-> note.of \o Facts(<<>>)]
    BY <1>5, <1>6, <1>10, <1>11, <1>12 DEF SplitNote
  <1>14. note.of \in Seq(Fact) /\ note.size \in Nat BY DEF Note
  <1>15. note.of \o <<>> = note.of BY <1>14, ConcatEmptySeq
  <1>16. SplitNote(w).note = [size |-> note.size + Total(Sizes(<<>>)), of |-> note.of]
    BY <1>13, <1>15, FactsNothing
  <1>17. SplitNote(w).note # NoNote
    <2>1. Sizes(<<>>) = <<>> BY DEF Sizes
    <2>2. note.size + Total(Sizes(<<>>)) \in Nat BY <1>14, <2>1, TotalNothing
    <2>3. SplitNote(w).note \in Note BY <1>14, <1>16, <2>2 DEF Note
    <2> QED BY <2>3, WindowAssumption
  <1>18. FactsOf(SplitNote(w).note) = note.of BY <1>16, <1>17 DEF FactsOf
  <1> QED BY <1>1, <1>7, <1>8, <1>18 DEF b

-----------------------------------------------------------------------------
(***************************************************************************)
(* What a handler holds.                                                   *)
(***************************************************************************)
Where == {"idle", "fitted", "asking", "summarised", "noted", "answered"}
Held == [at : Where, msgs : Seq(Message), budget : Int, cut : Nat, fits : BOOLEAN,
         note : Note \cup {NoNote}, covered : Nat, prompt : Seq(Message), dropped : Nat]

\* Two of these agree but for where they are and what they have come to.
SameRequest(q, r) ==
  q.msgs = r.msgs /\ q.budget = r.budget /\ q.cut = r.cut /\ (q.fits <=> r.fits)

\* A handler that has nothing to do.
LEMMA IdleIs ==
  Idle \in Held /\ Idle.note = NoNote /\ Idle.covered = 0 /\ Idle.at = "idle"
    /\ Idle.msgs = <<>> /\ Idle.cut = 0
  <1>1. <<>> \in Seq(Message) OBVIOUS
  <1> QED BY <1>1 DEF Idle, Held, Where

\* The note the client's own system turn carries.
CarriedBy(msgs) == SplitNote(System(msgs)).note

\* The note stands for that note and the first n turns behind it.
StandsFor(note, msgs, n) ==
  /\ note \in Note
  /\ note.of = FactsOf(CarriedBy(msgs)) \o Facts(SubSeq(Turns(msgs), 1, n))

\* What is sent fits if it can, is the conversation's tail behind a system
\* turn, and loses nothing of the system turn; and its note is its own.
Sound(r) ==
  /\ r.fits => Tokens(r.prompt) <= r.budget
  /\ r.dropped \in Admissible(r.msgs)
  /\ Turns(r.prompt) = From(Turns(r.msgs), r.dropped)
  /\ ToSet(Facts(System(r.msgs)) \o FactsOf(CarriedBy(r.msgs)))
       \subseteq ToSet(Facts(System(r.prompt)) \o FactsOf(CarriedBy(r.prompt)))
Own(r) ==
  \E n \in 0..r.cut :
    FactsOf(CarriedBy(r.prompt))
      = FactsOf(CarriedBy(r.msgs)) \o Facts(SubSeq(Turns(r.msgs), 1, n))

Working == {"fitted", "asking", "summarised", "noted"}

HandlerInv(r) ==
  /\ r \in Held /\ r.covered \in 0..r.cut /\ r.cut \in Admissible(r.msgs)
  /\ r.at # "idle" => Best(r.msgs, r.budget, r.cut, r.fits)
  /\ r.at \in Working => r.fits /\ r.cut > 0
  /\ r.at = "asking" => \/ r.note = NoNote /\ r.covered = 0
                        \/ StandsFor(r.note, r.msgs, r.covered)
  /\ r.at = "summarised" => StandsFor(r.note, r.msgs, r.cut)
  /\ r.at = "noted" => \E n \in 0..r.cut : StandsFor(r.note, r.msgs, n)
  /\ r.at = "answered" => Sound(r) /\ Own(r)

SlotInv ==
  \/ slot = EmptySlot
  \/ /\ slot \in [of : Seq(Message), carried : Note \cup {NoNote}, note : Note]
     /\ slot.of # <<>>
     /\ slot.note.of = FactsOf(slot.carried) \o Facts(slot.of)

WindowInv ==
  /\ history \in [Conversation -> Seq(Message)]
  /\ requests \in 0..MaxRequests
  /\ DOMAIN handler = Handler
  /\ \A h \in Handler : HandlerInv(handler[h])
  /\ SlotInv

\* A note belongs to no one without one.
LEMMA ANoteIs ==
  ASSUME NEW n \in Note
  PROVE  n # NoNote /\ FactsOf(n) = n.of /\ n.of \in Seq(Fact)
  BY WindowAssumption DEF FactsOf, Note

\* What a handler sends when it sends its first fit.
LEMMA PlainHolds ==
  ASSUME NEW r \in Held, r.covered \in 0..r.cut, Best(r.msgs, r.budget, r.cut, r.fits)
  PROVE  HandlerInv(Plain(r))
  <1> DEFINE k == Kept(r.msgs, r.cut)
             q == Plain(r)
             m == r.msgs
             x == FactsOf(CarriedBy(m))
  <1>1. m \in Seq(Message) /\ r.cut \in Nat BY DEF Held
  <1>2. r.cut \in Admissible(m) BY DEF Best
  <1>3. /\ k \in Seq(Message) /\ System(k) = System(m)
        /\ Turns(k) = From(Turns(m), r.cut)
    BY <1>1, <1>2, KeptIs
  <1>4. r.fits => Tokens(k) <= r.budget BY DEF Best, Fitting
  <1> HIDE DEF k
  <1>5. /\ q \in Held /\ SameRequest(q, r) /\ q.at = "answered"
        /\ q.prompt = k /\ q.dropped = r.cut /\ q.covered = r.covered
    <2> DEFINE c == r.cut
               p == [r EXCEPT !.at = "answered", !.prompt = k, !.dropped = c]
    <2>1. q = p BY DEF Plain, k
    <2>2. k \in Seq(Message) /\ c \in Nat BY <1>1, <1>3
    <2> HIDE DEF q, c
    <2>3. /\ p \in Held /\ SameRequest(p, r) /\ p.at = "answered"
          /\ p.prompt = k /\ p.dropped = c /\ p.covered = r.covered
      BY <2>2 DEF Held, SameRequest, Where
    <2> HIDE DEF p
    <2> QED BY <2>1, <2>3 DEF c
  <1>6. q.msgs = m /\ q.budget = r.budget /\ q.cut = r.cut /\ (q.fits <=> r.fits)
    BY <1>5 DEF SameRequest
  <1> HIDE DEF q
  <1>7. Best(q.msgs, q.budget, q.cut, q.fits)
    <2>1. q.fits \in BOOLEAN BY <1>5 DEF Held
    <2> QED BY <1>6, <2>1 DEF Best
  <1>8. CarriedBy(k) = CarriedBy(m) BY <1>3 DEF CarriedBy
  <1>9. Sound(q) BY <1>2, <1>3, <1>4, <1>5, <1>6, <1>8 DEF Sound
  <1>10. Own(q)
    <2>1. x \in Seq(Fact)
      <3>1. System(m) \in Seq(Message) BY <1>1, Parts DEF Opening
      <3> QED BY <3>1, SplitNoteIs DEF CarriedBy
    <2>2. SubSeq(Turns(m), 1, 0) = <<>> OBVIOUS
    <2> HIDE DEF x
    <2>3. x \o <<>> = x BY <2>1, ConcatEmptySeq
    <2>4. x = x \o Facts(SubSeq(Turns(m), 1, 0)) BY <2>2, <2>3, FactsNothing
    <2>5. 0 \in 0..q.cut BY <1>1, <1>6
    <2>6. FactsOf(CarriedBy(q.prompt)) = FactsOf(CarriedBy(q.msgs)) \o Facts(SubSeq(Turns(q.msgs), 1, 0))
      BY <1>5, <1>6, <1>8, <2>4 DEF x
    <2> QED BY <2>5, <2>6 DEF Own
  <1> QED BY <1>2, <1>5, <1>6, <1>7, <1>9, <1>10 DEF HandlerInv, Working, q

\* A cut is a number of turns.
LEMMA CutIs ==
  ASSUME NEW s \in Seq(Message), NEW n \in Admissible(s)
  PROVE  /\ Turns(s) \in Seq(Message) /\ Len(Turns(s)) \in Nat
         /\ n \in Nat /\ n \in 0..Len(Turns(s))
  <1>1. Turns(s) \in Seq(Message) BY Parts DEF Following
  <1>2. n \in 0..Len(Turns(s)) BY AdmissibleIs
  <1>3. Len(Turns(s)) \in Nat BY <1>1
  <1> QED BY <1>1, <1>2, <1>3

\* What the client's own note stands for.
LEMMA CarriedIs ==
  ASSUME NEW m \in Seq(Message)
  PROVE  CarriedBy(m) \in Note \cup {NoNote} /\ FactsOf(CarriedBy(m)) \in Seq(Fact)
  <1>1. System(m) \in Seq(Message) BY Parts DEF Opening
  <1> QED BY <1>1, SplitNoteIs DEF CarriedBy

\* A request that has come in.
LEMMA ReceiveHolds ==
  ASSUME NEW m \in Seq(Message), NEW b \in Int
  PROVE  LET fit == Fit(m, b)
             r == [Idle EXCEPT !.at = "fitted", !.msgs = m, !.budget = b,
                               !.cut = fit.cut, !.fits = fit.fits]
         IN HandlerInv(IF fit.fits /\ fit.cut > 0 THEN r ELSE Plain(r))
  <1> DEFINE c == Fit(m, b).cut
             f == Fit(m, b).fits
             q == [Idle EXCEPT !.at = "fitted", !.msgs = m, !.budget = b, !.cut = c, !.fits = f]
  <1>1. Best(m, b, c, f) BY FitIs
  <1>2. c \in Admissible(m) /\ f \in BOOLEAN BY <1>1 DEF Best
  <1> HIDE DEF c, f
  <1>3. c \in Nat BY <1>2, CutIs
  <1>4. /\ q \in Held /\ q.msgs = m /\ q.budget = b /\ q.cut = c /\ (q.fits <=> f)
        /\ q.at = "fitted" /\ q.note = NoNote /\ q.covered = 0
    BY <1>2, <1>3, IdleIs DEF Held, Where
  <1> HIDE DEF q
  <1>5. q.fits \in BOOLEAN BY <1>4 DEF Held
  <1>6. Best(q.msgs, q.budget, q.cut, q.fits) BY <1>1, <1>4, <1>5 DEF Best
  <1>7. q.covered \in 0..q.cut BY <1>3, <1>4
  <1>8. CASE f /\ c > 0
    <2>1. HandlerInv(q) BY <1>2, <1>4, <1>6, <1>7, <1>8 DEF HandlerInv, Working
    <2> QED BY <1>8, <2>1 DEF q, c, f
  <1>9. CASE ~(f /\ c > 0)
    <2>1. HandlerInv(Plain(q)) BY <1>4, <1>6, <1>7, PlainHolds
    <2> QED BY <1>9, <2>1 DEF q, c, f
  <1> QED BY <1>8, <1>9

\* A handler that goes on with the same request and a note that is true.
LEMMA GoesOn ==
  ASSUME NEW r, HandlerInv(r), r.at \in Working,
         NEW q \in Held, SameRequest(q, r), q.covered \in 0..r.cut,
         \/ /\ q.at = "asking"
            /\ \/ q.note = NoNote /\ q.covered = 0
               \/ StandsFor(q.note, r.msgs, q.covered)
         \/ q.at = "summarised" /\ StandsFor(q.note, r.msgs, r.cut)
         \/ q.at = "noted" /\ \E n \in 0..r.cut : StandsFor(q.note, r.msgs, n)
  PROVE  HandlerInv(q)
  <1>1. q.msgs = r.msgs /\ q.budget = r.budget /\ q.cut = r.cut /\ (q.fits <=> r.fits)
    BY DEF SameRequest
  <1>2. r.at # "idle" BY DEF Working
  <1>3. q.fits \in BOOLEAN BY DEF Held
  <1>4. Best(q.msgs, q.budget, q.cut, q.fits) BY <1>1, <1>2, <1>3 DEF HandlerInv, Best
  <1> QED BY <1>1, <1>4 DEF HandlerInv, Working

\* A summary of what its prior does not cover stands for all that goes.
LEMMA SummaryStands ==
  ASSUME NEW m \in Seq(Message), NEW cut \in Admissible(m), NEW c \in 0..cut,
         NEW note, NEW size \in Nat,
         (note = NoNote /\ c = 0) \/ StandsFor(note, m, c)
  PROVE  LET prior == IF note # NoNote THEN note ELSE CarriedBy(m)
         IN StandsFor(Summary(prior, From(SubSeq(Turns(m), 1, cut), c), size), m, cut)
  <1> DEFINE T == Turns(m)
             G == SubSeq(T, 1, cut)
             x == FactsOf(CarriedBy(m))
             y == Facts(SubSeq(T, 1, c))
             z == Facts(From(G, c))
             prior == IF note # NoNote THEN note ELSE CarriedBy(m)
             p == FactsOf(prior)
  <1>1. T \in Seq(Message) /\ Len(T) \in Nat /\ cut \in Nat /\ cut \in 0..Len(T) BY CutIs
  <1>2. x \in Seq(Fact) BY CarriedIs
  <1>3. p = x \o y
    <2>1. CASE note = NoNote /\ c = 0
      <3>1. p = x BY <2>1
      <3>2. SubSeq(T, 1, 0) = <<>> OBVIOUS
      <3>3. y = <<>> BY <2>1, <3>2, FactsNothing
      <3> HIDE DEF x, y, p
      <3>4. x \o <<>> = x BY <1>2, ConcatEmptySeq
      <3> QED BY <3>1, <3>3, <3>4
    <2>2. CASE StandsFor(note, m, c)
      <3>1. note \in Note /\ note.of = x \o y BY <2>2 DEF StandsFor
      <3>2. note # NoNote /\ FactsOf(note) = note.of BY <3>1, ANoteIs
      <3> QED BY <3>1, <3>2
    <2> QED BY <2>1, <2>2
  <1> HIDE DEF T, x, p
  <1>4. G \in Seq(Message) /\ Len(G) = cut BY <1>1, FirstIs
  <1>5. SubSeq(G, 1, c) = SubSeq(T, 1, c) BY <1>1, FirstFirst
  <1> HIDE DEF G
  <1>6. c \in 0..Len(G) BY <1>4
  <1>7. /\ SubSeq(G, 1, c) \in Seq(Message) /\ From(G, c) \in Seq(Message)
        /\ SubSeq(G, 1, c) \o From(G, c) = G
    BY <1>4, <1>6, FirstIs, FromIs, Split
  <1>8. Facts(G) = y \o z
    <2>1. Facts(SubSeq(G, 1, c) \o From(G, c)) = Facts(SubSeq(G, 1, c)) \o Facts(From(G, c))
      BY <1>7, FactsConcat
    <2> QED BY <1>5, <1>7, <2>1
  <1>9. y \in Seq(Fact) /\ z \in Seq(Fact) BY <1>5, <1>7, FactsIs
  <1> HIDE DEF y, z
  <1>10. (x \o y) \o z = x \o (y \o z) BY <1>2, <1>9, ConcatAssociative, SMTT(20)
  <1> DEFINE s == Summary(prior, From(G, c), size)
             w == p \o z
  <1>11. s = [size |-> size, of |-> w] BY DEF Summary, z, p
  <1>12. w \in Seq(Fact)
    <2>1. x \o y \in Seq(Fact) BY <1>2, <1>9, ConcatIs
    <2> DEFINE v == x \o y
    <2>2. v \in Seq(Fact) /\ w = v \o z BY <1>3, <2>1
    <2> HIDE DEF v, w
    <2>3. v \o z \in Seq(Fact) BY <1>9, <2>2, ConcatIs
    <2> QED BY <2>2, <2>3
  <1>13. w = x \o Facts(G) BY <1>3, <1>8, <1>10
  <1> HIDE DEF w, s
  <1>14. s \in Note /\ s.of = w BY <1>11, <1>12 DEF Note
  <1>15. StandsFor(s, m, cut) BY <1>13, <1>14 DEF StandsFor, x, G, T
  <1> QED BY <1>15 DEF s, prior, G, T

\* A cut behind an admissible one.
LEMMA AdmissibleMore ==
  ASSUME NEW m \in Seq(Message), NEW n \in Admissible(m),
         NEW w \in Seq(Message), Turns(w) = From(Turns(m), n), NEW k \in Admissible(w)
  PROVE  n + k \in Admissible(m) /\ From(Turns(w), k) = From(Turns(m), n + k)
  <1> DEFINE b == Turns(m)
             c == Turns(w)
             A == Admissible(m)
  <1>1. b \in Seq(Message) /\ Len(b) \in Nat /\ n \in Nat /\ n \in 0..Len(b) BY CutIs
  <1>2. c \in Seq(Message) /\ Len(c) \in Nat /\ k \in Nat /\ k \in 0..Len(c) BY CutIs
  <1>3. A = {0} \cup {i \in 1..(Len(b) - 1) : b[i + 1].role \notin NOT_UNIT_START}
    BY DEF Admissible
  <1>4. Admissible(w) = {0} \cup {i \in 1..(Len(c) - 1) : c[i + 1].role \notin NOT_UNIT_START}
    BY DEF Admissible
  <1>5. c = From(b, n) OBVIOUS
  <1> HIDE DEF b, c, A
  <1>6. Len(c) = Len(b) - n /\ \A i \in 1..(Len(b) - n) : c[i] = b[n + i]
    BY <1>1, <1>5, FromIs
  <1>7. From(c, k) = From(b, n + k)
    <2>1. k \in 0..(Len(b) - n) BY <1>2, <1>6
    <2> QED BY <1>1, <1>5, <2>1, FromFrom
  <1>8. n + k \in A
    <2>1. CASE k = 0
      <3>1. n + k = n BY <1>1, <2>1
      <3> QED BY <3>1 DEF A
    <2>2. CASE k # 0
      <3>1. k \in 1..(Len(c) - 1) /\ c[k + 1].role \notin NOT_UNIT_START BY <1>4, <2>2
      <3>2. /\ k + 1 \in 1..(Len(b) - n) /\ n + (k + 1) = (n + k) + 1
            /\ n + k \in 1..(Len(b) - 1)
        BY <1>1, <1>2, <1>6, <3>1
      <3>3. c[k + 1] = b[(n + k) + 1] BY <1>6, <3>2
      <3> QED BY <1>3, <3>1, <3>2, <3>3
    <2> QED BY <2>1, <2>2
  <1> QED BY <1>7, <1>8 DEF b, c, A

\* The note in the system turn, and what is kept fitted again.
LEMMA AssembleHolds ==
  ASSUME NEW r, HandlerInv(r), r.at = "noted"
  PROVE  LET merged == ApplyNote(System(r.msgs), r.note) \o From(Turns(r.msgs), r.cut)
             fit == Fit(merged, r.budget)
         IN HandlerInv(IF fit.fits
                       THEN [r EXCEPT !.at = "answered", !.prompt = Kept(merged, fit.cut),
                                      !.dropped = r.cut + fit.cut]
                       ELSE Plain(r))
  <1> DEFINE m == r.msgs
             n == r.cut
             a == ApplyNote(System(m), r.note)
             c == From(Turns(m), n)
             w == a \o c
             j == Fit(w, r.budget).cut
             f == Fit(w, r.budget).fits
             k == Kept(w, j)
             d == n + j
             q == [r EXCEPT !.at = "answered", !.prompt = k, !.dropped = d]
             base == SplitNote(System(m)).base
             x == FactsOf(CarriedBy(m))
             told == Facts(System(m))
  <1>1. /\ r \in Held /\ m \in Seq(Message) /\ n \in Nat /\ r.budget \in Int
        /\ n \in Admissible(m) /\ r.covered \in 0..n /\ Best(m, r.budget, n, r.fits)
    BY DEF HandlerInv, Held
  <1>2. PICK i \in 0..n : StandsFor(r.note, m, i) BY DEF HandlerInv
  <1> DEFINE y == Facts(SubSeq(Turns(m), 1, i))
  <1>3. r.note \in Note /\ r.note.of = x \o y BY <1>2 DEF StandsFor
  <1>4. x \in Seq(Fact) /\ y \in Seq(Fact)
    <2>1. x \in Seq(Fact) BY <1>1, CarriedIs
    <2>2. Turns(m) \in Seq(Message) /\ i \in 0..Len(Turns(m)) BY <1>1, CutIs
    <2>3. SubSeq(Turns(m), 1, i) \in Seq(Message) BY <2>2, FirstIs
    <2> QED BY <2>1, <2>3, FactsIs
  <1>5. System(m) \in Seq(Message) BY <1>1, Parts DEF Opening
  <1>6. Opening(a) /\ Facts(a) = Facts(base) /\ FactsOf(SplitNote(a).note) = r.note.of
    BY <1>3, <1>5, ApplyNoteIs
  <1>7. /\ told \in Seq(Fact) /\ Facts(base) \in Seq(Fact)
        /\ ToSet(told) \subseteq ToSet(Facts(base)) \cup ToSet(x)
    BY <1>5, SplitNoteIs DEF CarriedBy
  <1>8. Following(c) BY <1>1, KeptIs
  <1> HIDE DEF a, base, x, y, told
  <1>9. w \in Seq(Message) /\ System(w) = a /\ Turns(w) = c BY <1>6, <1>8, Joined
  <1> HIDE DEF w
  <1>10. Best(w, r.budget, j, f) BY <1>1, <1>9, FitIs
  <1>11. j \in Admissible(w) /\ f \in BOOLEAN BY <1>10 DEF Best
  <1>12. f => Tokens(k) <= r.budget BY <1>10 DEF Best, Fitting
  <1> HIDE DEF j, f
  <1>13. d \in Admissible(m) /\ From(Turns(w), j) = From(Turns(m), d)
    BY <1>1, <1>9, <1>11, AdmissibleMore
  <1>14. k \in Seq(Message) /\ System(k) = a /\ Turns(k) = From(Turns(m), d)
    BY <1>9, <1>11, <1>13, KeptIs
  <1> HIDE DEF k, d
  <1>15. CASE f
    <2>1. d \in Nat BY <1>1, <1>13, CutIs
    <2>2. /\ q \in Held /\ SameRequest(q, r) /\ q.at = "answered"
          /\ q.prompt = k /\ q.dropped = d /\ q.covered = r.covered
      BY <1>1, <1>14, <2>1 DEF Held, SameRequest, Where
    <2> HIDE DEF q
    <2>3. q.msgs = m /\ q.budget = r.budget /\ q.cut = n /\ (q.fits <=> r.fits)
      BY <2>2 DEF SameRequest
    <2>4. Best(q.msgs, q.budget, q.cut, q.fits)
      <3>1. q.fits \in BOOLEAN BY <2>2 DEF Held
      <3> QED BY <1>1, <2>3, <3>1 DEF Best
    <2>5. FactsOf(CarriedBy(k)) = x \o y BY <1>3, <1>6, <1>14 DEF CarriedBy
    <2>6. Facts(System(k)) = Facts(base) BY <1>6, <1>14
    <2>7. ToSet(told \o x) \subseteq ToSet(Facts(System(k)) \o FactsOf(CarriedBy(k)))
      <3> DEFINE u == Facts(base)
                 v == x \o y
      <3>1. u \in Seq(Fact) /\ ToSet(told) \subseteq ToSet(u) \cup ToSet(x) BY <1>7
      <3>2. v \in Seq(Fact) BY <1>4, ConcatIs
      <3>3. ToSet(v) = ToSet(x) \cup ToSet(y) BY <1>4, SetOf
      <3>4. Facts(System(k)) \o FactsOf(CarriedBy(k)) = u \o v BY <2>5, <2>6
      <3> HIDE DEF u, v
      <3>5. ToSet(u \o v) = ToSet(u) \cup ToSet(v) BY <3>1, <3>2, SetOf
      <3>6. ToSet(told \o x) = ToSet(told) \cup ToSet(x) BY <1>4, <1>7, SetOf
      <3> QED BY <3>1, <3>3, <3>4, <3>5, <3>6
    <2>8. Sound(q) BY <1>12, <1>13, <1>14, <1>15, <2>2, <2>3, <2>7 DEF Sound, told, x
    <2>9. Own(q)
      <3>1. FactsOf(CarriedBy(q.prompt))
              = FactsOf(CarriedBy(q.msgs)) \o Facts(SubSeq(Turns(q.msgs), 1, i))
        BY <2>2, <2>3, <2>5 DEF x, y
      <3> QED BY <2>3, <3>1 DEF Own
    <2>10. q.covered \in 0..q.cut /\ q.cut \in Admissible(q.msgs) BY <1>1, <2>2, <2>3
    <2>11. HandlerInv(q) BY <2>2, <2>4, <2>8, <2>9, <2>10 DEF HandlerInv, Working
    <2> QED BY <1>15, <2>11 DEF q, k, d, j, f, w, a
  <1>16. CASE ~f
    <2>1. HandlerInv(Plain(r)) BY <1>1, PlainHolds
    <2> QED BY <1>16, <2>1 DEF f, w, a
  <1> QED BY <1>15, <1>16

-----------------------------------------------------------------------------
(***************************************************************************)
(* The invariant.                                                          *)
(***************************************************************************)
\* It holds at first: nobody has asked, and nothing is stored.
LEMMA InitWindow ==
  Init => WindowInv
  <1> SUFFICES ASSUME Init PROVE WindowInv OBVIOUS
  <1>1. history \in [Conversation -> Seq(Message)]
    <2>1. history \in [Conversation -> Script] BY DEF Init
    <2>2. Script \subseteq Seq(Message) BY WindowAssumption
    <2> QED BY <2>1, <2>2
  <1>2. requests \in 0..MaxRequests BY WindowAssumption DEF Init
  <1>3. DOMAIN handler = Handler BY DEF Init
  <1>4. HandlerInv(Idle)
    <2>1. <<>> \in Seq(Message) OBVIOUS
    <2>2. Idle.cut \in Admissible(Idle.msgs) BY <2>1, AdmissibleIs, IdleIs
    <2> QED BY <2>2, IdleIs DEF HandlerInv, Working
  <1>5. \A h \in Handler : HandlerInv(handler[h]) BY <1>4 DEF Init
  <1>6. SlotInv BY DEF Init, SlotInv
  <1> QED BY <1>1, <1>2, <1>3, <1>5, <1>6 DEF WindowInv

\* A step of one handler keeps it when what the handler then holds is right.
LEMMA HandlerStep ==
  ASSUME WindowInv, NEW h \in Handler, NEW r, HandlerInv(r), Goes(h, r)
  PROVE  DOMAIN handler' = Handler /\ \A g \in Handler : HandlerInv(handler'[g])
  <1>1. handler' = [handler EXCEPT ![h] = r] BY DEF Goes
  <1>2. DOMAIN handler = Handler BY DEF WindowInv
  <1>3. DOMAIN handler' = Handler BY <1>1, <1>2
  <1>4. handler'[h] = r BY <1>1, <1>2
  <1>5. \A g \in Handler : g # h => handler'[g] = handler[g] BY <1>1, <1>2
  <1>6. \A g \in Handler : HandlerInv(handler[g]) BY DEF WindowInv
  <1> QED BY <1>3, <1>4, <1>5, <1>6

\* What is stored stays as it is when nobody writes to it.
LEMMA SlotStays ==
  ASSUME SlotInv, UNCHANGED slot
  PROVE  SlotInv'
  BY DEF SlotInv, EmptySlot

\* A request comes in, and is fitted; nobody else is touched.
LEMMA ReceiveKeeps ==
  ASSUME WindowInv, NEW h \in Handler, NEW c \in Conversation, NEW budget \in Budget,
         NEW n \in 1..Len(history[c]), Receive(h, c, n, budget)
  PROVE  WindowInv'
  <1> DEFINE m == SubSeq(history[c], 1, n)
             fit == Fit(m, budget)
             r == [Idle EXCEPT !.at = "fitted", !.msgs = m, !.budget = budget,
                               !.cut = fit.cut, !.fits = fit.fits]
             q == IF fit.fits /\ fit.cut > 0 THEN r ELSE Plain(r)
  <1>1. m \in Seq(Message)
    <2>1. history[c] \in Seq(Message) BY DEF WindowInv
    <2>2. n \in 0..Len(history[c]) BY <2>1
    <2> QED BY <2>1, <2>2, FirstIs
  <1>2. budget \in Int BY WindowAssumption
  <1>3. Goes(h, q) /\ requests < MaxRequests /\ requests' = requests + 1
        /\ UNCHANGED <<history, slot>>
    BY DEF Receive
  <1> HIDE DEF m
  <1>4. HandlerInv(q) BY <1>1, <1>2, ReceiveHolds
  <1> HIDE DEF q
  <1>5. DOMAIN handler' = Handler /\ \A g \in Handler : HandlerInv(handler'[g])
    BY <1>3, <1>4, HandlerStep
  <1>6. requests' \in 0..MaxRequests
    <2>1. requests \in 0..MaxRequests /\ MaxRequests \in Nat
      BY WindowAssumption DEF WindowInv
    <2> QED BY <1>3, <2>1
  <1>7. SlotInv' BY <1>3, SlotStays DEF WindowInv
  <1>8. history' \in [Conversation -> Seq(Message)] BY <1>3 DEF WindowInv
  <1> QED BY <1>5, <1>6, <1>7, <1>8 DEF WindowInv

\* What is stored and is a prefix of what goes stands for a part of it.
LEMMA RecallKeeps ==
  ASSUME WindowInv, NEW h \in Handler, Recall(h)
  PROVE  WindowInv'
  <1> DEFINE r == handler[h]
             T == Turns(r.msgs)
             c == IF Recalls(h) THEN Len(slot.of) ELSE 0
             note == IF Recalls(h) THEN slot.note ELSE NoNote
             at == IF c < r.cut THEN "asking" ELSE "noted"
             q == [r EXCEPT !.at = at, !.note = note, !.covered = c]
  <1>1. HandlerInv(r) /\ r.at = "fitted" BY DEF WindowInv, Recall
  <1>2. Goes(h, q) /\ UNCHANGED <<history, slot, requests>> BY DEF Recall
  <1>3. r \in Held /\ r.msgs \in Seq(Message) /\ r.cut \in Admissible(r.msgs) /\ r.cut > 0
    BY <1>1 DEF HandlerInv, Held, Working
  <1>4. T \in Seq(Message) /\ Len(T) \in Nat /\ r.cut \in Nat /\ r.cut \in 0..Len(T)
    BY <1>3, CutIs
  <1>5. Going(h) = SubSeq(T, 1, r.cut) /\ Carried(h) = CarriedBy(r.msgs)
    BY DEF Going, Evicted, Carried, CarriedBy
  <1> HIDE DEF T, r
  <1>6. c \in 0..r.cut /\ IF Recalls(h) THEN StandsFor(note, r.msgs, c) ELSE c = 0 /\ note = NoNote
    <2>1. CASE Recalls(h)
      <3>1. slot # EmptySlot /\ slot.carried = CarriedBy(r.msgs) /\ IsPrefix(slot.of, Going(h))
        BY <1>5, <2>1 DEF Recalls
      <3>2. /\ slot \in [of : Seq(Message), carried : Note \cup {NoNote}, note : Note]
            /\ slot.note.of = FactsOf(slot.carried) \o Facts(slot.of)
        BY <3>1 DEF WindowInv, SlotInv
      <3>3. slot.of \in Seq(Message) /\ slot.note \in Note BY <3>2
      <3> DEFINE s == slot.of
                 G == SubSeq(T, 1, r.cut)
                 k == Len(s)
      <3>4. G \in Seq(Message) /\ Len(G) = r.cut BY <1>4, FirstIs
      <3>5. k <= Len(G) /\ SubSeq(s, 1, k) = SubSeq(G, 1, k) BY <1>5, <3>1 DEF IsPrefix
      <3>6. k \in 0..r.cut BY <1>4, <3>3, <3>4, <3>5
      <3>7. SubSeq(s, 1, k) = s
        <4> DEFINE u == SubSeq(s, 1, k)
        <4>1. k \in 0..Len(s) BY <3>3
        <4>2. u \in Seq(Message) /\ Len(u) = k /\ \A i \in 1..k : u[i] = s[i]
          BY <3>3, <4>1, FirstIs
        <4> HIDE DEF u
        <4>3. u = s BY <3>3, <4>2, SameSeq
        <4> QED BY <4>3 DEF u
      <3>8. SubSeq(G, 1, k) = SubSeq(T, 1, k) BY <1>4, <3>6, FirstFirst
      <3>9. slot.note.of = FactsOf(CarriedBy(r.msgs)) \o Facts(SubSeq(T, 1, k))
        BY <3>1, <3>2, <3>5, <3>7, <3>8
      <3>10. StandsFor(slot.note, r.msgs, k) BY <3>3, <3>9 DEF StandsFor, T
      <3> QED BY <2>1, <3>6, <3>10
    <2>2. CASE ~Recalls(h) BY <1>4, <2>2
    <2> QED BY <2>1, <2>2
  <1>7. note \in Note \cup {NoNote} BY <1>6 DEF StandsFor
  <1> HIDE DEF c, note
  <1>8. c \in Nat BY <1>4, <1>6
  <1>9. q \in Held /\ SameRequest(q, r) /\ q.at = at /\ q.note = note /\ q.covered = c
    BY <1>3, <1>7, <1>8 DEF Held, SameRequest, Where
  <1> HIDE DEF q
  <1>10. \/ /\ q.at = "asking"
            /\ \/ q.note = NoNote /\ q.covered = 0
               \/ StandsFor(q.note, r.msgs, q.covered)
         \/ q.at = "noted" /\ \E n \in 0..r.cut : StandsFor(q.note, r.msgs, n)
    <2>1. CASE c < r.cut BY <1>6, <1>9, <2>1
    <2>2. CASE ~(c < r.cut)
      <3>1. c # 0 BY <1>3, <1>4, <2>2
      <3> QED BY <1>6, <1>9, <2>2, <3>1
    <2> QED BY <2>1, <2>2
  <1>11. HandlerInv(q)
    <2>1. r.at \in Working /\ q.covered \in 0..r.cut BY <1>1, <1>6, <1>9 DEF Working
    <2> QED BY <1>1, <1>9, <1>10, <2>1, GoesOn
  <1>12. DOMAIN handler' = Handler /\ \A g \in Handler : HandlerInv(handler'[g])
    BY <1>2, <1>11, HandlerStep
  <1>13. SlotInv' BY <1>2, SlotStays DEF WindowInv
  <1> QED BY <1>2, <1>12, <1>13 DEF WindowInv

\* A summary made of a true prior and of what it does not cover is true.
LEMMA SummariseKeeps ==
  ASSUME WindowInv, NEW h \in Handler, Summarise(h)
  PROVE  WindowInv'
  <1> DEFINE r == handler[h]
             prior == IF r.note # NoNote THEN r.note ELSE CarriedBy(r.msgs)
             fresh == From(SubSeq(Turns(r.msgs), 1, r.cut), r.covered)
  <1>1. PICK size \in NoteSizes :
          Goes(h, [r EXCEPT !.at = "summarised", !.note = Summary(Prior(h), Fresh(h), size)])
    BY DEF Summarise
  <1>2. HandlerInv(r) /\ r.at = "asking" /\ UNCHANGED <<history, slot, requests>>
    BY DEF WindowInv, Summarise
  <1>3. Prior(h) = prior /\ Fresh(h) = fresh
    BY DEF Prior, Fresh, Going, Evicted, Carried, CarriedBy
  <1> HIDE DEF r
  <1>4. /\ r \in Held /\ r.msgs \in Seq(Message) /\ r.cut \in Admissible(r.msgs)
        /\ r.covered \in 0..r.cut
        /\ (r.note = NoNote /\ r.covered = 0) \/ StandsFor(r.note, r.msgs, r.covered)
    BY <1>2 DEF HandlerInv, Held
  <1>5. size \in Nat BY WindowAssumption
  <1> DEFINE s == Summary(prior, fresh, size)
             q == [r EXCEPT !.at = "summarised", !.note = s]
  <1>6. StandsFor(s, r.msgs, r.cut) BY <1>4, <1>5, SummaryStands
  <1>7. Goes(h, q) BY <1>1, <1>3
  <1> HIDE DEF s
  <1>8. s \in Note BY <1>6 DEF StandsFor
  <1>9. /\ q \in Held /\ SameRequest(q, r) /\ q.at = "summarised" /\ q.note = s
        /\ q.covered = r.covered
    BY <1>4, <1>8 DEF Held, SameRequest, Where
  <1> HIDE DEF q
  <1>10. HandlerInv(q)
    <2>1. r.at \in Working /\ q.covered \in 0..r.cut BY <1>2, <1>4, <1>9 DEF Working
    <2>2. q.at = "summarised" /\ StandsFor(q.note, r.msgs, r.cut) BY <1>6, <1>9
    <2> QED BY <1>2, <1>9, <2>1, <2>2, GoesOn
  <1>11. DOMAIN handler' = Handler /\ \A g \in Handler : HandlerInv(handler'[g])
    BY <1>7, <1>10, HandlerStep
  <1>12. SlotInv' BY <1>2, SlotStays DEF WindowInv
  <1> QED BY <1>2, <1>11, <1>12 DEF WindowInv

\* Without a summary the note in hand is as true as it was.
LEMMA SummaryFailsKeeps ==
  ASSUME WindowInv, NEW h \in Handler, SummaryFails(h)
  PROVE  WindowInv'
  <1> DEFINE r == handler[h]
             q == [r EXCEPT !.at = "noted"]
  <1>1. HandlerInv(r) /\ r.at = "asking" /\ UNCHANGED <<history, slot, requests>>
    BY DEF WindowInv, SummaryFails
  <1>2. Goes(h, IF r.note = NoNote THEN Plain(r) ELSE q) BY DEF SummaryFails
  <1> HIDE DEF r
  <1>3. /\ r \in Held /\ r.covered \in 0..r.cut
        /\ Best(r.msgs, r.budget, r.cut, r.fits)
        /\ (r.note = NoNote /\ r.covered = 0) \/ StandsFor(r.note, r.msgs, r.covered)
    BY <1>1 DEF HandlerInv
  <1>4. CASE r.note = NoNote
    <2>1. HandlerInv(Plain(r)) BY <1>3, PlainHolds
    <2>2. Goes(h, Plain(r)) BY <1>2, <1>4
    <2>3. DOMAIN handler' = Handler /\ \A g \in Handler : HandlerInv(handler'[g])
      BY <2>1, <2>2, HandlerStep
    <2>4. SlotInv' BY <1>1, SlotStays DEF WindowInv
    <2> QED BY <1>1, <2>3, <2>4 DEF WindowInv
  <1>5. CASE r.note # NoNote
    <2>1. /\ q \in Held /\ SameRequest(q, r) /\ q.at = "noted" /\ q.note = r.note
          /\ q.covered = r.covered
      BY <1>3 DEF Held, SameRequest, Where
    <2>2. Goes(h, q) BY <1>2, <1>5
    <2> HIDE DEF q
    <2>3. r.at \in Working /\ q.covered \in 0..r.cut BY <1>1, <1>3, <2>1 DEF Working
    <2>4. q.at = "noted" /\ \E n \in 0..r.cut : StandsFor(q.note, r.msgs, n)
      BY <1>3, <1>5, <2>1
    <2>5. HandlerInv(q) BY <1>1, <2>1, <2>3, <2>4, GoesOn
    <2>6. DOMAIN handler' = Handler /\ \A g \in Handler : HandlerInv(handler'[g])
      BY <2>2, <2>5, HandlerStep
    <2>7. SlotInv' BY <1>1, SlotStays DEF WindowInv
    <2> QED BY <1>1, <2>6, <2>7 DEF WindowInv
  <1> QED BY <1>4, <1>5

\* What is stored is stored with what it stands for.
LEMMA RememberKeeps ==
  ASSUME WindowInv, NEW h \in Handler, Remember(h)
  PROVE  WindowInv'
  <1> DEFINE r == handler[h]
             q == [r EXCEPT !.at = "noted"]
             T == Turns(r.msgs)
             G == SubSeq(T, 1, r.cut)
             x == CarriedBy(r.msgs)
  <1>1. /\ HandlerInv(r) /\ r.at = "summarised" /\ UNCHANGED <<history, requests>>
        /\ Goes(h, q)
    BY DEF WindowInv, Remember
  <1>2. slot' = [of |-> G, carried |-> x, note |-> r.note]
    BY DEF Remember, Going, Evicted, Carried, CarriedBy
  <1> HIDE DEF r
  <1>3. /\ r \in Held /\ r.msgs \in Seq(Message) /\ r.cut \in Admissible(r.msgs)
        /\ r.covered \in 0..r.cut /\ r.cut > 0 /\ StandsFor(r.note, r.msgs, r.cut)
    BY <1>1 DEF HandlerInv, Held, Working
  <1>4. r.note \in Note /\ r.note.of = FactsOf(x) \o Facts(G) BY <1>3 DEF StandsFor
  <1>5. T \in Seq(Message) /\ r.cut \in Nat /\ r.cut \in 0..Len(T) BY <1>3, CutIs
  <1>6. x \in Note \cup {NoNote} BY <1>3, CarriedIs
  <1> HIDE DEF T, x
  <1>7. G \in Seq(Message) /\ Len(G) = r.cut BY <1>5, FirstIs
  <1>8. /\ q \in Held /\ SameRequest(q, r) /\ q.at = "noted" /\ q.note = r.note
        /\ q.covered = r.covered
    BY <1>3 DEF Held, SameRequest, Where
  <1> HIDE DEF q, G
  <1>9. G # <<>> BY <1>3, <1>7
  <1>10. SlotInv'
    <2> DEFINE note == r.note
               s == [of |-> G, carried |-> x, note |-> note]
    <2>1. note \in Note /\ note.of = FactsOf(x) \o Facts(G) BY <1>4
    <2> HIDE DEF note
    <2>2. /\ s \in [of : Seq(Message), carried : Note \cup {NoNote}, note : Note]
          /\ s.of = G /\ s.carried = x /\ s.note = note
      BY <1>6, <1>7, <2>1
    <2>3. slot' = s BY <1>2 DEF note
    <2> HIDE DEF s
    <2>4. /\ slot' \in [of : Seq(Message), carried : Note \cup {NoNote}, note : Note]
          /\ slot'.of # <<>>
          /\ slot'.note.of = FactsOf(slot'.carried) \o Facts(slot'.of)
      BY <1>9, <2>1, <2>2, <2>3
    <2> QED BY <2>4 DEF SlotInv
  <1>11. HandlerInv(q)
    <2>1. r.at \in Working /\ q.covered \in 0..r.cut BY <1>1, <1>3, <1>8 DEF Working
    <2>2. q.at = "noted" /\ \E n \in 0..r.cut : StandsFor(q.note, r.msgs, n)
      <3>1. r.cut \in 0..r.cut BY <1>5
      <3> QED BY <1>3, <1>8, <3>1
    <2> QED BY <1>1, <1>8, <2>1, <2>2, GoesOn
  <1>12. DOMAIN handler' = Handler /\ \A g \in Handler : HandlerInv(handler'[g])
    BY <1>1, <1>11, HandlerStep
  <1> QED BY <1>1, <1>10, <1>12 DEF WindowInv

\* The note in hand joins the system turn of its own conversation.
LEMMA AssembleKeeps ==
  ASSUME WindowInv, NEW h \in Handler, Assemble(h)
  PROVE  WindowInv'
  <1> DEFINE r == handler[h]
             merged == ApplyNote(System(r.msgs), r.note) \o From(Turns(r.msgs), r.cut)
             fit == Fit(merged, r.budget)
             q == IF fit.fits
                  THEN [r EXCEPT !.at = "answered", !.prompt = Kept(merged, fit.cut),
                                 !.dropped = r.cut + fit.cut]
                  ELSE Plain(r)
  <1>1. HandlerInv(r) /\ r.at = "noted" /\ UNCHANGED <<history, slot, requests>>
        /\ Goes(h, q)
    BY DEF WindowInv, Assemble
  <1> HIDE DEF r
  <1>2. HandlerInv(q) BY <1>1, AssembleHolds
  <1> HIDE DEF q
  <1>3. DOMAIN handler' = Handler /\ \A g \in Handler : HandlerInv(handler'[g])
    BY <1>1, <1>2, HandlerStep
  <1>4. SlotInv' BY <1>1, SlotStays DEF WindowInv
  <1> QED BY <1>1, <1>3, <1>4 DEF WindowInv

\* The invariant is one: what each handler holds, and what is stored, is what
\* it should be, whoever takes the next step.
THEOREM WindowInvariant == Spec => []WindowInv
  <1>1. WindowInv /\ [Next]_vars => WindowInv'
    <2> SUFFICES ASSUME WindowInv, [Next]_vars PROVE WindowInv' OBVIOUS
    <2>1. ASSUME NEW h \in Handler, NEW c \in Conversation, NEW budget \in Budget,
                 NEW n \in 1..Len(history[c]), Receive(h, c, n, budget)
          PROVE  WindowInv'
      BY <2>1, ReceiveKeeps
    <2>2. ASSUME NEW h \in Handler, Recall(h) PROVE WindowInv' BY <2>2, RecallKeeps
    <2>3. ASSUME NEW h \in Handler, Summarise(h) PROVE WindowInv' BY <2>3, SummariseKeeps
    <2>4. ASSUME NEW h \in Handler, SummaryFails(h) PROVE WindowInv'
      BY <2>4, SummaryFailsKeeps
    <2>5. ASSUME NEW h \in Handler, Remember(h) PROVE WindowInv' BY <2>5, RememberKeeps
    <2>6. ASSUME NEW h \in Handler, Assemble(h) PROVE WindowInv' BY <2>6, AssembleKeeps
    <2>7. ASSUME UNCHANGED vars PROVE WindowInv'
      <3>1. UNCHANGED <<history, slot, handler, requests>> BY <2>7 DEF vars
      <3>2. SlotInv' BY <3>1, SlotStays DEF WindowInv
      <3> QED BY <3>1, <3>2 DEF WindowInv
    <2> QED BY <2>1, <2>2, <2>3, <2>4, <2>5, <2>6, <2>7 DEF Next
  <1> QED BY <1>1, InitWindow, PTL DEF Spec

\* The bisection of _fit drops the fewest messages that make the rest fit, for
\* every conversation and every budget, and says that nothing fits exactly
\* when no admissible cut does.
THEOREM FitIsBestHolds == Spec => []FitIsBest
  <1>1. WindowInv => FitIsBest
    <2> SUFFICES ASSUME WindowInv, NEW h \in Handler, handler[h].at # "idle"
                 PROVE  LET msgs == handler[h].msgs
                            enough == Fitting(msgs, handler[h].budget)
                        IN /\ handler[h].fits <=> enough # {}
                           /\ handler[h].cut = IF enough = {} THEN Max(Admissible(msgs))
                                               ELSE Min(enough)
      BY DEF FitIsBest
    <2>1. Best(handler[h].msgs, handler[h].budget, handler[h].cut, handler[h].fits)
      BY DEF WindowInv, HandlerInv
    <2> QED BY <2>1 DEF Best
  <1> QED BY <1>1, WindowInvariant, PTL

\* A request that fits is answered with a prompt that does, cut once in front
\* of a turn, behind a system turn that has lost nothing, whatever became of
\* the summary.
THEOREM AnswersFitHolds == Spec => []AnswersFit
  <1>1. WindowInv => AnswersFit
    <2> SUFFICES ASSUME WindowInv, NEW h \in Answered
                 PROVE  LET r == handler[h]
                            told == System(r.msgs)
                            sent == System(r.prompt)
                        IN /\ r.fits => Tokens(r.prompt) <= r.budget
                           /\ r.dropped \in Admissible(r.msgs)
                           /\ Turns(r.prompt) = From(Turns(r.msgs), r.dropped)
                           /\ ToSet(Facts(told) \o FactsOf(Carried(h)))
                                \subseteq ToSet(Facts(sent) \o FactsOf(NoteSent(h)))
      BY DEF AnswersFit
    <2>1. h \in Handler /\ handler[h].at = "answered" BY DEF Answered
    <2>2. Sound(handler[h]) BY <2>1 DEF WindowInv, HandlerInv
    <2>3. Carried(h) = CarriedBy(handler[h].msgs) /\ NoteSent(h) = CarriedBy(handler[h].prompt)
      BY DEF Carried, NoteSent, CarriedBy
    <2> QED BY <2>2, <2>3 DEF Sound
  <1> QED BY <1>1, WindowInvariant, PTL

\* A note that is sent stands for the start of this very conversation and for
\* none of the turns beside it.
THEOREM NoteIsOwnHolds == Spec => []NoteIsOwn
  <1>1. WindowInv => NoteIsOwn
    <2> SUFFICES ASSUME WindowInv, NEW h \in Answered
                 PROVE  \E n \in 0..handler[h].cut :
                          FactsOf(NoteSent(h))
                            = FactsOf(Carried(h)) \o Facts(SubSeq(Turns(handler[h].msgs), 1, n))
      BY DEF NoteIsOwn
    <2>1. h \in Handler /\ handler[h].at = "answered" BY DEF Answered
    <2>2. Own(handler[h]) BY <2>1 DEF WindowInv, HandlerInv
    <2>3. Carried(h) = CarriedBy(handler[h].msgs) /\ NoteSent(h) = CarriedBy(handler[h].prompt)
      BY DEF Carried, NoteSent, CarriedBy
    <2> QED BY <2>2, <2>3 DEF Own
  <1> QED BY <1>1, WindowInvariant, PTL

\* The stored note stands for the turns its key digests, behind what the
\* client's own stood for.
THEOREM SlotIsTrueHolds == Spec => []SlotIsTrue
  <1>1. WindowInv => SlotIsTrue
    <2> SUFFICES ASSUME WindowInv PROVE SlotIsTrue OBVIOUS
    <2>1. slot = EmptySlot \/ (slot.note # NoNote /\ slot.of # <<>>)
      <3>1. CASE slot = EmptySlot BY <3>1
      <3>2. CASE slot # EmptySlot
        <4>1. slot.note \in Note /\ slot.of # <<>> BY <3>2 DEF WindowInv, SlotInv
        <4> QED BY <4>1, ANoteIs
      <3> QED BY <3>1, <3>2
    <2>2. ASSUME NEW h \in Handler
          PROVE  /\ handler[h].at \in {"idle", "fitted", "asking", "summarised", "noted", "answered"}
                 /\ handler[h].covered \in 0..handler[h].cut
                 /\ handler[h].cut \in 0..Len(Turns(handler[h].msgs))
      <3> DEFINE r == handler[h]
      <3>1. HandlerInv(r) BY DEF WindowInv
      <3> HIDE DEF r
      <3>2. r.at \in Where /\ r.msgs \in Seq(Message) /\ r.covered \in 0..r.cut
            /\ r.cut \in Admissible(r.msgs)
        BY <3>1 DEF HandlerInv, Held
      <3>3. r.cut \in 0..Len(Turns(r.msgs)) BY <3>2, CutIs
      <3> QED BY <3>2, <3>3 DEF Where, r
    <2>3. TypeOK BY <2>1, <2>2 DEF TypeOK, WindowInv
    <2>4. slot # EmptySlot => slot.note.of = FactsOf(slot.carried) \o Facts(slot.of)
      BY DEF WindowInv, SlotInv
    <2> QED BY <2>3, <2>4 DEF SlotIsTrue
  <1> QED BY <1>1, WindowInvariant, PTL

=============================================================================
