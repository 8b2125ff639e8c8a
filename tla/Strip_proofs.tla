---------------------------- MODULE Strip_proofs ----------------------------
(***************************************************************************)
(* Theorems about Strip, for any symbols, any length of a generation and   *)
(* of its chunks, and any hold: how the gate of a stream comes to the same *)
(* text as the stripping of a whole one.  What carries it is that a        *)
(* closing tag on a line of its own, once that line has ended, stays the   *)
(* first one whatever is said behind it.                                   *)
(***************************************************************************)
EXTENDS Strip, SequenceTheorems, FiniteSetTheorems, WellFoundedInduction, TLAPS

-----------------------------------------------------------------------------
(***************************************************************************)
(* Numbers and sequences.                                                  *)
(***************************************************************************)
\* A set of naturals has a least element.
LEMMA Least ==
  ASSUME NEW S \in SUBSET Nat, S # {}
  PROVE  Min(S) \in S /\ \A y \in S : Min(S) <= y
  <1> DEFINE R == {p \in Nat \X Nat : p[1] < p[2]}
  <1>1. OpToRel(<, Nat) = R BY DEF OpToRel
  <1>2. IsWellFoundedOn(R, Nat) BY <1>1, NatLessThanWellFounded
  <1> HIDE DEF R
  <1>3. PICK x \in S : \A y \in S : <<y, x>> \notin R
    BY <1>2, WFMin
  <1>4. ASSUME NEW y \in S PROVE x <= y
    <2>1. ~(y < x) BY <1>3 DEF R
    <2> QED BY <2>1
  <1> QED BY <1>4 DEF Min

\* One text is the beginning of another.
Begins(t, w) == Len(t) <= Len(w) /\ \A i \in 1..Len(t) : w[i] = t[i]

\* A text begins what is said behind it.
LEMMA BeginsMore ==
  ASSUME NEW S, NEW t \in Seq(S), NEW u \in Seq(S)
  PROVE  t \o u \in Seq(S) /\ Begins(t, t \o u) /\ Len(t \o u) = Len(t) + Len(u)
  BY DEF Begins

-----------------------------------------------------------------------------
(***************************************************************************)
(* Closing tags.                                                           *)
(***************************************************************************)
\* An anchored tag, symbol by symbol.
LEMMA AnchorsAre ==
  ASSUME NEW S, NEW text \in Seq(S), NEW mid \in BOOLEAN, NEW k, NEW a, NEW b
  PROVE  Anchors(text, k, a, b, mid) =
           /\ k + 1 \in 1..Len(text) /\ text[k] = "</th" /\ text[k + 1] = "ink>"
           /\ a \in 1..k /\ (\A i \in a..(k - 1) : text[i] = "sp")
           /\ (a = 1 \/ text[a - 1] = "nl")
           /\ b \in (k + 1)..Len(text) /\ (\A i \in (k + 2)..b : text[i] = "sp")
           /\ IF b = Len(text) THEN ~mid ELSE text[b + 1] = "nl"
  <1>1. DOMAIN text = 1..Len(text) OBVIOUS
  <1> QED BY <1>1 DEF Anchors, Tag, Spaces

\* A match, with the tag in it.
LEMMA Matched ==
  ASSUME NEW S, NEW text \in Seq(S), NEW mid \in BOOLEAN, NEW m
  PROVE  m \in Closes(text, mid) <=>
           /\ m \in (1..Len(text)) \X (1..Len(text))
           /\ \E k \in 1..Len(text) : Anchors(text, k, m[1], m[2], mid)
  <1>1. DOMAIN text = 1..Len(text) OBVIOUS
  <1> QED BY <1>1 DEF Closes

\* Where a line begins says where its tag is, and where it ends.
LEMMA OneOnALine ==
  ASSUME NEW S, NEW text \in Seq(S), NEW mid \in BOOLEAN,
         NEW k \in Nat, NEW j \in Nat, NEW a \in Nat, NEW b \in Nat, NEW c \in Nat,
         Anchors(text, k, a, b, mid), Anchors(text, j, a, c, mid)
  PROVE  k = j /\ b = c
  <1> DEFINE n == Len(text)
  <1>0. n \in Nat OBVIOUS
  <1>1. /\ k + 1 \in 1..n /\ text[k] = "</th" /\ text[k + 1] = "ink>" /\ a \in 1..k
        /\ \A i \in a..(k - 1) : text[i] = "sp"
        /\ b \in (k + 1)..n /\ \A i \in (k + 2)..b : text[i] = "sp"
        /\ b = n \/ text[b + 1] = "nl"
    BY AnchorsAre
  <1>2. /\ j + 1 \in 1..n /\ text[j] = "</th" /\ text[j + 1] = "ink>" /\ a \in 1..j
        /\ \A i \in a..(j - 1) : text[i] = "sp"
        /\ c \in (j + 1)..n /\ \A i \in (j + 2)..c : text[i] = "sp"
        /\ c = n \/ text[c + 1] = "nl"
    BY AnchorsAre
  <1> HIDE DEF n
  <1>3. k = j
    <2>1. ~(k < j)
      <3> SUFFICES ASSUME k < j PROVE FALSE OBVIOUS
      <3>1. k \in a..(j - 1) BY <1>0, <1>1, <1>2
      <3> QED BY <3>1, <1>1, <1>2
    <2>2. ~(j < k)
      <3> SUFFICES ASSUME j < k PROVE FALSE OBVIOUS
      <3>1. j \in a..(k - 1) BY <1>0, <1>1, <1>2
      <3> QED BY <3>1, <1>1, <1>2
    <2> QED BY <2>1, <2>2
  <1>4. b = c
    <2>1. ~(b < c)
      <3> SUFFICES ASSUME b < c PROVE FALSE OBVIOUS
      <3>1. b + 1 \in (j + 2)..c /\ b # n BY <1>0, <1>1, <1>2, <1>3
      <3> QED BY <3>1, <1>1, <1>2
    <2>2. ~(c < b)
      <3> SUFFICES ASSUME c < b PROVE FALSE OBVIOUS
      <3>1. c + 1 \in (k + 2)..b /\ c # n BY <1>0, <1>1, <1>2, <1>3
      <3> QED BY <3>1, <1>1, <1>2
    <2> QED BY <2>1, <2>2
  <1> QED BY <1>3, <1>4

\* The first match of a text.
FirstClose(text, mid, m) ==
  m \in Closes(text, mid) /\ \A n \in Closes(text, mid) : m[1] <= n[1]

\* There is one, and no other, and Close is it.
LEMMA CloseIsFirst ==
  ASSUME NEW S, NEW text \in Seq(S), NEW mid \in BOOLEAN
  PROVE  /\ Closes(text, mid) # {} => FirstClose(text, mid, Close(text, mid))
         /\ \A m : FirstClose(text, mid, m) =>
                     Closes(text, mid) # {} /\ Close(text, mid) = m
  <1>1. ASSUME Closes(text, mid) # {}
        PROVE  \E m \in Closes(text, mid) : \A n \in Closes(text, mid) : m[1] <= n[1]
    <2> DEFINE T == {m[1] : m \in Closes(text, mid)}
    <2>1. T \in SUBSET Nat /\ T # {} BY <1>1, Matched
    <2>2. Min(T) \in T /\ \A y \in T : Min(T) <= y
      <3> HIDE DEF T
      <3> QED BY <2>1, Least
    <2> QED BY <2>2
  <1>2. ASSUME NEW m, NEW n, FirstClose(text, mid, m), FirstClose(text, mid, n)
        PROVE  m = n
    <2>1. /\ m \in (1..Len(text)) \X (1..Len(text)) /\ n \in (1..Len(text)) \X (1..Len(text))
          /\ \E k \in 1..Len(text) : Anchors(text, k, m[1], m[2], mid)
          /\ \E k \in 1..Len(text) : Anchors(text, k, n[1], n[2], mid)
      BY <1>2, Matched DEF FirstClose
    <2>2. m[1] = n[1] BY <1>2, <2>1 DEF FirstClose
    <2>3. PICK k \in 1..Len(text) : Anchors(text, k, m[1], m[2], mid) BY <2>1
    <2>4. PICK j \in 1..Len(text) : Anchors(text, j, m[1], n[2], mid) BY <2>1, <2>2
    <2>5. m[2] = n[2]
      <3>1. k \in Nat /\ j \in Nat /\ m[1] \in Nat /\ m[2] \in Nat /\ n[2] \in Nat
        BY <2>1
      <3> QED BY <2>3, <2>4, <3>1, OneOnALine
    <2> QED BY <2>1, <2>2, <2>5
  <1>3. Closes(text, mid) # {} => FirstClose(text, mid, Close(text, mid))
    BY <1>1 DEF Close, FirstClose
  <1>4. \A m : FirstClose(text, mid, m) => Closes(text, mid) # {}
    BY DEF FirstClose
  <1> QED BY <1>2, <1>3, <1>4

\* A line that has ended is the same in whatever the text begins, and a match
\* that ends within the text is one of the text.
LEMMA SameLine ==
  ASSUME NEW S, NEW t \in Seq(S), NEW w \in Seq(S), Begins(t, w), NEW mid \in BOOLEAN
  PROVE  /\ \A m \in Closes(t, TRUE) : m \in Closes(w, mid) /\ m[2] < Len(t)
         /\ \A m \in Closes(w, mid) : m[2] < Len(t) => m \in Closes(t, TRUE)
  <1>0. Len(t) \in Nat /\ Len(w) \in Nat /\ Len(t) <= Len(w)
        /\ \A i \in 1..Len(t) : w[i] = t[i]
    BY DEF Begins
  <1>1. ASSUME NEW m \in Closes(t, TRUE) PROVE m \in Closes(w, mid) /\ m[2] < Len(t)
    <2>1. /\ m \in (1..Len(t)) \X (1..Len(t))
          /\ \E k \in 1..Len(t) : Anchors(t, k, m[1], m[2], TRUE)
      BY <1>1, Matched
    <2>2. PICK k \in 1..Len(t) : Anchors(t, k, m[1], m[2], TRUE) BY <2>1
    <2> DEFINE a == m[1]
               b == m[2]
    <2>3. a \in 1..Len(t) /\ b \in 1..Len(t) BY <2>1
    <2> HIDE DEF a, b
    <2>4. /\ k + 1 \in 1..Len(t) /\ t[k] = "</th" /\ t[k + 1] = "ink>"
          /\ a \in 1..k /\ (\A i \in a..(k - 1) : t[i] = "sp") /\ (a = 1 \/ t[a - 1] = "nl")
          /\ b \in (k + 1)..Len(t) /\ (\A i \in (k + 2)..b : t[i] = "sp")
          /\ b # Len(t) /\ t[b + 1] = "nl"
      BY <2>2, AnchorsAre DEF a, b
    <2>5. b < Len(t) BY <1>0, <2>3, <2>4
    <2>6. /\ k + 1 \in 1..Len(w) /\ w[k] = "</th" /\ w[k + 1] = "ink>"
          /\ a \in 1..k /\ (\A i \in a..(k - 1) : w[i] = "sp") /\ (a = 1 \/ w[a - 1] = "nl")
          /\ b \in (k + 1)..Len(w) /\ (\A i \in (k + 2)..b : w[i] = "sp")
          /\ b # Len(w) /\ w[b + 1] = "nl"
      <3>1. /\ k + 1 \in 1..Len(w) /\ b \in (k + 1)..Len(w) /\ b # Len(w)
            /\ k \in 1..Len(t) /\ b + 1 \in 1..Len(t)
        BY <1>0, <2>3, <2>4, <2>5
      <3>2. w[k] = t[k] /\ w[k + 1] = t[k + 1] /\ w[b + 1] = t[b + 1]
        BY <1>0, <2>4, <3>1
      <3>3. ASSUME NEW i \in a..(k - 1) PROVE w[i] = "sp"
        <4>1. i \in 1..Len(t) BY <1>0, <2>3, <2>4
        <4> QED BY <1>0, <2>4, <4>1
      <3>4. ASSUME NEW i \in (k + 2)..b PROVE w[i] = "sp"
        <4>1. i \in 1..Len(t) BY <1>0, <2>3, <2>4
        <4> QED BY <1>0, <2>4, <4>1
      <3>5. a = 1 \/ w[a - 1] = "nl"
        <4>1. a # 1 => a - 1 \in 1..Len(t) BY <1>0, <2>3
        <4> QED BY <1>0, <2>4, <4>1
      <3> QED BY <2>4, <3>1, <3>2, <3>3, <3>4, <3>5
    <2>7. Anchors(w, k, a, b, mid) BY <2>6, AnchorsAre
    <2>8. m \in (1..Len(w)) \X (1..Len(w)) /\ k \in 1..Len(w) BY <1>0, <2>1
    <2>9. m \in Closes(w, mid) BY <2>7, <2>8, Matched DEF a, b
    <2> QED BY <2>5, <2>9 DEF b
  <1>2. ASSUME NEW m \in Closes(w, mid), m[2] < Len(t) PROVE m \in Closes(t, TRUE)
    <2>1. /\ m \in (1..Len(w)) \X (1..Len(w))
          /\ \E k \in 1..Len(w) : Anchors(w, k, m[1], m[2], mid)
      BY <1>2, Matched
    <2>2. PICK k \in 1..Len(w) : Anchors(w, k, m[1], m[2], mid) BY <2>1
    <2> DEFINE a == m[1]
               b == m[2]
    <2>3. a \in 1..Len(w) /\ b \in 1..Len(w) /\ b < Len(t) BY <1>2, <2>1
    <2> HIDE DEF a, b
    <2>4. /\ k + 1 \in 1..Len(w) /\ w[k] = "</th" /\ w[k + 1] = "ink>"
          /\ a \in 1..k /\ (\A i \in a..(k - 1) : w[i] = "sp") /\ (a = 1 \/ w[a - 1] = "nl")
          /\ b \in (k + 1)..Len(w) /\ (\A i \in (k + 2)..b : w[i] = "sp")
          /\ IF b = Len(w) THEN ~mid ELSE w[b + 1] = "nl"
      BY <2>2, AnchorsAre DEF a, b
    <2>5. b # Len(w) /\ w[b + 1] = "nl" BY <1>0, <2>3, <2>4
    <2>6. /\ k + 1 \in 1..Len(t) /\ t[k] = "</th" /\ t[k + 1] = "ink>"
          /\ a \in 1..k /\ (\A i \in a..(k - 1) : t[i] = "sp") /\ (a = 1 \/ t[a - 1] = "nl")
          /\ b \in (k + 1)..Len(t) /\ (\A i \in (k + 2)..b : t[i] = "sp")
          /\ b # Len(t) /\ t[b + 1] = "nl"
      <3>1. /\ k + 1 \in 1..Len(t) /\ b \in (k + 1)..Len(t) /\ b # Len(t)
            /\ k \in 1..Len(t) /\ b + 1 \in 1..Len(t)
        BY <1>0, <2>3, <2>4
      <3>2. w[k] = t[k] /\ w[k + 1] = t[k + 1] /\ w[b + 1] = t[b + 1]
        BY <1>0, <3>1
      <3>3. ASSUME NEW i \in a..(k - 1) PROVE t[i] = "sp"
        <4>1. i \in 1..Len(t) BY <1>0, <2>3, <2>4, <3>1
        <4> QED BY <1>0, <2>4, <4>1
      <3>4. ASSUME NEW i \in (k + 2)..b PROVE t[i] = "sp"
        <4>1. i \in 1..Len(t) BY <1>0, <2>3, <2>4
        <4> QED BY <1>0, <2>4, <4>1
      <3>5. a = 1 \/ t[a - 1] = "nl"
        <4>1. a # 1 => a - 1 \in 1..Len(t) BY <1>0, <2>3, <2>4, <3>1
        <4> QED BY <1>0, <2>4, <4>1
      <3> QED BY <2>4, <2>5, <3>1, <3>2, <3>3, <3>4, <3>5
    <2>7. Anchors(t, k, a, b, TRUE) BY <2>6, AnchorsAre
    <2>8. m \in (1..Len(t)) \X (1..Len(t)) /\ k \in 1..Len(t)
      <3>1. k \in 1..Len(t) /\ a \in 1..Len(t) /\ b \in 1..Len(t) BY <1>0, <2>3, <2>6
      <3> QED BY <2>1, <3>1 DEF a, b
    <2> QED BY <2>7, <2>8, Matched DEF a, b
  <1> QED BY <1>1, <1>2

\* And it stays the first.
LEMMA FirstStays ==
  ASSUME NEW S, NEW t \in Seq(S), NEW w \in Seq(S), Begins(t, w), NEW mid \in BOOLEAN,
         NEW m, FirstClose(t, TRUE, m)
  PROVE  FirstClose(w, mid, m) /\ (Opened(w, m) <=> Opened(t, m)) /\ m[2] < Len(t)
         /\ m \in (1..Len(t)) \X (1..Len(t))
  <1>0. Len(t) \in Nat /\ Len(w) \in Nat /\ Len(t) <= Len(w)
        /\ \A i \in 1..Len(t) : w[i] = t[i]
    BY DEF Begins
  <1>1. m \in Closes(t, TRUE) /\ m \in Closes(w, mid) /\ m[2] < Len(t)
    BY SameLine DEF FirstClose
  <1>2. /\ m \in (1..Len(t)) \X (1..Len(t))
        /\ \E k \in 1..Len(t) : Anchors(t, k, m[1], m[2], TRUE)
    BY <1>1, Matched
  <1>3. m[1] \in 1..Len(t) /\ (m[1] = 1 \/ t[m[1] - 1] = "nl")
    BY <1>2, AnchorsAre
  <1>4. ASSUME NEW n \in Closes(w, mid), n[1] < m[1] PROVE FALSE
    <2> DEFINE a == n[1]
               b == n[2]
               p == m[1] - 1
    <2>1. PICK k \in 1..Len(w) : Anchors(w, k, a, b, mid) BY <1>4, Matched
    <2>2. a \in 1..Len(w) /\ b \in 1..Len(w) BY <1>4, Matched
    <2>3. p \in 1..Len(t) /\ w[p] = "nl" /\ a <= p BY <1>0, <1>3, <1>4, <2>2
    <2> HIDE DEF a, b, p
    <2>4. /\ w[k] = "</th" /\ w[k + 1] = "ink>" /\ a \in 1..k
          /\ (\A i \in a..(k - 1) : w[i] = "sp") /\ (\A i \in (k + 2)..b : w[i] = "sp")
      BY <2>1, AnchorsAre
    <2>5. b < p
      <3> SUFFICES ASSUME p <= b PROVE FALSE BY <2>2, <2>3
      <3>1. \/ p \in a..(k - 1) \/ p = k \/ p = k + 1 \/ p \in (k + 2)..b
        BY <2>2, <2>3, <2>4
      <3> QED BY <2>3, <2>4, <3>1
    <2>6. n[2] < Len(t) BY <1>0, <2>2, <2>3, <2>5 DEF b
    <2>7. n \in Closes(t, TRUE) BY <1>4, <2>6, SameLine
    <2>8. n[1] \in Nat BY <2>2 DEF a
    <2>9. m[1] <= n[1] BY <2>7 DEF FirstClose
    <2>10. m[1] \in Nat /\ n[1] < m[1] BY <1>3, <1>4
    <2> QED BY <2>8, <2>9, <2>10
  <1>5. ASSUME NEW n \in Closes(w, mid) PROVE m[1] <= n[1]
    <2>1. n[1] \in Nat BY Matched
    <2> QED BY <1>3, <1>4, <2>1
  <1>6. Opened(w, m) <=> Opened(t, m)
    <2>1. ASSUME NEW k \in 1..(m[1] - 1) PROVE w[k] = t[k]
      <3>1. k \in 1..Len(t) BY <1>0, <1>3
      <3> QED BY <1>0, <3>1
    <2> QED BY <2>1 DEF Opened
  <1> QED BY <1>1, <1>2, <1>5, <1>6 DEF FirstClose

-----------------------------------------------------------------------------
(***************************************************************************)
(* Stripping.                                                              *)
(***************************************************************************)
\* What is behind a match is a text, and no longer.
LEMMA AfterIs ==
  ASSUME NEW S, NEW t \in Seq(S), NEW m, m[2] \in Nat, m[2] <= Len(t)
  PROVE  /\ After(t, m) \in Seq(S) /\ Len(After(t, m)) = Len(t) - m[2]
         /\ Len(After(t, m)) <= Len(t)
         /\ \A i \in 1..(Len(t) - m[2]) : After(t, m)[i] = t[m[2] + i]
  <1> DEFINE b == m[2]
             n == Len(t)
  <1>0. n \in Nat /\ b \in Nat /\ b <= n OBVIOUS
  <1>1. \A i \in (b + 1)..n : t[i] \in S BY <1>0
  <1>2. After(t, m) = SubSeq(t, b + 1, n) BY DEF After
  <1> HIDE DEF b, n
  <1>3. /\ After(t, m) \in Seq(S) /\ Len(After(t, m)) = n - b
        /\ \A i \in 1..(n - b) : After(t, m)[i] = t[b + i]
    BY <1>0, <1>1, <1>2, SubSeqProperties DEF n
  <1>4. n - b <= n BY <1>0
  <1> QED BY <1>3, <1>4 DEF b, n

\* What is behind a match grows with the text.
LEMMA AfterMore ==
  ASSUME NEW S, NEW t \in Seq(S), NEW u \in Seq(S), NEW m, m[2] \in Nat, m[2] < Len(t)
  PROVE  After(t, m) \in Seq(S) /\ After(t \o u, m) = After(t, m) \o u
  <1> DEFINE b == m[2]
             n == Len(t)
             k == Len(u)
  <1>0. n \in Nat /\ k \in Nat /\ b \in Nat /\ b < n OBVIOUS
  <1> HIDE DEF b, n, k
  <1>1. /\ After(t, m) \in Seq(S) /\ Len(After(t, m)) = n - b
        /\ \A i \in 1..(n - b) : After(t, m)[i] = t[b + i]
    <2>1. /\ After(t, m) \in Seq(S) /\ Len(After(t, m)) = Len(t) - m[2]
          /\ \A i \in 1..(Len(t) - m[2]) : After(t, m)[i] = t[m[2] + i]
      BY <1>0, AfterIs DEF b, n
    <2> QED BY <2>1 DEF b, n
  <1>2. t \o u \in Seq(S) /\ Len(t \o u) = n + k BY DEF n, k
  <1>3. /\ After(t \o u, m) \in Seq(S) /\ Len(After(t \o u, m)) = n + k - b
        /\ \A i \in 1..(n + k - b) : After(t \o u, m)[i] = (t \o u)[b + i]
    <2>1. After(t \o u, m) = SubSeq(t \o u, b + 1, n + k) BY <1>2 DEF After, b
    <2> DEFINE w == t \o u
    <2>2. w \in Seq(S) /\ Len(w) = n + k BY <1>2
    <2> HIDE DEF w
    <2>3. \A i \in (b + 1)..(n + k) : w[i] \in S BY <1>0, <2>2
    <2>4. /\ SubSeq(w, b + 1, n + k) \in Seq(S) /\ Len(SubSeq(w, b + 1, n + k)) = n + k - b
          /\ \A i \in 1..(n + k - b) : SubSeq(w, b + 1, n + k)[i] = w[b + i]
      BY <1>0, <2>2, <2>3, SubSeqProperties
    <2> QED BY <2>1, <2>4 DEF w
  <1>4. /\ After(t, m) \o u \in Seq(S) /\ Len(After(t, m) \o u) = n + k - b
        /\ \A i \in 1..(n + k - b) : (After(t, m) \o u)[i] =
             IF i <= n - b THEN t[b + i] ELSE u[i - (n - b)]
    <2> DEFINE v == After(t, m)
    <2> HIDE DEF v
    <2>1. v \in Seq(S) /\ Len(v) = n - b /\ \A i \in 1..(n - b) : v[i] = t[b + i]
      BY <1>1, Zenon DEF v
    <2>2. v \o u \in Seq(S) /\ Len(v \o u) = n - b + k
      BY <2>1, ConcatProperties DEF k
    <2>3. \A i \in 1..(n - b + k) : (v \o u)[i] = IF i <= n - b THEN v[i] ELSE u[i - (n - b)]
      BY <1>0, <2>1 DEF k
    <2>4. n - b + k = n + k - b BY <1>0
    <2>5. ASSUME NEW i \in 1..(n + k - b)
          PROVE  (v \o u)[i] = IF i <= n - b THEN t[b + i] ELSE u[i - (n - b)]
      <3>1. i \in 1..(n - b + k) BY <2>4
      <3>2. i <= n - b => i \in 1..(n - b) BY <1>0
      <3> QED BY <2>1, <2>3, <3>1, <3>2
    <2>6. Len(v \o u) = n + k - b BY <2>2, <2>4
    <2> QED BY <2>2, <2>5, <2>6 DEF v
  <1>5. \A i \in 1..(n + k - b) : (t \o u)[b + i] =
             IF i <= n - b THEN t[b + i] ELSE u[i - (n - b)]
    <2> SUFFICES ASSUME NEW i \in 1..(n + k - b)
                 PROVE  (t \o u)[b + i] = IF i <= n - b THEN t[b + i] ELSE u[i - (n - b)]
      OBVIOUS
    <2>1. b + i \in 1..(n + k) BY <1>0
    <2>2. (t \o u)[b + i] = IF b + i <= n THEN t[b + i] ELSE u[b + i - n]
      BY <2>1, <1>0 DEF n, k
    <2>3. (b + i <= n) = (i <= n - b) /\ b + i - n = i - (n - b) BY <1>0
    <2> QED BY <2>2, <2>3
  <1>6. After(t \o u, m) = After(t, m) \o u
    <2> DEFINE x == After(t \o u, m)
               y == After(t, m) \o u
               z == n + k - b
    <2>1. x \in Seq(S) /\ y \in Seq(S) /\ Len(x) = z /\ Len(y) = z
          /\ \A i \in 1..z : x[i] = y[i]
      BY <1>3, <1>4, <1>5
    <2> HIDE DEF x, y, z
    <2>2. x = y BY <2>1
    <2> QED BY <2>2 DEF x, y
  <1> QED BY <1>0, <1>1, <1>6 DEF n

\* The solid places of a text.
Solid(text) == {k \in DOMAIN text : text[k] \notin Blank}

\* What is left of a text begins at its first solid symbol.
LEMMA LstripIs ==
  ASSUME NEW S, NEW t \in Seq(S)
  PROVE  /\ lstrip(t) \in Seq(S) /\ Len(lstrip(t)) <= Len(t)
         /\ lstrip(t) = <<>> <=> Solid(t) = {}
         /\ \A f \in Solid(t) : (\A k \in Solid(t) : f <= k) =>
              lstrip(t) = SubSeq(t, f, Len(t))
  <1>0. Len(t) \in Nat /\ DOMAIN t = 1..Len(t) OBVIOUS
  <1>1. CASE Solid(t) = {}
    <2>1. lstrip(t) = <<>> BY <1>1 DEF lstrip, Solid
    <2> QED BY <1>0, <1>1, <2>1
  <1>2. CASE Solid(t) # {}
    <2>1. Solid(t) \in SUBSET Nat BY <1>0 DEF Solid
    <2> DEFINE g == Min(Solid(t))
    <2>2. g \in Solid(t) /\ \A k \in Solid(t) : g <= k BY <1>2, <2>1, Least
    <2>3. lstrip(t) = SubSeq(t, g, Len(t)) BY <1>2 DEF lstrip, Solid
    <2> HIDE DEF g
    <2>4. g \in 1..Len(t) BY <1>0, <2>2 DEF Solid
    <2>5. /\ SubSeq(t, g, Len(t)) \in Seq(S)
          /\ Len(SubSeq(t, g, Len(t))) = Len(t) - g + 1
      <3>1. \A i \in g..Len(t) : t[i] \in S BY <1>0, <2>4
      <3> QED BY <1>0, <2>4, <3>1, SubSeqProperties
    <2>6. lstrip(t) # <<>>
      <3>1. Len(lstrip(t)) # 0 BY <1>0, <2>3, <2>4, <2>5
      <3> QED BY <3>1
    <2>7. ASSUME NEW f \in Solid(t), \A k \in Solid(t) : f <= k PROVE f = g
      <3>1. f <= g /\ g <= f /\ f \in Nat /\ g \in Nat BY <2>1, <2>2, <2>7
      <3> QED BY <3>1
    <2>8. lstrip(t) \in Seq(S) /\ Len(lstrip(t)) <= Len(t) BY <1>0, <2>3, <2>4, <2>5
    <2> QED BY <1>2, <2>3, <2>6, <2>7, <2>8
  <1> QED BY <1>1, <1>2

\* Once something solid has come, the rest is kept as it comes.
LEMMA LstripMore ==
  ASSUME NEW S, NEW t \in Seq(S), NEW u \in Seq(S)
  PROVE  lstrip(t \o u) = IF lstrip(t) = <<>> THEN lstrip(u) ELSE lstrip(t) \o u
  <1> DEFINE w == t \o u
             n == Len(t)
             k == Len(u)
  <1>0. /\ n \in Nat /\ k \in Nat /\ w \in Seq(S) /\ Len(w) = n + k
        /\ (\A i \in 1..n : w[i] = t[i]) /\ (\A i \in 1..k : w[n + i] = u[i])
        /\ DOMAIN t = 1..n /\ DOMAIN u = 1..k /\ DOMAIN w = 1..(n + k)
    OBVIOUS
  <1>1. /\ \A i \in 1..n : i \in Solid(w) <=> i \in Solid(t)
        /\ \A i \in 1..k : n + i \in Solid(w) <=> i \in Solid(u)
        /\ Solid(t) \subseteq 1..n /\ Solid(u) \subseteq 1..k /\ Solid(w) \subseteq 1..(n + k)
    <2> HIDE DEF n, k, w
    <2>1. \A i \in 1..n : i \in 1..(n + k) BY <1>0
    <2>2. \A i \in 1..k : n + i \in 1..(n + k) BY <1>0
    <2> QED BY <1>0, <2>1, <2>2 DEF Solid
  <1> HIDE DEF n, k, w
  <1>2. CASE Solid(t) # {}
    <2> DEFINE f == Min(Solid(t))
    <2>1. f \in Solid(t) /\ \A i \in Solid(t) : f <= i
      <3>1. Solid(t) \in SUBSET Nat BY <1>0, <1>1
      <3> QED BY <1>2, <3>1, Least
    <2> HIDE DEF f
    <2>2. f \in 1..n /\ f \in Solid(w) BY <1>1, <2>1
    <2>3. ASSUME NEW i \in Solid(w) PROVE f <= i
      <3>1. CASE i \in 1..n BY <1>1, <2>1, <3>1
      <3>2. CASE i \notin 1..n BY <1>0, <1>1, <2>2, <3>2
      <3> QED BY <3>1, <3>2
    <2>4. lstrip(t) = SubSeq(t, f, n) /\ lstrip(t) # <<>>
      BY <1>2, <2>1, LstripIs DEF n
    <2>5. lstrip(w) = SubSeq(w, f, n + k) BY <1>0, <2>2, <2>3, LstripIs
    <2>6. SubSeq(w, f, n + k) = SubSeq(t, f, n) \o u
      <3> DEFINE m == <<f, f - 1>>
      <3>1. m[2] \in Nat /\ m[2] < n /\ m[2] + 1 = f BY <1>0, <2>2
      <3>2. After(t \o u, m) = After(t, m) \o u BY <3>1, AfterMore DEF n
      <3>3. After(w, m) = SubSeq(w, f, n + k) /\ After(t, m) = SubSeq(t, f, n)
        BY <1>0, <3>1 DEF After, n
      <3> QED BY <3>2, <3>3 DEF w
    <2> QED BY <2>4, <2>5, <2>6 DEF w
  <1>3. CASE Solid(t) = {} /\ Solid(u) # {}
    <2> DEFINE f == Min(Solid(u))
    <2>1. f \in Solid(u) /\ \A i \in Solid(u) : f <= i
      <3>1. Solid(u) \in SUBSET Nat BY <1>0, <1>1
      <3> QED BY <1>3, <3>1, Least
    <2> HIDE DEF f
    <2>2. f \in 1..k /\ n + f \in Solid(w) BY <1>1, <2>1
    <2>3. ASSUME NEW i \in Solid(w) PROVE n + f <= i
      <3>1. i \in 1..(n + k) /\ i \notin 1..n BY <1>1, <1>3
      <3>2. i - n \in 1..k /\ n + (i - n) = i BY <1>0, <3>1
      <3>3. i - n \in Solid(u) BY <1>1, <3>2
      <3>4. f <= i - n BY <2>1, <3>3
      <3> QED BY <1>0, <2>2, <3>2, <3>4
    <2>4. lstrip(t) = <<>> BY <1>3, LstripIs
    <2>5. lstrip(u) = SubSeq(u, f, k) BY <2>1, LstripIs DEF k
    <2>6. lstrip(w) = SubSeq(w, n + f, n + k) BY <1>0, <2>2, <2>3, LstripIs
    <2>7. SubSeq(w, n + f, n + k) = SubSeq(u, f, k)
      <3> DEFINE x == SubSeq(w, n + f, n + k)
                 y == SubSeq(u, f, k)
      <3>1. \A i \in (n + f)..(n + k) : w[i] \in S BY <1>0, <2>2
      <3>2. \A i \in f..k : u[i] \in S BY <1>0, <2>2 DEF k
      <3>3. /\ x \in Seq(S) /\ Len(x) = k - f + 1
            /\ \A i \in 1..(k - f + 1) : x[i] = w[n + f + i - 1]
        BY <1>0, <2>2, <3>1, SubSeqProperties
      <3>4. /\ y \in Seq(S) /\ Len(y) = k - f + 1
            /\ \A i \in 1..(k - f + 1) : y[i] = u[f + i - 1]
        BY <1>0, <2>2, <3>2, SubSeqProperties DEF k
      <3> HIDE DEF x, y
      <3>5. ASSUME NEW i \in 1..(k - f + 1) PROVE x[i] = y[i]
        <4>1. f + i - 1 \in 1..k /\ n + (f + i - 1) = n + f + i - 1 BY <1>0, <2>2
        <4> QED BY <1>0, <3>3, <3>4, <4>1
      <3>6. x = y BY <3>3, <3>4, <3>5
      <3> QED BY <3>6 DEF x, y
    <2> QED BY <2>4, <2>5, <2>6, <2>7 DEF w
  <1>4. CASE Solid(t) = {} /\ Solid(u) = {}
    <2>1. Solid(w) = {}
      <3> SUFFICES ASSUME NEW i \in Solid(w) PROVE FALSE OBVIOUS
      <3>1. i \in 1..(n + k) /\ i \notin 1..n BY <1>1, <1>4
      <3>2. i - n \in 1..k /\ n + (i - n) = i BY <1>0, <3>1
      <3> QED BY <1>1, <1>4, <3>2
    <2> QED BY <1>0, <1>4, <2>1, LstripIs DEF w
  <1> QED BY <1>2, <1>3, <1>4

-----------------------------------------------------------------------------
(***************************************************************************)
(* The gate.                                                               *)
(***************************************************************************)
\* A match ends in the text.
LEMMA MatchIn ==
  ASSUME NEW S, NEW t \in Seq(S), NEW mid \in BOOLEAN, NEW m \in Closes(t, mid)
  PROVE  m[2] \in 1..Len(t)
  <1>1. m \in (1..Len(t)) \X (1..Len(t)) BY Matched
  <1> QED BY <1>1

\* A text with a first close that nothing opened loses what is up to it; any
\* other is kept.
LEMMA StripIs ==
  ASSUME NEW S, NEW t \in Seq(S)
  PROVE  /\ \A m : FirstClose(t, FALSE, m) =>
              _strip_orphan_think(t) = IF Opened(t, m) THEN t ELSE lstrip(After(t, m))
         /\ Closes(t, FALSE) = {} => _strip_orphan_think(t) = t
         /\ _strip_orphan_think(t) \in Seq(S)
         /\ Len(_strip_orphan_think(t)) <= Len(t)
  <1>1. ASSUME NEW m, FirstClose(t, FALSE, m)
        PROVE  _strip_orphan_think(t) = IF Opened(t, m) THEN t ELSE lstrip(After(t, m))
    <2>1. Closes(t, FALSE) # {} /\ Close(t, FALSE) = m BY <1>1, CloseIsFirst
    <2> QED BY <2>1 DEF _strip_orphan_think
  <1>2. Closes(t, FALSE) = {} => _strip_orphan_think(t) = t
    BY DEF _strip_orphan_think
  <1>3. CASE Closes(t, FALSE) = {} \/ Opened(t, Close(t, FALSE))
    <2>1. _strip_orphan_think(t) = t BY <1>3 DEF _strip_orphan_think
    <2>2. _strip_orphan_think(t) \in Seq(S) /\ Len(_strip_orphan_think(t)) <= Len(t)
      <3>1. Len(t) \in Nat OBVIOUS
      <3> QED BY <2>1, <3>1
    <2> QED BY <1>1, <1>2, <2>2
  <1>4. CASE ~(Closes(t, FALSE) = {} \/ Opened(t, Close(t, FALSE)))
    <2> DEFINE m == Close(t, FALSE)
               v == After(t, m)
    <2>1. _strip_orphan_think(t) = lstrip(v) BY <1>4 DEF _strip_orphan_think
    <2>2. m[2] \in 1..Len(t)
      <3>1. m \in Closes(t, FALSE) BY <1>4, CloseIsFirst DEF FirstClose
      <3> HIDE DEF m
      <3> QED BY <3>1, MatchIn
    <2> HIDE DEF m
    <2>3. v \in Seq(S) /\ Len(v) <= Len(t) BY <2>2, AfterIs
    <2> HIDE DEF v
    <2>4. lstrip(v) \in Seq(S) /\ Len(lstrip(v)) <= Len(v) BY <2>3, LstripIs
    <2>5. Len(lstrip(v)) \in Nat /\ Len(v) \in Nat /\ Len(t) \in Nat BY <2>3, <2>4
    <2>6. Len(lstrip(v)) <= Len(t) BY <2>3, <2>4, <2>5
    <2> QED BY <1>1, <1>2, <2>1, <2>4, <2>6
  <1> QED BY <1>3, <1>4

\* The hold was over before a tag could end within it.
Late(text) ==
  /\ want.hold \in Nat /\ want.hold <= Len(text)
  /\ \A m \in Closes(text, TRUE) : want.hold <= m[2]

\* All that was said is held.
Holding ==
  /\ want.prefilled /\ Closes(said, TRUE) = {}
  /\ gate = [buf |-> said, open |-> FALSE, dropped |-> FALSE] /\ sent = <<>>

\* All that was said is sent, and there is nothing to strip, or it is late.
Passing ==
  /\ gate = OpenGate /\ sent = said
  /\ \/ ~want.prefilled
     \/ \E m : FirstClose(said, TRUE, m) /\ Opened(said, m)
     \/ Late(said)

\* What was said behind the first close is sent, from its first solid symbol.
Dropping ==
  /\ want.prefilled
  /\ gate = [buf |-> <<>>, open |-> TRUE, dropped |-> sent = <<>>]
  /\ \E m : FirstClose(said, TRUE, m) /\ ~Opened(said, m) /\ sent = lstrip(After(said, m))

GateInvariant ==
  /\ TypeOK
  /\ Len(said) <= IF want.tools THEN MaxToolText ELSE MaxText
  /\ Streamed => said \in Seq(Words)
  /\ Streamed /\ ~answer.done => Holding \/ Passing \/ Dropping
  /\ Streamed /\ answer.done => gate.buf = <<>>
  /\ StreamIsBuffered

\* The settings a request is served under.
LEMMA Wanted ==
  ASSUME want \in Want
  PROVE  /\ want.stream \in BOOLEAN /\ want.tools \in BOOLEAN /\ want.prefilled \in BOOLEAN
         /\ want.hold \in Nat \cup {Unbounded} /\ Unbounded \notin Nat
  BY StripAssumption

\* Chunks are texts.
LEMMA ChunksAre ==
  ASSUME want \in Want, NEW chunk \in Chunks
  PROVE  chunk \in Seq(Words \cup ToolWords) /\ (Streamed => chunk \in Seq(Words))
  <1> DEFINE words == IF want.tools THEN ToolWords ELSE Words
             N == IF Streamed THEN MaxChunk ELSE 1
  <1>1. N \in Nat BY StripAssumption
  <1>2. PICK n \in 1..N : chunk \in [1..n -> words] BY DEF Chunks
  <1> HIDE DEF N
  <1>3. n \in Nat BY <1>1
  <1>4. chunk \in Seq(words) BY <1>2, <1>3
  <1> QED BY <1>4 DEF Streamed

\* A gate that is to lose the blanks ahead of what it sends.
LEMMA Cutting ==
  [OpenGate EXCEPT !.dropped = TRUE] = [buf |-> <<>>, open |-> TRUE, dropped |-> TRUE]
  <1> DEFINE h == [OpenGate EXCEPT !.dropped = TRUE]
  <1>1. h = [x \in {"buf", "open", "dropped"} |-> IF x = "dropped" THEN TRUE ELSE OpenGate[x]]
    BY DEF OpenGate
  <1>2. OpenGate.buf = <<>> /\ OpenGate.open = TRUE BY DEF OpenGate
  <1> HIDE DEF h
  <1>3. /\ h.buf = <<>> /\ h.open = TRUE /\ h.dropped = TRUE
        /\ h = [x \in {"buf", "open", "dropped"} |-> h[x]]
    BY <1>1, <1>2
  <1>4. h = [buf |-> <<>>, open |-> TRUE, dropped |-> TRUE] BY <1>3
  <1> QED BY <1>4 DEF h

\* A gate that holds more.
LEMMA HoldsMore ==
  ASSUME NEW g, NEW a, NEW b, g = [buf |-> a, open |-> FALSE, dropped |-> FALSE]
  PROVE  [g EXCEPT !.buf = b] = [buf |-> b, open |-> FALSE, dropped |-> FALSE]
  <1> DEFINE h == [g EXCEPT !.buf = b]
  <1>1. h = [x \in {"buf", "open", "dropped"} |-> IF x = "buf" THEN b ELSE g[x]]
    OBVIOUS
  <1> HIDE DEF h
  <1>2. /\ h.buf = b /\ h.open = FALSE /\ h.dropped = FALSE
        /\ h = [x \in {"buf", "open", "dropped"} |-> h[x]]
    BY <1>1
  <1>3. h = [buf |-> b, open |-> FALSE, dropped |-> FALSE] BY <1>2
  <1> QED BY <1>3 DEF h

-----------------------------------------------------------------------------
\* While text is held, a chunk leaves it held, lets all of it go, or cuts it.
LEMMA HoldingFeeds ==
  ASSUME want \in Want, said \in Seq(Words), NEW chunk \in Seq(Words), Holding,
         said' = said \o chunk, want' = want,
         gate' = feed(gate, chunk).gate, sent' = sent \o feed(gate, chunk).out
  PROVE  Holding' \/ Passing' \/ Dropping'
  <1> DEFINE held == said \o chunk
             m == Close(held, TRUE)
  <1>1. held \in Seq(Words) /\ held = said' OBVIOUS
  <1>2. /\ want.prefilled /\ want'.prefilled /\ gate.buf = said
        /\ ~gate.open /\ gate.dropped = FALSE /\ sent = <<>>
    BY DEF Holding
  <1>3. feed(gate, chunk) =
          IF Closes(held, TRUE) # {}
          THEN IF Opened(held, m) THEN Result(OpenGate, held)
               ELSE _after_drop([OpenGate EXCEPT !.dropped = TRUE], After(held, m))
          ELSE IF want.hold # Unbounded /\ Len(held) >= want.hold
          THEN Result(OpenGate, held)
          ELSE Result([gate EXCEPT !.buf = held], <<>>)
    BY <1>2 DEF feed, MidClose
  <1> HIDE DEF held, m
  <1>4. CASE Closes(held, TRUE) # {} /\ Opened(held, m)
    <2>1. FirstClose(held, TRUE, m) BY <1>1, <1>4, CloseIsFirst DEF m
    <2>2. feed(gate, chunk) = [gate |-> OpenGate, out |-> held]
      BY <1>3, <1>4 DEF Result
    <2>3. gate' = OpenGate /\ sent' = held
      BY <1>1, <1>2, <2>2, ConcatEmptySeq
    <2>4. FirstClose(said', TRUE, m) /\ Opened(said', m) BY <1>1, <1>4, <2>1
    <2>5. Passing' BY <1>1, <2>3, <2>4 DEF Passing, OpenGate
    <2> QED BY <2>5
  <1>5. CASE Closes(held, TRUE) # {} /\ ~Opened(held, m)
    <2> DEFINE v == lstrip(After(held, m))
    <2>1. FirstClose(held, TRUE, m) BY <1>1, <1>5, CloseIsFirst DEF m
    <2>2. m[2] \in Nat /\ m[2] <= Len(held)
      <3>1. m[2] \in 1..Len(held) BY <1>1, <2>1, MatchIn DEF FirstClose
      <3>2. Len(held) \in Nat BY <1>1, LenProperties
      <3> QED BY <3>1, <3>2
    <2>3. After(held, m) \in Seq(Words) BY <1>1, <2>2, AfterIs
    <2>4. v \in Seq(Words) BY <2>3, LstripIs
    <2>5. feed(gate, chunk) = [gate |-> [buf |-> <<>>, open |-> TRUE, dropped |-> v = <<>>],
                               out |-> v]
      <3>1. [OpenGate EXCEPT !.dropped = TRUE] = [buf |-> <<>>, open |-> TRUE, dropped |-> TRUE]
        BY Cutting
      <3>2. _after_drop([buf |-> <<>>, open |-> TRUE, dropped |-> TRUE], After(held, m)) =
              [gate |-> [buf |-> <<>>, open |-> TRUE, dropped |-> v = <<>>], out |-> v]
        BY DEF _after_drop, Result
      <3> QED BY <1>3, <1>5, <3>1, <3>2
    <2> HIDE DEF v
    <2>6. gate' = [buf |-> <<>>, open |-> TRUE, dropped |-> v = <<>>] /\ sent' = v
      BY <1>2, <2>4, <2>5, ConcatEmptySeq
    <2>7. FirstClose(said', TRUE, m) /\ ~Opened(said', m) /\ sent' = lstrip(After(said', m))
      BY <1>1, <1>5, <2>1, <2>6 DEF v
    <2>8. Dropping' BY <1>2, <2>6, <2>7 DEF Dropping
    <2> QED BY <2>8
  <1>6. CASE Closes(held, TRUE) = {} /\ want.hold # Unbounded /\ Len(held) >= want.hold
    <2>1. feed(gate, chunk) = [gate |-> OpenGate, out |-> held]
      BY <1>3, <1>6 DEF Result
    <2>2. gate' = OpenGate /\ sent' = held BY <1>1, <1>2, <2>1, ConcatEmptySeq
    <2>3. want.hold \in Nat BY <1>6, Wanted
    <2>4. Late(said)' BY <1>1, <1>6, <2>3 DEF Late
    <2>5. Passing' BY <1>1, <2>2, <2>4 DEF Passing, OpenGate
    <2> QED BY <2>5
  <1>7. CASE Closes(held, TRUE) = {} /\ ~(want.hold # Unbounded /\ Len(held) >= want.hold)
    <2>1. feed(gate, chunk) = [gate |-> [buf |-> held, open |-> FALSE, dropped |-> FALSE],
                               out |-> <<>>]
      <3>1. [gate EXCEPT !.buf = held] = [buf |-> held, open |-> FALSE, dropped |-> FALSE]
        <4>1. gate = [buf |-> said, open |-> FALSE, dropped |-> FALSE] BY DEF Holding
        <4> QED BY <4>1, HoldsMore
      <3> QED BY <1>3, <1>7, <3>1 DEF Result
    <2>2. /\ gate' = [buf |-> held, open |-> FALSE, dropped |-> FALSE]
          /\ sent' = <<>>
      BY <1>2, <2>1, ConcatEmptySeq
    <2>3. Holding' BY <1>1, <1>2, <1>7, <2>2 DEF Holding
    <2> QED BY <2>3
  <1> QED BY <1>4, <1>5, <1>6, <1>7

\* Once all goes out as it is said, it goes on so.
LEMMA PassingFeeds ==
  ASSUME want \in Want, said \in Seq(Words), NEW chunk \in Seq(Words), Passing,
         said' = said \o chunk, want' = want,
         gate' = feed(gate, chunk).gate, sent' = sent \o feed(gate, chunk).out
  PROVE  Passing'
  <1>1. said' \in Seq(Words) /\ Begins(said, said') /\ Len(said') = Len(said) + Len(chunk)
        /\ Len(said) \in Nat /\ Len(chunk) \in Nat
    BY BeginsMore
  <1>2. feed(gate, chunk) = [gate |-> gate, out |-> chunk]
    BY DEF Passing, OpenGate, feed, _after_drop, Result
  <1>3. gate' = OpenGate /\ sent' = said' BY <1>2 DEF Passing
  <1>4. CASE ~want.prefilled
    BY <1>3, <1>4 DEF Passing, OpenGate
  <1>5. ASSUME NEW m, FirstClose(said, TRUE, m), Opened(said, m) PROVE Passing'
    <2>1. FirstClose(said', TRUE, m) /\ Opened(said', m) BY <1>1, <1>5, FirstStays
    <2> QED BY <1>3, <2>1 DEF Passing, OpenGate
  <1>6. CASE Late(said)
    <2>1. want.hold \in Nat /\ want.hold <= Len(said)
          /\ \A m \in Closes(said, TRUE) : want.hold <= m[2]
      BY <1>6 DEF Late
    <2>2. ASSUME NEW n \in Closes(said', TRUE) PROVE want.hold <= n[2]
      <3>1. n[2] \in 1..Len(said') BY <1>1, <2>2, MatchIn
      <3>2. n[2] < Len(said) => n \in Closes(said, TRUE) BY <1>1, SameLine
      <3>3. n[2] \in Nat BY <1>1, <3>1
      <3>4. CASE n[2] < Len(said) BY <2>1, <3>2, <3>4
      <3>5. CASE ~(n[2] < Len(said)) BY <1>1, <2>1, <3>3, <3>5
      <3> QED BY <3>4, <3>5
    <2>3. want.hold <= Len(said') BY <1>1, <2>1
    <2>4. Late(said)' BY <2>1, <2>2, <2>3 DEF Late
    <2> QED BY <1>3, <2>4 DEF Passing, OpenGate
  <1> QED BY <1>4, <1>5, <1>6 DEF Passing

\* What is cut at its head once, is sent as it comes after that.
LEMMA DroppingFeeds ==
  ASSUME want \in Want, said \in Seq(Words), NEW chunk \in Seq(Words), Dropping,
         said' = said \o chunk, want' = want,
         gate' = feed(gate, chunk).gate, sent' = sent \o feed(gate, chunk).out
  PROVE  Dropping'
  <1>1. said' \in Seq(Words) /\ Begins(said, said') BY BeginsMore
  <1>2. PICK m : FirstClose(said, TRUE, m) /\ ~Opened(said, m)
                 /\ sent = lstrip(After(said, m))
    BY DEF Dropping
  <1>3. /\ FirstClose(said', TRUE, m) /\ ~Opened(said', m)
        /\ m \in (1..Len(said)) \X (1..Len(said)) /\ m[2] < Len(said)
    BY <1>1, <1>2, FirstStays
  <1>4. m[2] \in Nat /\ m[2] < Len(said) BY <1>3
  <1> DEFINE v == After(said, m)
             w == After(said', m)
  <1>5. v \in Seq(Words) /\ w = v \o chunk BY <1>4, AfterMore
  <1>6. sent = lstrip(v) /\ sent \in Seq(Words)
    BY <1>2, <1>5, LstripIs
  <1> HIDE DEF v, w
  <1>7. lstrip(w) = IF sent = <<>> THEN lstrip(chunk) ELSE sent \o chunk
    BY <1>5, <1>6, LstripMore
  <1>8. gate = [buf |-> <<>>, open |-> TRUE, dropped |-> sent = <<>>] BY DEF Dropping
  <1>9. lstrip(chunk) \in Seq(Words) BY LstripIs
  <1>10. /\ sent' = lstrip(w)
         /\ gate' = [buf |-> <<>>, open |-> TRUE, dropped |-> lstrip(w) = <<>>]
    <2>1. CASE sent = <<>>
      <3>1. feed(gate, chunk) =
              [gate |-> [buf |-> <<>>, open |-> TRUE, dropped |-> lstrip(chunk) = <<>>],
               out |-> lstrip(chunk)]
        BY <1>8, <2>1 DEF feed, _after_drop, Result
      <3> QED BY <1>7, <1>9, <2>1, <3>1, ConcatEmptySeq
    <2>2. CASE sent # <<>>
      <3>1. feed(gate, chunk) = [gate |-> gate, out |-> chunk]
        BY <1>8, <2>2 DEF feed, _after_drop, Result
      <3>2. sent \o chunk # <<>>
        <4>1. Len(sent \o chunk) # 0
          <5>1. Len(sent) \in Nat \ {0} /\ Len(chunk) \in Nat BY <1>6, <2>2, EmptySeq
          <5>2. Len(sent \o chunk) = Len(sent) + Len(chunk) BY <1>6
          <5> QED BY <5>1, <5>2
        <4> QED BY <4>1
      <3>3. sent' = sent \o chunk /\ gate' = gate BY <3>1
      <3>4. (sent = <<>>) = FALSE /\ (lstrip(w) = <<>>) = FALSE BY <1>7, <2>2, <3>2
      <3>5. gate = [buf |-> <<>>, open |-> TRUE, dropped |-> FALSE] BY <1>8, <3>4
      <3> QED BY <1>7, <2>2, <3>3, <3>4, <3>5
    <2> QED BY <2>1, <2>2
  <1>11. want'.prefilled BY DEF Dropping
  <1> QED BY <1>3, <1>10, <1>11 DEF Dropping, w

-----------------------------------------------------------------------------
(***************************************************************************)
(* A generation, from its first chunk to its end.                          *)
(***************************************************************************)
\* Before anything is said.
LEMMA GateInit ==
  Init => GateInvariant
  <1> SUFFICES ASSUME Init PROVE GateInvariant OBVIOUS
  <1>1. /\ want \in Want /\ said = <<>> /\ sent = <<>> /\ gate = NewGate
        /\ answer.done = FALSE
    BY DEF Init, NoAnswer
  <1>2. /\ <<>> \in Seq(Words) /\ <<>> \in Seq(Words \cup ToolWords) /\ Len(<<>>) = 0
        /\ MaxText \in Nat /\ MaxToolText \in Nat
    BY StripAssumption
  <1>3. gate.buf = <<>> /\ gate.open \in BOOLEAN /\ gate.dropped \in BOOLEAN
    <2>1. gate.buf = <<>> BY <1>1 DEF NewGate
    <2>2. gate.open = (want.hold = 0 \/ ~want.prefilled) BY <1>1 DEF NewGate
    <2>3. gate.dropped = FALSE BY <1>1 DEF NewGate
    <2> QED BY <2>1, <2>2, <2>3
  <1>4. TypeOK
    <2>1. answer.done \in BOOLEAN BY <1>1
    <2>2. Len(said) = 0 /\ Len(sent) = 0 /\ 0 <= MaxText + MaxToolText BY <1>1, <1>2
    <2>3. Len(said) <= MaxText + MaxToolText /\ Len(sent) <= Len(said) BY <2>2
    <2> QED BY <1>1, <1>2, <1>3, <2>1, <2>3 DEF TypeOK
  <1>5. Closes(said, TRUE) = {}
    <2> SUFFICES ASSUME NEW m \in Closes(said, TRUE) PROVE FALSE OBVIOUS
    <2>1. m[2] \in 1..0 BY <1>1, <1>2, MatchIn
    <2> QED BY <2>1
  <1>6. Holding \/ Passing
    <2>1. CASE ~want.prefilled
      <3>1. gate = OpenGate BY <1>1, <2>1 DEF NewGate, OpenGate
      <3> QED BY <1>1, <2>1, <3>1 DEF Passing
    <2>2. CASE want.prefilled /\ want.hold = 0
      <3>1. gate = OpenGate
        <4>1. (want.hold = 0 \/ ~want.prefilled) = TRUE BY <2>2
        <4> QED BY <1>1, <4>1 DEF NewGate, OpenGate
      <3>2. Late(said)
        <4>1. Len(said) = 0 BY <1>1, <1>2
        <4>2. want.hold \in Nat /\ want.hold <= Len(said) BY <2>2, <4>1
        <4> QED BY <1>5, <4>2 DEF Late
      <3> QED BY <1>1, <3>1, <3>2 DEF Passing
    <2>3. CASE want.prefilled /\ want.hold # 0
      <3>1. gate = [buf |-> said, open |-> FALSE, dropped |-> FALSE]
        BY <1>1, <2>3 DEF NewGate
      <3> QED BY <1>1, <1>5, <2>3, <3>1 DEF Holding
    <2> QED BY <2>1, <2>2, <2>3
  <1>7. StreamIsBuffered BY <1>1 DEF StreamIsBuffered
  <1> QED BY <1>1, <1>2, <1>4, <1>6, <1>7 DEF GateInvariant

\* The types of a gate and of what it sent.
GateTyped ==
  /\ gate.open \in BOOLEAN /\ gate.dropped \in BOOLEAN
  /\ gate.buf \in Seq(Words) /\ (gate.open => gate.buf = <<>>)
  /\ sent \in Seq(Words) /\ Len(sent) <= Len(said)

\* What is sent is no longer than what was said.
LEMMA StateIs ==
  said \in Seq(Words) /\ want \in Want /\ (Holding \/ Passing \/ Dropping) => GateTyped
  <1> SUFFICES ASSUME said \in Seq(Words), want \in Want, Holding \/ Passing \/ Dropping
               PROVE  GateTyped
    OBVIOUS
  <1>1. Len(said) \in Nat /\ <<>> \in Seq(Words) /\ Len(<<>>) = 0 OBVIOUS
  <1>2. CASE Holding
    <2>1. gate.open = FALSE /\ gate.buf = said /\ sent = <<>> BY <1>2 DEF Holding
    <2>2. gate.dropped = FALSE BY <1>2 DEF Holding
    <2>3. gate.open \in BOOLEAN /\ gate.dropped \in BOOLEAN BY <2>1, <2>2
    <2>4. Len(sent) <= Len(said) BY <1>1, <2>1
    <2> QED BY <1>1, <2>1, <2>3, <2>4 DEF GateTyped
  <1>3. CASE Passing
    <2>1. gate.open = TRUE /\ gate.buf = <<>> /\ sent = said
      BY <1>3 DEF Passing, OpenGate
    <2>2. gate.dropped = FALSE BY <1>3 DEF Passing, OpenGate
    <2>3. gate.open \in BOOLEAN /\ gate.dropped \in BOOLEAN BY <2>1, <2>2
    <2>4. Len(sent) <= Len(said) BY <1>1, <2>1
    <2> QED BY <1>1, <2>1, <2>3, <2>4 DEF GateTyped
  <1>4. CASE Dropping
    <2>1. gate.open \in BOOLEAN /\ gate.dropped \in BOOLEAN /\ gate.buf = <<>>
      <3>1. gate.open = TRUE /\ gate.buf = <<>> BY <1>4 DEF Dropping
      <3>2. gate.dropped = (sent = <<>>) BY <1>4 DEF Dropping
      <3> QED BY <3>1, <3>2
    <2>2. PICK m : FirstClose(said, TRUE, m) /\ sent = lstrip(After(said, m))
      BY <1>4 DEF Dropping
    <2>3. m[2] \in Nat /\ m[2] <= Len(said)
      <3>1. m[2] \in 1..Len(said) BY <2>2, MatchIn DEF FirstClose
      <3> QED BY <1>1, <3>1
    <2> DEFINE v == After(said, m)
    <2>4. v \in Seq(Words) /\ Len(v) <= Len(said) BY <2>3, AfterIs
    <2> HIDE DEF v
    <2>5. sent \in Seq(Words) /\ Len(sent) <= Len(v) BY <2>2, <2>4, LstripIs DEF v
    <2>6. Len(sent) \in Nat /\ Len(v) \in Nat BY <2>4, <2>5, LenProperties
    <2>7. Len(sent) <= Len(said) BY <1>1, <2>4, <2>5, <2>6
    <2> QED BY <1>1, <2>1, <2>5, <2>7 DEF GateTyped
  <1> QED BY <1>2, <1>3, <1>4

\* A chunk.
LEMMA GateSays ==
  ASSUME GateInvariant, NEW chunk \in Chunks, Say(chunk)
  PROVE  GateInvariant'
  <1>1. /\ want' = want /\ answer' = answer /\ ~answer.done /\ said' = said \o chunk
        /\ Len(said) + Len(chunk) <= (IF want.tools THEN MaxToolText ELSE MaxText)
    BY DEF Say
  <1>2. /\ want \in Want /\ said \in Seq(Words \cup ToolWords) /\ answer.done \in BOOLEAN
        /\ sent \in Seq(Words) /\ Len(sent) <= Len(said)
    BY DEF GateInvariant, TypeOK
  <1>3. /\ chunk \in Seq(Words \cup ToolWords) /\ (Streamed => chunk \in Seq(Words))
    BY <1>2, ChunksAre
  <1>4. said' \in Seq(Words \cup ToolWords) /\ Len(said') = Len(said) + Len(chunk)
        /\ Len(said) \in Nat /\ Len(chunk) \in Nat
    BY <1>1, <1>2, <1>3, BeginsMore
  <1>5. /\ Len(said') <= IF want.tools THEN MaxToolText ELSE MaxText
        /\ Len(said') <= MaxText + MaxToolText
    BY <1>1, <1>4, StripAssumption
  <1>6. StreamIsBuffered' BY <1>1 DEF StreamIsBuffered
  <1>7. CASE Streamed
    <2>1. /\ said \in Seq(Words) /\ chunk \in Seq(Words)
          /\ Holding \/ Passing \/ Dropping
      BY <1>1, <1>3, <1>7 DEF GateInvariant
    <2>2. gate' = feed(gate, chunk).gate /\ sent' = sent \o feed(gate, chunk).out
      BY <1>7 DEF Say
    <2>3. (Holding \/ Passing \/ Dropping)'
      BY <1>1, <1>2, <2>1, <2>2, HoldingFeeds, PassingFeeds, DroppingFeeds
    <2>4. said' \in Seq(Words) BY <1>1, <2>1
    <2>5. /\ gate'.open \in BOOLEAN /\ gate'.dropped \in BOOLEAN
          /\ gate'.buf \in Seq(Words) /\ (gate'.open => gate'.buf = <<>>)
          /\ sent' \in Seq(Words) /\ Len(sent') <= Len(said')
      <3>1. (said \in Seq(Words) /\ want \in Want)' BY <1>1, <1>2, <2>4
      <3>2. (said \in Seq(Words) /\ want \in Want /\ (Holding \/ Passing \/ Dropping))'
        BY <2>3, <3>1
      <3>3. GateTyped' BY <3>2, StateIs, PTL
      <3> QED BY <3>3 DEF GateTyped
    <2>6. TypeOK' BY <1>1, <1>2, <1>4, <1>5, <2>5 DEF TypeOK
    <2> QED BY <1>1, <1>5, <1>6, <2>3, <2>4, <2>6 DEF GateInvariant
  <1>8. CASE ~Streamed
    <2>1. gate' = gate /\ sent' = sent BY <1>8 DEF Say
    <2>2. ~Streamed' BY <1>1, <1>8 DEF Streamed
    <2>3. Len(sent) \in Nat BY <1>2, LenProperties
    <2>4. Len(sent') <= Len(said') BY <1>2, <1>4, <2>1, <2>3
    <2>5. TypeOK' BY <1>1, <1>2, <1>4, <1>5, <2>1, <2>4 DEF TypeOK, GateInvariant
    <2> QED BY <1>1, <1>5, <1>6, <2>2, <2>5 DEF GateInvariant
  <1> QED BY <1>7, <1>8

\* What went out is what the orphan's strip leaves of it, or all, for a tag
\* that ends late.
SameAs(out) ==
  \/ out = IF want.prefilled THEN _strip_orphan_think(said) ELSE said
  \/ want.hold # Unbounded /\ out = said /\ Close(said, FALSE)[2] >= want.hold

\* What has gone out when a generation ends.
LEMMA SameText ==
  ASSUME said \in Seq(Words), want \in Want, Holding \/ Passing \/ Dropping,
         NEW out, out = IF gate.open THEN sent ELSE _strip_orphan_think(said)
  PROVE  SameAs(out)
  <1> DEFINE whole == IF want.prefilled THEN _strip_orphan_think(said) ELSE said
  <1> USE DEF SameAs
  <1>1. Begins(said, said) /\ Len(said) \in Nat BY DEF Begins
  <1>2. CASE Holding
    <2>1. ~gate.open /\ want.prefilled BY <1>2 DEF Holding
    <2> QED BY <2>1
  <1>3. CASE Passing
    <2>1. gate.open /\ sent = said BY <1>3 DEF Passing, OpenGate
    <2>2. out = said BY <2>1
    <2>3. CASE ~want.prefilled BY <2>2, <2>3
    <2>4. ASSUME NEW m, FirstClose(said, TRUE, m), Opened(said, m) PROVE out = whole
      <3>1. FirstClose(said, FALSE, m) BY <1>1, <2>4, FirstStays
      <3>2. _strip_orphan_think(said) = said BY <2>4, <3>1, StripIs
      <3> QED BY <2>2, <3>2
    <2>5. CASE Late(said)
      <3>1. CASE Closes(said, FALSE) = {}
        <4>1. _strip_orphan_think(said) = said BY <3>1, StripIs
        <4> QED BY <2>2, <4>1
      <3>2. CASE Closes(said, FALSE) # {}
        <4> DEFINE m == Close(said, FALSE)
        <4>1. m \in Closes(said, FALSE) BY <3>2, CloseIsFirst DEF FirstClose
        <4> HIDE DEF m
        <4>2. m[2] \in 1..Len(said) BY <4>1, MatchIn
        <4>3. m[2] < Len(said) => m \in Closes(said, TRUE) BY <1>1, <4>1, SameLine
        <4>4. want.hold \in Nat /\ want.hold <= Len(said)
              /\ \A n \in Closes(said, TRUE) : want.hold <= n[2]
          BY <2>5 DEF Late
        <4>5. want.hold # Unbounded BY <4>4, Wanted
        <4>6. m[2] >= want.hold
          <5>1. CASE m[2] < Len(said) BY <4>2, <4>3, <4>4, <5>1
          <5>2. CASE ~(m[2] < Len(said)) BY <1>1, <4>2, <4>4, <5>2
          <5> QED BY <5>1, <5>2
        <4> QED BY <2>2, <4>5, <4>6 DEF m
      <3> QED BY <3>1, <3>2
    <2> QED BY <1>3, <2>3, <2>4, <2>5 DEF Passing
  <1>4. CASE Dropping
    <2>1. gate.open /\ want.prefilled BY <1>4 DEF Dropping
    <2>2. PICK m : FirstClose(said, TRUE, m) /\ ~Opened(said, m)
                   /\ sent = lstrip(After(said, m))
      BY <1>4 DEF Dropping
    <2>3. FirstClose(said, FALSE, m) BY <1>1, <2>2, FirstStays
    <2>4. _strip_orphan_think(said) = sent BY <2>2, <2>3, StripIs
    <2> QED BY <2>1, <2>4
  <1> QED BY <1>2, <1>3, <1>4

\* The end of a generation.
LEMMA GateFinishes ==
  ASSUME GateInvariant, Finish
  PROVE  GateInvariant'
  <1>1. want' = want /\ said' = said /\ answer'.done = TRUE /\ ~answer.done
    <2>1. want' = want /\ said' = said /\ ~answer.done BY DEF Finish
    <2>2. CASE Streamed
      <3>1. answer' = [answer EXCEPT !.done = TRUE] BY <2>2 DEF Finish
      <3> QED BY <2>1, <3>1
    <2>3. CASE ~Streamed BY <2>1, <2>3 DEF Finish
    <2> QED BY <2>2, <2>3
  <1>2. /\ want \in Want /\ said \in Seq(Words \cup ToolWords)
        /\ Len(said) <= MaxText + MaxToolText
        /\ Len(said) <= IF want.tools THEN MaxToolText ELSE MaxText
    BY DEF GateInvariant, TypeOK
  <1>3. CASE Streamed
    <2>1. said \in Seq(Words) /\ (Holding \/ Passing \/ Dropping)
      BY <1>1, <1>3 DEF GateInvariant
    <2>2. GateTyped BY <1>2, <2>1, StateIs
    <2>3. gate' = flush(gate).gate /\ sent' = sent \o flush(gate).out
      BY <1>3 DEF Finish
    <2>9. ~gate.open => gate.buf = said /\ sent = <<>>
      <3>1. Passing => gate.open BY DEF Passing, OpenGate
      <3>2. Dropping => gate.open BY DEF Dropping
      <3>3. Holding => gate.buf = said /\ sent = <<>> BY DEF Holding
      <3> QED BY <2>1, <3>1, <3>2, <3>3
    <2> DEFINE out == IF gate.open THEN sent ELSE _strip_orphan_think(said)
    <2>4. sent' = out /\ gate'.buf = <<>> /\ gate'.open \in BOOLEAN /\ gate'.dropped \in BOOLEAN
      <3>1. CASE gate.open
        <4>1. flush(gate) = [gate |-> gate, out |-> <<>>] BY <3>1 DEF flush, Result
        <4>2. sent \o <<>> = sent BY <2>2, ConcatEmptySeq DEF GateTyped
        <4>3. gate' = gate /\ sent' = sent BY <2>3, <4>1, <4>2
        <4>4. gate.buf = <<>> /\ gate.open \in BOOLEAN /\ gate.dropped \in BOOLEAN
          BY <2>2, <3>1 DEF GateTyped
        <4> QED BY <3>1, <4>3, <4>4
      <3>2. CASE ~gate.open /\ gate.buf = <<>>
        <4>1. flush(gate) = [gate |-> gate, out |-> <<>>] BY <3>2 DEF flush, Result
        <4>2. said = <<>> /\ sent = <<>> BY <2>9, <3>2
        <4>3. Closes(said, FALSE) = {}
          <5> SUFFICES ASSUME NEW m \in Closes(said, FALSE) PROVE FALSE OBVIOUS
          <5>1. Len(said) = 0 BY <4>2
          <5>2. m[2] \in 1..0 BY <2>1, <5>1, MatchIn
          <5> QED BY <5>2
        <4>4. _strip_orphan_think(said) = <<>> BY <2>1, <4>2, <4>3, StripIs
        <4>5. sent \o <<>> = sent BY <2>2, ConcatEmptySeq DEF GateTyped
        <4>6. out = <<>> BY <3>2, <4>4
        <4> HIDE DEF out
        <4> QED BY <2>2, <2>3, <3>2, <4>1, <4>2, <4>5, <4>6 DEF GateTyped
      <3>3. CASE ~gate.open /\ gate.buf # <<>>
        <4>1. gate.buf = said /\ sent = <<>>
          BY <2>9, <3>3
        <4>2. flush(gate) = [gate |-> OpenGate, out |-> _strip_orphan_think(said)]
          BY <3>3, <4>1 DEF flush, Result
        <4>3. _strip_orphan_think(said) \in Seq(Words) BY <2>1, StripIs
        <4>4. sent' = _strip_orphan_think(said) /\ gate' = OpenGate
          BY <2>3, <4>1, <4>2, <4>3, ConcatEmptySeq
        <4>5. gate'.buf = <<>> /\ gate'.open = TRUE BY <4>4 DEF OpenGate
        <4>6. gate'.dropped = FALSE BY <4>4 DEF OpenGate
        <4>7. gate'.open \in BOOLEAN /\ gate'.dropped \in BOOLEAN BY <4>5, <4>6
        <4> QED BY <3>3, <4>4, <4>5, <4>7
      <3> QED BY <3>1, <3>2, <3>3
    <2>5. out \in Seq(Words) /\ Len(out) <= Len(said)
      <3>1. _strip_orphan_think(said) \in Seq(Words)
            /\ Len(_strip_orphan_think(said)) <= Len(said)
        BY <2>1, StripIs
      <3> QED BY <2>2, <3>1 DEF GateTyped
    <2>6. SameAs(out)
      <3> HIDE DEF out
      <3>1. out = IF gate.open THEN sent ELSE _strip_orphan_think(said) BY DEF out
      <3> QED BY <1>2, <2>1, <3>1, SameText
    <2> HIDE DEF out
    <2>7. StreamIsBuffered' BY <1>1, <2>4, <2>6 DEF StreamIsBuffered, SameAs, _maybe_strip_think
    <2>8. TypeOK'
      <3>1. answer'.done \in BOOLEAN /\ gate'.buf \in Seq(Words)
        <4>1. answer'.done \in BOOLEAN BY <1>1
        <4>2. <<>> \in Seq(Words) OBVIOUS
        <4> QED BY <2>4, <4>1, <4>2
      <3>2. sent' \in Seq(Words) /\ Len(sent') <= Len(said') BY <1>1, <2>4, <2>5
      <3> QED BY <1>1, <1>2, <2>4, <3>1, <3>2 DEF TypeOK
    <2> QED BY <1>1, <1>2, <2>1, <2>4, <2>7, <2>8 DEF GateInvariant
  <1>4. CASE ~Streamed
    <2>1. gate' = gate /\ sent' = sent BY <1>4 DEF Finish
    <2>2. ~Streamed' BY <1>1, <1>4 DEF Streamed
    <2>3. answer'.done \in BOOLEAN BY <1>1
    <2>4. TypeOK' BY <1>1, <2>1, <2>3 DEF TypeOK, GateInvariant
    <2>5. StreamIsBuffered' BY <2>2 DEF StreamIsBuffered
    <2> QED BY <1>1, <1>2, <2>2, <2>4, <2>5 DEF GateInvariant
  <1> QED BY <1>3, <1>4

-----------------------------------------------------------------------------
\* In whatever chunks a generation comes, the gate holds all of it, passes all
\* of it on, or has cut it once.
THEOREM GateInvariantHolds ==
  Spec => []GateInvariant
  <1>1. GateInvariant /\ [Next]_vars => GateInvariant'
    <2> SUFFICES ASSUME GateInvariant, [Next]_vars PROVE GateInvariant' OBVIOUS
    <2>1. CASE Finish BY <2>1, GateFinishes
    <2>2. ASSUME NEW chunk \in Chunks, Say(chunk) PROVE GateInvariant' BY <2>2, GateSays
    <2>3. CASE UNCHANGED vars
      <3>1. /\ want' = want /\ said' = said /\ gate' = gate
            /\ sent' = sent /\ answer' = answer
        BY <2>3 DEF vars
      <3>2. TypeOK' BY <3>1 DEF GateInvariant, TypeOK
      <3>3. StreamIsBuffered' BY <3>1 DEF GateInvariant, StreamIsBuffered, Streamed, _maybe_strip_think
      <3>4. (Holding \/ Passing \/ Dropping) => (Holding \/ Passing \/ Dropping)'
        BY <3>1 DEF Holding, Passing, Dropping, OpenGate, Late
      <3> QED BY <3>1, <3>2, <3>3, <3>4 DEF GateInvariant, Streamed
    <2> QED BY <2>1, <2>2, <2>3 DEF Next
  <1> QED BY <1>1, GateInit, PTL DEF Spec

\* However its chunks fall, a stream says in the end what a buffered answer
\* would have said, and under GENIE_STRIP_THINK that and the <think> pairs
\* besides; or, under a bounded hold, all of the generation.
THEOREM StreamIsBufferedHolds ==
  Spec => []StreamIsBuffered
  <1>1. GateInvariant => StreamIsBuffered BY DEF GateInvariant
  <1> QED BY <1>1, GateInvariantHolds, PTL

\* Until there is something to strip, what was sent and what is held are, in
\* order, what was said.
THEOREM NothingLostHolds ==
  Spec => []NothingLost
  <1>1. GateInvariant => NothingLost
    <2> SUFFICES ASSUME GateInvariant, Streamed,
                        Closes(said, FALSE) = {} \/ Opened(said, Close(said, FALSE))
                 PROVE  sent \o gate.buf = said
      BY DEF GateInvariant, NothingLost
    <2>1. said \in Seq(Words) /\ sent \in Seq(Words) BY DEF GateInvariant, TypeOK
    <2>2. _strip_orphan_think(said) = said BY DEF _strip_orphan_think
    <2>3. CASE answer.done
      <3>1. gate.buf = <<>> /\ sent = said
        BY <2>2, <2>3 DEF GateInvariant, StreamIsBuffered, _maybe_strip_think
      <3> QED BY <2>1, <3>1, ConcatEmptySeq
    <2>4. CASE Holding
      <3>1. gate.buf = said /\ sent = <<>> BY <2>4 DEF Holding
      <3> QED BY <2>1, <3>1, ConcatEmptySeq
    <2>5. CASE Passing
      <3>1. gate.buf = <<>> /\ sent = said BY <2>5 DEF Passing, OpenGate
      <3> QED BY <2>1, <3>1, ConcatEmptySeq
    <2>6. CASE Dropping
      <3>1. PICK m : FirstClose(said, TRUE, m) /\ ~Opened(said, m) BY <2>6 DEF Dropping
      <3>2. Begins(said, said)
        <4>1. Len(said) \in Nat BY <2>1
        <4> QED BY <4>1 DEF Begins
      <3>3. FirstClose(said, FALSE, m) BY <2>1, <3>1, <3>2, FirstStays
      <3>4. Closes(said, FALSE) # {} /\ Close(said, FALSE) = m
        BY <2>1, <3>3, CloseIsFirst
      <3> QED BY <3>1, <3>4
    <2> QED BY <2>3, <2>4, <2>5, <2>6 DEF GateInvariant
  <1> QED BY <1>1, GateInvariantHolds, PTL

-----------------------------------------------------------------------------
(***************************************************************************)
(* Recursion.  Pairs and Blocks go through a text from left to right and   *)
(* jump ahead; Outside goes through it symbol by symbol.  All three are    *)
(* recursive functions: Leaps says that one that only jumps ahead exists,  *)
(* and Lands what its values are like.  Induction is stated of sets.       *)
(***************************************************************************)
\* Induction, of sets of naturals.
LEMMA NatInduct ==
  ASSUME NEW P \in SUBSET Nat, 0 \in P, \A n \in P : n + 1 \in P
  PROVE  P = Nat
  <1> SUFFICES ASSUME P # Nat PROVE FALSE OBVIOUS
  <1> DEFINE T == Nat \ P
  <1>1. T \in SUBSET Nat /\ T # {} OBVIOUS
  <1> HIDE DEF T
  <1>2. Min(T) \in T /\ \A y \in T : Min(T) <= y BY <1>1, Least
  <1>3. PICK x \in T : \A y \in T : x <= y BY <1>2
  <1>4. x # 0 /\ x \in Nat BY DEF T
  <1>5. x - 1 \in Nat /\ x - 1 \notin T BY <1>3, <1>4
  <1>6. x \in P BY <1>4, <1>5 DEF T
  <1> QED BY <1>6 DEF T

\* What a recursion over 1..N says of its values that stops at some places and
\* takes a step from where it jumps to at the others.
Leaping(g, N, Stop, base, jump, step) ==
  \A k \in 1..N : g[k] = IF k \in Stop THEN base[k] ELSE step[k][g[jump[k]]]

\* If it jumps ahead it has a solution.
LEMMA Leaps ==
  ASSUME NEW N \in Nat, NEW V, NEW Stop, NEW base \in [1..N -> V],
         NEW jump \in [1..N -> 1..N], NEW step \in [1..N -> [V -> V]],
         \A k \in 1..N : k \notin Stop => jump[k] > k
  PROVE  \E g \in [1..N -> V] : Leaping(g, N, Stop, base, jump, step)
  <1> DEFINE Solves(g, k) == g[k] = IF k \in Stop THEN base[k] ELSE step[k][g[jump[k]]]
             P == {m \in Nat : \E g \in [1..N -> V] : \A k \in 1..N : N - m < k => Solves(g, k)}
  <1>1. 0 \in P
    <2>1. \A k \in 1..N : ~(N - 0 < k) OBVIOUS
    <2> QED BY <2>1
  <1>2. ASSUME NEW m \in P PROVE m + 1 \in P
    <2>1. m \in Nat OBVIOUS
    <2>2. PICK g \in [1..N -> V] : \A k \in 1..N : N - m < k => Solves(g, k) OBVIOUS
    <2>3. CASE N - m \notin 1..N
      <3>1. \A k \in 1..N : N - (m + 1) < k => N - m < k BY <2>1, <2>3
      <3>2. \A k \in 1..N : N - (m + 1) < k => Solves(g, k) BY <2>2, <3>1
      <3> HIDE DEF Solves
      <3> QED BY <2>1, <3>2
    <2>4. CASE N - m \in 1..N
      <3> DEFINE at == N - m
                 new == IF at \in Stop THEN base[at] ELSE step[at][g[jump[at]]]
                 h == [g EXCEPT ![at] = new]
      <3>1. new \in V
        <4>1. at \in 1..N BY <2>4
        <4> HIDE DEF at
        <4>2. base[at] \in V /\ jump[at] \in 1..N /\ step[at] \in [V -> V] BY <4>1
        <4>3. g[jump[at]] \in V BY <4>2
        <4> QED BY <4>2, <4>3
      <3>2. h \in [1..N -> V] BY <2>4, <3>1
      <3>3. ASSUME NEW k \in 1..N, N - (m + 1) < k PROVE Solves(h, k)
        <4>1. k = at \/ at < k BY <2>1, <3>3
        <4>2. \A j \in 1..N : at < j => h[j] = g[j] BY <2>1
        <4>3. at \notin Stop => h[jump[at]] = g[jump[at]]
          <5>1. at \notin Stop => jump[at] > at /\ jump[at] \in 1..N BY <2>4
          <5> QED BY <4>2, <5>1
        <4>4. CASE k = at
          <5>1. h[at] = new BY <2>4
          <5> QED BY <4>3, <4>4, <5>1
        <4>5. CASE at < k
          <5>1. Solves(g, k) BY <2>2, <4>5
          <5>2. h[k] = g[k] BY <4>2, <4>5
          <5>3. k \notin Stop => h[jump[k]] = g[jump[k]]
            <6>1. k \notin Stop => jump[k] > k /\ jump[k] \in 1..N OBVIOUS
            <6>2. at \in Nat BY <2>4
            <6>3. k \notin Stop => at < jump[k] BY <4>5, <6>1, <6>2
            <6> QED BY <4>2, <6>1, <6>3
          <5> HIDE DEF h
          <5> QED BY <5>1, <5>2, <5>3
        <4> QED BY <4>1, <4>4, <4>5
      <3> HIDE DEF h, Solves
      <3> QED BY <2>1, <3>2, <3>3
    <2> QED BY <2>3, <2>4
  <1>3. P \in SUBSET Nat OBVIOUS
  <1> HIDE DEF P, Solves
  <1>4. N \in P BY <1>1, <1>2, <1>3, NatInduct
  <1>5. PICK g \in [1..N -> V] : \A k \in 1..N : N - N < k => Solves(g, k)
    BY <1>4 DEF P
  <1>6. \A k \in 1..N : Solves(g, k) BY <1>5
  <1> QED BY <1>6 DEF Solves, Leaping

\* What holds where it stops, and behind a jump if it does where that lands,
\* holds everywhere.
LEMMA Lands ==
  ASSUME NEW N \in Nat, NEW V, NEW g, NEW jump \in [1..N -> 1..N],
         \A k \in 1..N : g[k] \in V \/ (jump[k] > k /\ (g[jump[k]] \in V => g[k] \in V))
  PROVE  \A k \in 1..N : g[k] \in V
  <1> DEFINE P == {m \in Nat : \A k \in 1..N : N - m < k => g[k] \in V}
  <1>1. 0 \in P
    <2>1. \A k \in 1..N : ~(N - 0 < k) OBVIOUS
    <2> QED BY <2>1
  <1>2. ASSUME NEW m \in P PROVE m + 1 \in P
    <2>1. m \in Nat /\ \A k \in 1..N : N - m < k => g[k] \in V OBVIOUS
    <2> HIDE DEF P
    <2>2. ASSUME NEW k \in 1..N, N - (m + 1) < k PROVE g[k] \in V
      <3>1. CASE N - m < k BY <2>1, <3>1
      <3>2. CASE ~(N - m < k)
        <4>1. N - m = k BY <2>1, <2>2, <3>2
        <4>2. jump[k] \in 1..N OBVIOUS
        <4>3. jump[k] > k => g[jump[k]] \in V BY <2>1, <4>1, <4>2
        <4> QED BY <4>3
      <3> QED BY <3>1, <3>2
    <2> QED BY <2>1, <2>2 DEF P
  <1>3. P \in SUBSET Nat OBVIOUS
  <1> HIDE DEF P
  <1>4. N \in P BY <1>1, <1>2, <1>3, NatInduct
  <1>5. \A k \in 1..N : N - N < k OBVIOUS
  <1> QED BY <1>4, <1>5 DEF P

-----------------------------------------------------------------------------
(***************************************************************************)
(* Solid symbols.                                                          *)
(***************************************************************************)
\* A bounded set of naturals has a greatest element.
LEMMA Greatest ==
  ASSUME NEW b \in Nat, NEW T \in SUBSET (1..b), T # {}
  PROVE  Max(T) \in T /\ \A y \in T : y <= Max(T)
  <1> DEFINE D == {b - y : y \in T}
             x == b - Min(D)
  <1>1. D \in SUBSET Nat /\ D # {}
    <2>1. \A y \in T : b - y \in Nat OBVIOUS
    <2> QED BY <2>1
  <1>2. Min(D) \in D /\ \A t \in D : Min(D) <= t
    <2> HIDE DEF D
    <2> QED BY <1>1, Least
  <1>3. x \in T /\ \A y \in T : x >= y
    <2>1. PICK z \in T : Min(D) = b - z BY <1>2
    <2>2. x = z BY <2>1
    <2>3. ASSUME NEW y \in T PROVE x >= y
      <3>1. b - z <= b - y BY <1>2, <2>1
      <3> QED BY <2>2, <3>1
    <2> QED BY <2>2, <2>3
  <1> HIDE DEF x
  <1>4. Max(T) \in T /\ \A y \in T : Max(T) >= y
    <2>1. \E z \in T : \A y \in T : z >= y BY <1>3
    <2> QED BY <2>1, Zenon DEF Max
  <1>5. Max(T) \in Nat /\ \A y \in T : y \in Nat
    <2>1. \A y \in T : y \in 1..b OBVIOUS
    <2>2. \A y \in 1..b : y \in Nat OBVIOUS
    <2> QED BY <1>4, <2>1, <2>2
  <1> QED BY <1>4, <1>5

\* There are finitely many in a text.
LEMMA SolidFinite ==
  ASSUME NEW S, NEW t \in Seq(S)
  PROVE  /\ Solid(t) = {k \in 1..Len(t) : t[k] \notin Blank}
         /\ Solid(t) \in SUBSET (1..Len(t)) /\ IsFiniteSet(Solid(t))
         /\ Cardinality(Solid(t)) \in Nat
  <1>1. Len(t) \in Nat /\ DOMAIN t = 1..Len(t) OBVIOUS
  <1>2. Solid(t) \in SUBSET (1..Len(t)) BY <1>1 DEF Solid
  <1>3. IsFiniteSet(1..Len(t)) BY <1>1, FS_Interval
  <1>4. IsFiniteSet(Solid(t)) BY <1>2, <1>3, FS_Subset
  <1> QED BY <1>1, <1>2, <1>4, FS_CardinalityType DEF Solid

\* One more symbol is one more solid one, or none.
LEMMA SolidMore ==
  ASSUME NEW S, NEW t \in Seq(S), NEW a \in S
  PROVE  Cardinality(Solid(Append(t, a))) =
           IF a \in Blank THEN Cardinality(Solid(t)) ELSE Cardinality(Solid(t)) + 1
  <1> DEFINE n == Len(t)
             w == Append(t, a)
  <1>1. /\ n \in Nat /\ w \in Seq(S) /\ Len(w) = n + 1
        /\ (\A k \in 1..n : w[k] = t[k]) /\ w[n + 1] = a
    BY AppendProperties
  <1>2. /\ Solid(t) = {k \in 1..n : t[k] \notin Blank} /\ IsFiniteSet(Solid(t))
        /\ Solid(w) = {k \in 1..(n + 1) : w[k] \notin Blank}
    BY <1>1, SolidFinite
  <1> HIDE DEF n, w
  <1>3. n + 1 \notin Solid(t) BY <1>1, <1>2
  <1>4. Solid(w) = IF a \in Blank THEN Solid(t) ELSE Solid(t) \cup {n + 1}
    <2>1. \A k \in 1..(n + 1) : k \in 1..n \/ k = n + 1 BY <1>1
    <2>2. \A k \in 1..n : k \in 1..(n + 1) /\ k # n + 1 BY <1>1
    <2>3. n + 1 \in 1..(n + 1) BY <1>1
    <2>4. ASSUME NEW k PROVE k \in Solid(w) <=> k \in Solid(t) \/ (k = n + 1 /\ a \notin Blank)
      BY <1>1, <1>2, <2>1, <2>2, <2>3, <2>4
    <2> QED BY <2>4
  <1>5. Cardinality(Solid(t) \cup {n + 1}) = Cardinality(Solid(t)) + 1
    BY <1>2, <1>3, FS_AddElement
  <1> QED BY <1>4, <1>5 DEF w

\* Of an empty text none is.
LEMMA SolidNone == Solid(<<>>) = {} /\ Cardinality(Solid(<<>>)) = 0
  <1>1. Solid(<<>>) = {} BY DEF Solid
  <1> QED BY <1>1, FS_EmptySet

\* strip keeps what is solid, and what it leaves one symbol of had one.
LEMMA StripKeeps ==
  ASSUME NEW S, NEW t \in Seq(S)
  PROVE  /\ strip(t) \in Seq(S)
         /\ Cardinality(Solid(strip(t))) = Cardinality(Solid(t))
         /\ \A x : strip(t) = <<x>> => \E k \in 1..Len(t) : Solid(t) = {k} /\ t[k] = x
  <1> DEFINE n == Len(t)
  <1>1. /\ n \in Nat /\ Solid(t) \in SUBSET (1..n) /\ IsFiniteSet(Solid(t))
        /\ Solid(t) = {k \in 1..n : t[k] \notin Blank}
        /\ \A k \in 1..n : t[k] \in S
    BY SolidFinite, ElementOfSeq
  <1>2. strip(t) = IF Solid(t) = {} THEN <<>> ELSE SubSeq(t, Min(Solid(t)), Max(Solid(t)))
    BY DEF strip, Solid
  <1>3. CASE Solid(t) = {}
    <2>1. strip(t) = <<>> BY <1>2, <1>3
    <2>2. <<>> \in Seq(S) /\ Len(<<>>) = 0 OBVIOUS
    <2>3. \A x : Len(<<x>>) = 1 OBVIOUS
    <2>4. \A x : strip(t) # <<x>> BY <2>1, <2>2, <2>3
    <2> QED BY <1>3, <2>1, <2>2, <2>4, SolidNone
  <1>4. CASE Solid(t) # {}
    <2> DEFINE f == Min(Solid(t))
               l == Max(Solid(t))
               w == strip(t)
    <2>1. f \in Solid(t) /\ \A k \in Solid(t) : f <= k
      <3>1. \A k \in 1..n : k \in Nat OBVIOUS
      <3>2. Solid(t) \in SUBSET Nat BY <1>1, <3>1
      <3> QED BY <1>4, <3>2, Least
    <2>2. l \in Solid(t) /\ \A k \in Solid(t) : k <= l BY <1>1, <1>4, Greatest
    <2>3. w = SubSeq(t, f, l) BY <1>2, <1>4
    <2> HIDE DEF f, l, w, n
    <2>4. f \in 1..n /\ l \in 1..n /\ f <= l /\ f \in Int /\ l \in Int
      BY <1>1, <2>1, <2>2
    <2>5. /\ w \in Seq(S) /\ Len(w) = l - f + 1
          /\ \A i \in 1..(l - f + 1) : w[i] = t[f + i - 1]
      <3>1. \A i \in f..l : t[i] \in S
        <4>1. \A i \in f..l : i \in 1..n BY <1>1, <2>4
        <4> QED BY <1>1, <4>1
      <3> QED BY <2>3, <2>4, <3>1, SubSeqProperties
    <2>6. Solid(w) = {i \in 1..(l - f + 1) : w[i] \notin Blank} /\ IsFiniteSet(Solid(w))
      <3>1. /\ Solid(w) = {k \in 1..Len(w) : w[k] \notin Blank} /\ IsFiniteSet(Solid(w))
        BY <2>5, SolidFinite
      <3> QED BY <2>5, <3>1
    <2>7. \A i \in 1..(l - f + 1) : f + i - 1 \in 1..n BY <1>1, <2>4
    <2>8. \A k \in Solid(t) : k - f + 1 \in 1..(l - f + 1) /\ f + (k - f + 1) - 1 = k
      <3> SUFFICES ASSUME NEW k \in Solid(t)
                   PROVE  k - f + 1 \in 1..(l - f + 1) /\ f + (k - f + 1) - 1 = k
        OBVIOUS
      <3>1. k \in 1..n /\ f <= k /\ k <= l BY <1>1, <2>1, <2>2
      <3> QED BY <1>1, <2>4, <3>1
    <2> DEFINE h == [i \in Solid(w) |-> f + i - 1]
    <2>9. h \in Bijection(Solid(w), Solid(t))
      <3>1. \A i \in Solid(w) : f + i - 1 \in Solid(t) BY <1>1, <2>5, <2>6, <2>7
      <3>2. \A k \in Solid(t) : k - f + 1 \in Solid(w) /\ h[k - f + 1] = k
        <4> SUFFICES ASSUME NEW k \in Solid(t)
                     PROVE  k - f + 1 \in Solid(w) /\ h[k - f + 1] = k
          OBVIOUS
        <4>1. w[k - f + 1] = t[k] BY <2>5, <2>8
        <4>2. k - f + 1 \in Solid(w) BY <1>1, <2>6, <2>8, <4>1
        <4> QED BY <2>8, <4>2
      <3>3. \A i, j \in Solid(w) : h[i] = h[j] => i = j
        <4>1. \A i \in Solid(w) : i \in Int BY <2>6, <2>4
        <4>2. \A i \in Solid(w) : h[i] = f + i - 1 OBVIOUS
        <4> HIDE DEF h
        <4> QED BY <2>4, <4>1, <4>2
      <3>4. h \in [Solid(w) -> Solid(t)] BY <3>1
      <3> HIDE DEF h
      <3> QED BY <3>2, <3>3, <3>4 DEF Bijection, Injection, Surjection, IsInjective
    <2>10. Cardinality(Solid(w)) = Cardinality(Solid(t))
      <3> HIDE DEF h
      <3>1. ExistsBijection(Solid(w), Solid(t)) BY <2>9 DEF ExistsBijection
      <3> QED BY <2>6, <3>1, FS_Bijection
    <2>11. ASSUME NEW x, w = <<x>> PROVE \E k \in 1..n : Solid(t) = {k} /\ t[k] = x
      <3>1. Len(w) = 1 /\ w[1] = x BY <2>11
      <3>2. l = f
        <4>1. l - f + 1 = 1 BY <2>5, <3>1
        <4>2. l \in Int /\ f \in Int BY <2>4
        <4> HIDE DEF w
        <4> QED BY ONLY <4>1, <4>2
      <3>3. f + 1 - 1 = f /\ 1 \in 1..(l - f + 1) BY <2>4, <3>2
      <3>4. t[f] = x BY <2>5, <3>1, <3>3
      <3>5. Solid(t) = {f}
        <4>1. \A k \in Solid(t) : k \in 1..n /\ f <= k /\ k <= f BY <1>1, <2>1, <2>2, <3>2
        <4>2. \A k \in 1..n : f <= k /\ k <= f => k = f BY <1>1, <2>4
        <4> QED BY <2>1, <4>1, <4>2
      <3> QED BY <2>4, <3>4, <3>5
    <2> QED BY <2>5, <2>10, <2>11 DEF n, w
  <1> QED BY <1>3, <1>4

-----------------------------------------------------------------------------
(***************************************************************************)
(* What is outside of the calls.                                           *)
(***************************************************************************)
\* g takes what is outside of the spans, as far as n.
TakesTo(text, spans, n, g) ==
  g = [k \in 0..n |-> IF k = 0 THEN <<>>
                      ELSE IF Inside(spans, k) THEN g[k - 1] ELSE Append(g[k - 1], text[k])]

\* There is one that does.
LEMMA TakesExist ==
  ASSUME NEW S, NEW text \in Seq(S), NEW spans
  PROVE  \E g : TakesTo(text, spans, Len(text), g)
  <1> DEFINE Is(g, n) == \A k \in 0..n :
                g[k] = IF k = 0 THEN <<>>
                       ELSE IF Inside(spans, k) THEN g[k - 1] ELSE Append(g[k - 1], text[k])
             P == {n \in Nat : n <= Len(text) => \E g \in [0..n -> Seq(S)] : Is(g, n)}
  <1>0. Len(text) \in Nat /\ \A k \in 1..Len(text) : text[k] \in S BY ElementOfSeq
  <1>1. 0 \in P
    <2> DEFINE g == [k \in 0..0 |-> <<>>]
    <2>1. g \in [0..0 -> Seq(S)] /\ \A k \in 0..0 : k = 0 /\ g[k] = <<>> BY EmptySeq
    <2>2. Is(g, 0) BY <2>1
    <2> HIDE DEF g, Is
    <2> QED BY <2>1, <2>2
  <1>2. ASSUME NEW n \in P PROVE n + 1 \in P
    <2>1. n \in Nat OBVIOUS
    <2> SUFFICES ASSUME n + 1 <= Len(text)
                 PROVE  \E g \in [0..(n + 1) -> Seq(S)] : Is(g, n + 1)
      <3> HIDE DEF Is
      <3>1. n + 1 \in Nat BY <2>1
      <3> QED BY <3>1
    <2>2. PICK f \in [0..n -> Seq(S)] : Is(f, n)
      <3> HIDE DEF Is
      <3>1. n <= Len(text) BY <1>0, <2>1
      <3> QED BY <3>1
    <2> HIDE DEF P
    <2>3. text[n + 1] \in S BY <1>0, <2>1
    <2> DEFINE last == IF Inside(spans, n + 1) THEN f[n] ELSE Append(f[n], text[n + 1])
               g == [k \in 0..(n + 1) |-> IF k <= n THEN f[k] ELSE last]
    <2>4. f[n] \in Seq(S) BY <2>1
    <2>5. last \in Seq(S) BY <2>3, <2>4, AppendProperties
    <2>6. g \in [0..(n + 1) -> Seq(S)]
      <3> HIDE DEF last
      <3> QED BY <2>1, <2>5
    <2>7. ASSUME NEW k \in 0..(n + 1)
          PROVE  g[k] = IF k = 0 THEN <<>>
                        ELSE IF Inside(spans, k) THEN g[k - 1] ELSE Append(g[k - 1], text[k])
      <3>1. CASE k \in 0..n
        <4>1. g[k] = f[k] /\ (k # 0 => k - 1 \in 0..n /\ g[k - 1] = f[k - 1])
          BY <2>1, <3>1
        <4> HIDE DEF g
        <4> QED BY <2>2, <3>1, <4>1
      <3>2. CASE k = n + 1
        <4>1. k # 0 /\ k - 1 = n /\ g[n] = f[n] /\ g[k] = last BY <2>1, <3>2
        <4> HIDE DEF g
        <4> QED BY <3>2, <4>1
      <3> QED BY <2>1, <3>1, <3>2
    <2> HIDE DEF g
    <2>8. Is(g, n + 1) BY <2>7
    <2> HIDE DEF Is
    <2> QED BY <2>6, <2>8
  <1>3. P \in SUBSET Nat OBVIOUS
  <1> HIDE DEF P
  <1>4. Len(text) \in P BY <1>0, <1>1, <1>2, <1>3, NatInduct
  <1> DEFINE n == Len(text)
  <1>5. PICK g \in [0..n -> Seq(S)] : Is(g, n)
    <2> HIDE DEF Is
    <2> QED BY <1>0, <1>4 DEF P
  <1> DEFINE e == [k \in 0..n |-> IF k = 0 THEN <<>>
                     ELSE IF Inside(spans, k) THEN g[k - 1] ELSE Append(g[k - 1], text[k])]
  <1>6. g = [k \in 0..n |-> g[k]] /\ e = [k \in 0..n |-> e[k]] OBVIOUS
  <1>7. \A k \in 0..n : g[k] = e[k] BY <1>5
  <1>8. g = e
    <2> HIDE DEF e, n
    <2> QED BY <1>6, <1>7
  <1> QED BY <1>8 DEF TakesTo

\* The symbols that are solid and outside of the spans, as far as n.
Left(text, spans, n) == {k \in 1..n : text[k] \notin Blank /\ ~Inside(spans, k)}

\* All of them, and nothing else that is solid, are in what is taken; with no
\* spans that is the text.
LEMMA OutsideIs ==
  ASSUME NEW S, NEW text \in Seq(S), NEW spans
  PROVE  /\ Outside(text, spans) \in Seq(S)
         /\ Cardinality(Solid(Outside(text, spans))) =
              Cardinality(Left(text, spans, Len(text)))
         /\ spans = {} => Outside(text, spans) = text
  <1> DEFINE n == Len(text)
             G == CHOOSE g : TakesTo(text, spans, n, g)
             P == {k \in Nat : k <= n =>
                     /\ G[k] \in Seq(S)
                     /\ IsFiniteSet(Left(text, spans, k))
                     /\ Cardinality(Solid(G[k])) = Cardinality(Left(text, spans, k))
                     /\ spans = {} => G[k] = SubSeq(text, 1, k)}
  <1>0. n \in Nat /\ \A k \in 1..n : text[k] \in S BY ElementOfSeq
  <1>1. TakesTo(text, spans, n, G) BY TakesExist
  <1>2. Outside(text, spans) = G[n] BY DEF Outside, TakesTo
  <1> HIDE DEF n, G
  <1>3. /\ G[0] = <<>>
        /\ \A k \in 1..n : G[k] = IF Inside(spans, k) THEN G[k - 1]
                                  ELSE Append(G[k - 1], text[k])
    <2> DEFINE h == [k \in 0..n |-> IF k = 0 THEN <<>>
                     ELSE IF Inside(spans, k) THEN G[k - 1] ELSE Append(G[k - 1], text[k])]
    <2>1. G = h BY <1>1 DEF TakesTo
    <2>2. /\ h[0] = <<>>
          /\ \A k \in 1..n : h[k] = IF Inside(spans, k) THEN G[k - 1]
                                    ELSE Append(G[k - 1], text[k])
      BY <1>0
    <2> HIDE DEF h
    <2> QED BY <2>1, <2>2
  <1>4. 0 \in P
    <2>1. Left(text, spans, 0) = {}
      <3>1. 1..0 = {} OBVIOUS
      <3> QED BY <3>1 DEF Left
    <2>2. SubSeq(text, 1, 0) = <<>> BY SubSeqEmpty
    <2>3. <<>> \in Seq(S) BY EmptySeq
    <2> QED BY <1>3, <2>1, <2>2, <2>3, SolidNone, FS_EmptySet
  <1>5. ASSUME NEW k \in P PROVE k + 1 \in P
    <2>1. k \in Nat OBVIOUS
    <2> DEFINE j == k + 1
    <2>2. SUFFICES ASSUME j <= n
                   PROVE  /\ G[j] \in Seq(S)
                          /\ IsFiniteSet(Left(text, spans, j))
                          /\ Cardinality(Solid(G[j])) = Cardinality(Left(text, spans, j))
                          /\ spans = {} => G[j] = SubSeq(text, 1, j)
      BY <2>1
    <2>3. /\ G[k] \in Seq(S) /\ IsFiniteSet(Left(text, spans, k))
          /\ Cardinality(Solid(G[k])) = Cardinality(Left(text, spans, k))
          /\ spans = {} => G[k] = SubSeq(text, 1, k)
      BY <1>0, <2>1, <2>2
    <2>4. j \in 1..n /\ j - 1 = k /\ j \in Nat BY <1>0, <2>1, <2>2
    <2>5. /\ \A i \in 1..j : i \in 1..k \/ i = j
          /\ \A i \in 1..k : i \in 1..j /\ i # j
          /\ j \in 1..j
      BY <2>1
    <2> HIDE DEF P, j
    <2>6. text[j] \in S BY <1>0, <2>4
    <2>7. G[j] = IF Inside(spans, j) THEN G[k] ELSE Append(G[k], text[j]) BY <1>3, <2>4
    <2>8. Left(text, spans, j) = IF text[j] \notin Blank /\ ~Inside(spans, j)
                                 THEN Left(text, spans, k) \cup {j} ELSE Left(text, spans, k)
      <3>1. ASSUME NEW i
            PROVE  i \in Left(text, spans, j) <=>
                     i \in Left(text, spans, k)
                       \/ (i = j /\ text[j] \notin Blank /\ ~Inside(spans, j))
        BY <2>5 DEF Left
      <3> QED BY <3>1
    <2>9. j \notin Left(text, spans, k) BY <2>5 DEF Left
    <2>10. /\ IsFiniteSet(Left(text, spans, k) \cup {j})
           /\ Cardinality(Left(text, spans, k) \cup {j}) = Cardinality(Left(text, spans, k)) + 1
      BY <2>3, <2>9, FS_AddElement
    <2>11. G[j] \in Seq(S) BY <2>3, <2>6, <2>7, AppendProperties
    <2>12. Cardinality(Solid(G[j])) = Cardinality(Left(text, spans, j))
      <3>1. CASE Inside(spans, j) BY <2>3, <2>7, <2>8, <3>1
      <3>2. CASE ~Inside(spans, j)
        <4>1. G[j] = Append(G[k], text[j]) BY <2>7, <3>2
        <4>2. Cardinality(Solid(G[j])) = IF text[j] \in Blank THEN Cardinality(Solid(G[k]))
                                         ELSE Cardinality(Solid(G[k])) + 1
          BY <2>3, <2>6, <4>1, SolidMore
        <4> QED BY <2>3, <2>8, <2>10, <3>2, <4>2
      <3> QED BY <3>1, <3>2
    <2>13. ASSUME spans = {} PROVE G[j] = SubSeq(text, 1, j)
      <3>1. ~Inside(spans, j) BY <2>13 DEF Inside
      <3>2. G[j] = Append(SubSeq(text, 1, k), text[j]) BY <2>3, <2>7, <2>13, <3>1
      <3>3. 1 \in 1..n /\ j \in 1..n BY <1>0, <2>4
      <3>4. SubSeq(text, 1, j) = SubSeq(text, 1, k) \o <<text[j]>>
        BY <2>4, <3>3, SubSeqRecursiveSecond DEF n
      <3>5. SubSeq(text, 1, k) \in Seq(S) BY <2>3, <2>13
      <3> QED BY <2>6, <3>2, <3>4, <3>5, AppendIsConcat
    <2> QED BY <2>8, <2>3, <2>10, <2>11, <2>12, <2>13
  <1>6. P \in SUBSET Nat OBVIOUS
  <1> HIDE DEF P
  <1>7. n \in P BY <1>0, <1>4, <1>5, <1>6, NatInduct
  <1>8. /\ G[n] \in Seq(S)
        /\ Cardinality(Solid(G[n])) = Cardinality(Left(text, spans, n))
        /\ spans = {} => G[n] = SubSeq(text, 1, n)
    BY <1>0, <1>7 DEF P
  <1>9. SubSeq(text, 1, n) = text BY SubSeqFull DEF n
  <1> QED BY <1>2, <1>8, <1>9 DEF n

-----------------------------------------------------------------------------
(***************************************************************************)
(* Blocks and pairs.                                                       *)
(***************************************************************************)
\* Where a block can be: from an opening tag to a closing one of its kind.
Tagged(text) ==
  {block \in (1..Len(text)) \X (1..Len(text)) :
     /\ block[1] < block[2] /\ text[block[1]] \in DOMAIN Ends
     /\ text[block[2]] = Ends[text[block[1]]]}

\* The first block is one, from k on.
LEMMA FirstBlockIs ==
  ASSUME NEW S, NEW text \in Seq(S), NEW k \in 1..(Len(text) + 1), Openers(text, k) # {}
  PROVE  /\ FirstBlock(text, k) \in Tagged(text)
         /\ FirstBlock(text, k)[2] + 1 \in 1..(Len(text) + 1)
         /\ FirstBlock(text, k)[2] + 1 > k
  <1> DEFINE a == Min(Openers(text, k))
             b == Min(Closers(text, a))
  <1>0. Len(text) \in Nat /\ k \in Nat /\ k >= 1 OBVIOUS
  <1>1. a \in Openers(text, k)
    <2>1. Openers(text, k) \in SUBSET Nat BY <1>0 DEF Openers
    <2> QED BY <2>1, Least
  <1>2. FirstBlock(text, k) = <<a, b>> BY DEF FirstBlock
  <1> HIDE DEF a
  <1>3. a \in k..Len(text) /\ text[a] \in DOMAIN Ends /\ Closers(text, a) # {}
    BY <1>1 DEF Openers
  <1>4. b \in Closers(text, a)
    <2>1. Closers(text, a) \in SUBSET Nat BY <1>0, <1>3 DEF Closers
    <2> QED BY <1>3, <2>1, Least
  <1> HIDE DEF b
  <1>5. b \in (a + 1)..Len(text) /\ text[b] = Ends[text[a]] BY <1>4 DEF Closers
  <1>6. /\ a \in 1..Len(text) /\ b \in 1..Len(text) /\ a < b
        /\ b + 1 \in 1..(Len(text) + 1) /\ b + 1 > k
    BY <1>0, <1>3, <1>5
  <1> QED BY <1>2, <1>3, <1>5, <1>6 DEF Tagged

\* g finds the blocks from each place on.
FindsIn(text, g) ==
  g = [k \in 1..Len(text) + 1 |->
         IF Openers(text, k) = {} THEN {}
         ELSE {FirstBlock(text, k)} \cup g[FirstBlock(text, k)[2] + 1]]

\* There is one that does.
LEMMA FindsExist ==
  ASSUME NEW S, NEW text \in Seq(S)
  PROVE  \E g : FindsIn(text, g)
  <1> DEFINE N == Len(text) + 1
             V == SUBSET Tagged(text)
             Stop == {k \in 1..N : Openers(text, k) = {}}
             base == [k \in 1..N |-> {}]
             jump == [k \in 1..N |-> IF k \in Stop THEN k ELSE FirstBlock(text, k)[2] + 1]
             step == [k \in 1..N |-> [v \in V |-> IF k \in Stop THEN v
                                                  ELSE {FirstBlock(text, k)} \cup v]]
  <1>0. N \in Nat OBVIOUS
  <1>1. ASSUME NEW k \in 1..N, k \notin Stop
        PROVE  /\ FirstBlock(text, k) \in Tagged(text)
               /\ FirstBlock(text, k)[2] + 1 \in 1..N /\ FirstBlock(text, k)[2] + 1 > k
    <2>1. Openers(text, k) # {} BY <1>1
    <2> QED BY <2>1, FirstBlockIs
  <1> HIDE DEF N, Stop
  <1>2. base \in [1..N -> V] OBVIOUS
  <1>3. jump \in [1..N -> 1..N] BY <1>1
  <1>4. \A k \in 1..N : k \notin Stop => jump[k] > k BY <1>1
  <1>5. step \in [1..N -> [V -> V]]
    <2> SUFFICES ASSUME NEW k \in 1..N, NEW v \in V
                 PROVE  (IF k \in Stop THEN v ELSE {FirstBlock(text, k)} \cup v) \in V
      OBVIOUS
    <2> QED BY <1>1
  <1>6. PICK g \in [1..N -> V] : Leaping(g, N, Stop, base, jump, step)
    <2> HIDE DEF base, jump, step, V
    <2> QED BY <1>0, <1>2, <1>3, <1>4, <1>5, Leaps
  <1> DEFINE e == [k \in 1..N |-> IF Openers(text, k) = {} THEN {}
                     ELSE {FirstBlock(text, k)} \cup g[FirstBlock(text, k)[2] + 1]]
  <1>7. ASSUME NEW k \in 1..N PROVE g[k] = e[k]
    <2>1. k \in Stop <=> Openers(text, k) = {} BY DEF Stop
    <2>2. CASE k \in Stop BY <1>6, <2>1, <2>2 DEF Leaping
    <2>3. CASE k \notin Stop
      <3>1. jump[k] = FirstBlock(text, k)[2] + 1 /\ jump[k] \in 1..N BY <1>1, <2>3
      <3>2. g[jump[k]] \in V BY <3>1
      <3>3. step[k][g[jump[k]]] = {FirstBlock(text, k)} \cup g[jump[k]]
        <4> HIDE DEF jump, V
        <4> QED BY <2>3, <3>2
      <3>4. g[k] = step[k][g[jump[k]]] BY <1>6, <2>3 DEF Leaping
      <3> HIDE DEF jump, step, V
      <3> QED BY <2>1, <2>3, <3>1, <3>3, <3>4
    <2> QED BY <2>2, <2>3
  <1>8. g = [k \in 1..N |-> g[k]] /\ e = [k \in 1..N |-> e[k]] OBVIOUS
  <1>9. g = e
    <2> HIDE DEF e
    <2> QED BY <1>7, <1>8
  <1> QED BY <1>9 DEF FindsIn, N

\* Every block is where one can be.
LEMMA BlocksAre ==
  ASSUME NEW S, NEW text \in Seq(S)
  PROVE  Blocks(text) \in SUBSET Tagged(text)
  <1> DEFINE N == Len(text) + 1
             G == CHOOSE g : FindsIn(text, g)
             e == [k \in 1..N |-> IF Openers(text, k) = {} THEN {}
                     ELSE {FirstBlock(text, k)} \cup G[FirstBlock(text, k)[2] + 1]]
             V == SUBSET Tagged(text)
             jump == [k \in 1..N |-> IF Openers(text, k) = {} THEN k
                                     ELSE FirstBlock(text, k)[2] + 1]
  <1>0. N \in Nat /\ 1 \in 1..N OBVIOUS
  <1>1. FindsIn(text, G) BY FindsExist
  <1>2. Blocks(text) = G[1] BY DEF Blocks, FindsIn
  <1> HIDE DEF G
  <1>3. G = e BY <1>1 DEF FindsIn
  <1>4. ASSUME NEW k \in 1..N, Openers(text, k) # {}
        PROVE  /\ FirstBlock(text, k) \in Tagged(text)
               /\ FirstBlock(text, k)[2] + 1 \in 1..N /\ FirstBlock(text, k)[2] + 1 > k
    BY <1>4, FirstBlockIs
  <1> HIDE DEF N, V
  <1>5. jump \in [1..N -> 1..N] BY <1>4
  <1>6. ASSUME NEW k \in 1..N
        PROVE  G[k] \in V \/ (jump[k] > k /\ (G[jump[k]] \in V => G[k] \in V))
    <2>1. G[k] = e[k] BY <1>3
    <2>2. CASE Openers(text, k) = {}
      <3>1. e[k] = {} BY <2>2
      <3> QED BY <2>1, <3>1 DEF V
    <2>3. CASE Openers(text, k) # {}
      <3>1. e[k] = {FirstBlock(text, k)} \cup G[FirstBlock(text, k)[2] + 1] BY <2>3
      <3>2. jump[k] = FirstBlock(text, k)[2] + 1 BY <2>3
      <3>3. G[k] = {FirstBlock(text, k)} \cup G[jump[k]] BY <2>1, <3>1, <3>2
      <3>4. jump[k] > k BY <1>4, <2>3, <3>2
      <3> HIDE DEF e, jump
      <3>5. FirstBlock(text, k) \in Tagged(text) BY <1>4, <2>3
      <3> QED BY <3>3, <3>4, <3>5 DEF V
    <2> QED BY <2>2, <2>3
  <1> HIDE DEF jump, e
  <1>7. \A k \in 1..N : G[k] \in V BY <1>0, <1>5, <1>6, Lands
  <1>8. G[1] \in V BY <1>0, <1>7
  <1> QED BY <1>2, <1>8 DEF V

\* Behind the first pair there is less of the text.
LEMMA BehindIs ==
  ASSUME NEW S, NEW text \in Seq(S), NEW k \in 1..(Len(text) + 1), Opens(text, k) # {}
  PROVE  /\ Len(text) + 1 - Len(BehindPair(text, k)) \in 1..(Len(text) + 1)
         /\ Len(text) + 1 - Len(BehindPair(text, k)) > k
         /\ SubSeq(text, k, Min(Opens(text, k)) - 1) \in Seq(S)
  <1> DEFINE n == Len(text)
             a == Min(Opens(text, k))
             T == {j \in a..n : Tag(text, j)}
             b == Min(T)
             u == SubSeq(text, b + 2, n)
  <1>0. n \in Nat /\ k \in Nat /\ k >= 1 /\ DOMAIN text = 1..n /\ \A i \in 1..n : text[i] \in S
    BY ElementOfSeq
  <1>1. a \in Opens(text, k)
    <2>1. Opens(text, k) \in SUBSET Nat BY <1>0 DEF Opens
    <2> QED BY <2>1, Least
  <1>2. BehindPair(text, k) = lstrip(u) BY DEF BehindPair
  <1> HIDE DEF a
  <1>3. a \in k..n /\ T # {} BY <1>1 DEF Opens
  <1>4. b \in T
    <2>1. T \in SUBSET Nat BY <1>0, <1>3
    <2> HIDE DEF T
    <2> QED BY <1>3, <2>1, Least
  <1> HIDE DEF b
  <1>5. b \in a..n /\ b + 1 \in 1..n BY <1>0, <1>4 DEF Tag
  <1> HIDE DEF n, T
  <1>6. u \in Seq(S) /\ Len(u) <= n - b - 1
    <2>1. \A i \in (b + 2)..n : text[i] \in S
      <3>1. \A i \in (b + 2)..n : i \in 1..n BY <1>0, <1>3, <1>5
      <3> QED BY <1>0, <3>1
    <2>2. b + 2 \in Int /\ n \in Int /\ b + 1 <= n BY <1>0, <1>3, <1>5
    <2>3. u \in Seq(S) /\ Len(u) = IF b + 2 <= n THEN n - (b + 2) + 1 ELSE 0
      BY <2>1, <2>2, SubSeqProperties
    <2>4. (IF b + 2 <= n THEN n - (b + 2) + 1 ELSE 0) <= n - b - 1
      <3>1. b \in Int BY <1>0, <1>3, <1>5
      <3> QED BY <2>2, <3>1
    <2> HIDE DEF u
    <2> QED BY <2>3, <2>4
  <1> HIDE DEF u
  <1>7. lstrip(u) \in Seq(S) /\ Len(lstrip(u)) <= Len(u) BY <1>6, LstripIs
  <1>8. Len(lstrip(u)) \in Nat /\ Len(u) \in Nat BY <1>6, <1>7, LenProperties
  <1> DEFINE r == Len(lstrip(u))
  <1>9. r \in Nat /\ r <= n - b - 1
    <2> HIDE DEF r
    <2>1. r <= Len(u) /\ r \in Nat BY <1>7, <1>8 DEF r
    <2>2. b \in Int BY <1>5, <1>3, <1>0
    <2> QED BY <1>0, <1>6, <1>8, <2>1, <2>2
  <1> HIDE DEF r
  <1>10. n + 1 - r \in 1..(n + 1) /\ n + 1 - r > k BY <1>0, <1>3, <1>5, <1>9
  <1>11. SubSeq(text, k, a - 1) \in Seq(S)
    <2>1. \A i \in k..(a - 1) : text[i] \in S
      <3>1. \A i \in k..(a - 1) : i \in 1..n BY <1>0, <1>3
      <3> QED BY <1>0, <3>1
    <2>2. k \in Int /\ a - 1 \in Int BY <1>0, <1>3
    <2> QED BY <2>1, <2>2, SubSeqProperties
  <1> QED BY <1>2, <1>10, <1>11 DEF n, r, a

\* g drops the pairs from each place on.
DropsIn(text, g) ==
  g = [k \in 1..Len(text) + 1 |->
         IF Opens(text, k) = {} THEN SubSeq(text, k, Len(text))
         ELSE SubSeq(text, k, Min(Opens(text, k)) - 1)
                \o g[Len(text) + 1 - Len(BehindPair(text, k))]]

\* What is behind a place in a text.
LEMMA RestIs ==
  ASSUME NEW S, NEW text \in Seq(S), NEW k \in 1..(Len(text) + 1)
  PROVE  SubSeq(text, k, Len(text)) \in Seq(S)
  <1>1. \A i \in k..Len(text) : text[i] \in S
    <2>1. Len(text) \in Nat /\ \A i \in k..Len(text) : i \in 1..Len(text) OBVIOUS
    <2> QED BY <2>1, ElementOfSeq
  <1>2. k \in Int /\ Len(text) \in Int OBVIOUS
  <1> QED BY <1>1, <1>2, SubSeqProperties

\* There is one that does.
LEMMA DropsExist ==
  ASSUME NEW S, NEW text \in Seq(S)
  PROVE  \E g : DropsIn(text, g)
  <1> DEFINE N == Len(text) + 1
             V == Seq(S)
             Stop == {k \in 1..N : Opens(text, k) = {}}
             base == [k \in 1..N |-> SubSeq(text, k, Len(text))]
             to(k) == Len(text) + 1 - Len(BehindPair(text, k))
             front(k) == SubSeq(text, k, Min(Opens(text, k)) - 1)
             jump == [k \in 1..N |-> IF k \in Stop THEN k ELSE to(k)]
             step == [k \in 1..N |-> [v \in V |-> IF k \in Stop THEN v ELSE front(k) \o v]]
  <1>0. N \in Nat OBVIOUS
  <1>1. ASSUME NEW k \in 1..N, k \notin Stop
        PROVE  to(k) \in 1..N /\ to(k) > k /\ front(k) \in V
    <2>1. Opens(text, k) # {} BY <1>1
    <2> QED BY <2>1, BehindIs
  <1>2. base \in [1..N -> V] BY RestIs
  <1> HIDE DEF N, Stop, to, front, V
  <1>3. jump \in [1..N -> 1..N] BY <1>1
  <1>4. \A k \in 1..N : k \notin Stop => jump[k] > k BY <1>1
  <1>5. step \in [1..N -> [V -> V]]
    <2> SUFFICES ASSUME NEW k \in 1..N, NEW v \in V
                 PROVE  (IF k \in Stop THEN v ELSE front(k) \o v) \in V
      OBVIOUS
    <2>1. CASE k \notin Stop
      <3>1. front(k) \in V BY <1>1, <2>1
      <3> QED BY <2>1, <3>1 DEF V
    <2> QED BY <2>1
  <1>6. PICK g \in [1..N -> V] : Leaping(g, N, Stop, base, jump, step)
    <2> HIDE DEF base, jump, step
    <2> QED BY <1>0, <1>2, <1>3, <1>4, <1>5, Leaps
  <1> DEFINE e == [k \in 1..N |-> IF Opens(text, k) = {} THEN SubSeq(text, k, Len(text))
                                  ELSE front(k) \o g[to(k)]]
  <1>7. ASSUME NEW k \in 1..N PROVE g[k] = e[k]
    <2>1. k \in Stop <=> Opens(text, k) = {} BY DEF Stop
    <2>2. CASE k \in Stop
      <3>1. g[k] = base[k] BY <1>6, <2>2 DEF Leaping
      <3> QED BY <2>1, <2>2, <3>1
    <2>3. CASE k \notin Stop
      <3>1. jump[k] = to(k) /\ jump[k] \in 1..N BY <1>1, <2>3
      <3>2. g[jump[k]] \in V BY <3>1
      <3>3. step[k][g[jump[k]]] = front(k) \o g[jump[k]]
        <4> HIDE DEF jump
        <4> QED BY <2>3, <3>2
      <3>4. g[k] = step[k][g[jump[k]]] BY <1>6, <2>3 DEF Leaping
      <3> HIDE DEF jump, step
      <3> QED BY <2>1, <2>3, <3>1, <3>3, <3>4
    <2> QED BY <2>2, <2>3
  <1>8. g = [k \in 1..N |-> g[k]] /\ e = [k \in 1..N |-> e[k]] OBVIOUS
  <1>9. g = e
    <2> HIDE DEF e
    <2> QED BY <1>7, <1>8
  <1> QED BY <1>9 DEF DropsIn, N, to, front

\* A text without its pairs is a text.
LEMMA PairsIs ==
  ASSUME NEW S, NEW text \in Seq(S)
  PROVE  Pairs(text) \in Seq(S)
  <1> DEFINE N == Len(text) + 1
             V == Seq(S)
             G == CHOOSE g : DropsIn(text, g)
             to(k) == Len(text) + 1 - Len(BehindPair(text, k))
             front(k) == SubSeq(text, k, Min(Opens(text, k)) - 1)
             e == [k \in 1..N |-> IF Opens(text, k) = {} THEN SubSeq(text, k, Len(text))
                                  ELSE front(k) \o G[to(k)]]
             jump == [k \in 1..N |-> IF Opens(text, k) = {} THEN k ELSE to(k)]
  <1>0. N \in Nat /\ 1 \in 1..N OBVIOUS
  <1>1. DropsIn(text, G) BY DropsExist
  <1>2. Pairs(text) = G[1] BY DEF Pairs, DropsIn
  <1> HIDE DEF G
  <1>3. G = e BY <1>1 DEF DropsIn
  <1>4. ASSUME NEW k \in 1..N, Opens(text, k) # {}
        PROVE  to(k) \in 1..N /\ to(k) > k /\ front(k) \in V
    BY <1>4, BehindIs
  <1>5. \A k \in 1..N : SubSeq(text, k, Len(text)) \in V BY RestIs
  <1> HIDE DEF N, to, front, V
  <1>6. jump \in [1..N -> 1..N] BY <1>4
  <1>7. ASSUME NEW k \in 1..N
        PROVE  G[k] \in V \/ (jump[k] > k /\ (G[jump[k]] \in V => G[k] \in V))
    <2>1. G[k] = e[k] BY <1>3
    <2>2. CASE Opens(text, k) = {}
      <3>1. e[k] = SubSeq(text, k, Len(text)) BY <2>2
      <3> QED BY <1>5, <2>1, <3>1
    <2>3. CASE Opens(text, k) # {}
      <3>1. e[k] = front(k) \o G[to(k)] BY <2>3
      <3>2. jump[k] = to(k) BY <2>3
      <3>3. G[k] = front(k) \o G[jump[k]] BY <2>1, <3>1, <3>2
      <3>4. jump[k] > k BY <1>4, <2>3, <3>2
      <3> HIDE DEF e, jump
      <3>5. front(k) \in V BY <1>4, <2>3
      <3>6. G[jump[k]] \in V => front(k) \o G[jump[k]] \in V BY <3>5 DEF V
      <3> QED BY <3>3, <3>4, <3>6
    <2> QED BY <2>2, <2>3
  <1> HIDE DEF jump, e
  <1>8. \A k \in 1..N : G[k] \in V BY <1>0, <1>6, <1>7, Lands
  <1>9. G[1] \in V BY <1>0, <1>8
  <1> QED BY <1>2, <1>9 DEF V

-----------------------------------------------------------------------------
(***************************************************************************)
(* Calls.                                                                  *)
(***************************************************************************)
\* What a reply with tools makes of a text: what each solid symbol of it has
\* become.
Accounts(text, answered) ==
  LET solid == Solid(text)
      calls == {IF c = <<0, 0>> THEN <<1, Len(text)>> ELSE c : c \in answered.calls}
      within == {k \in solid : \E c \in calls : k \in c[1] .. c[2]}
  IN  /\ Cardinality(solid) = Cardinality(within) + Cardinality(Solid(answered.text))
      /\ \A c \in calls : Cardinality({k \in within : k \in c[1] .. c[2]
                                         /\ text[k] \in {"call", "name"}}) = 1
      /\ \A c \in calls : \A k \in within :
           k \in c[1] .. c[2] => text[k] \notin {"word", "scalar"}

\* The body of a block that can be called is one symbol, with nothing else
\* solid between the tags.
LEMMA BodyIs ==
  ASSUME NEW S, NEW text \in Seq(S), NEW c \in Tagged(text), usable(Body(text, c))
  PROVE  \E k \in 1..Len(text) :
           /\ k \in c[1] .. c[2] /\ text[k] \in {"call", "name"}
           /\ \A j \in c[1] .. c[2] : j # k => text[j] \in Blank \cup DOMAIN Ends
                                                 \cup {"</tool_call>", "</tool_use>"}
  <1> DEFINE n == Len(text)
             a == c[1]
             b == c[2]
             u == SubSeq(text, a + 1, b - 1)
  <1>0. n \in Nat /\ \A i \in 1..n : text[i] \in S BY ElementOfSeq
  <1>1. /\ a \in 1..n /\ b \in 1..n /\ a < b
        /\ text[a] \in DOMAIN Ends /\ text[b] = Ends[text[a]]
    BY DEF Tagged
  <1>2. text[b] \in {"</tool_call>", "</tool_use>"} BY <1>1 DEF Ends
  <1>3. PICK x \in {"call", "name"} : strip(u) = <<x>> BY DEF usable, Body
  <1> HIDE DEF n, a, b, u
  <1>4. u \in Seq(S) /\ Len(u) = b - a - 1 /\ \A i \in 1..(b - a - 1) : u[i] = text[a + i]
    <2>1. \A i \in (a + 1)..(b - 1) : text[i] \in S
      <3>1. \A i \in (a + 1)..(b - 1) : i \in 1..n BY <1>0, <1>1
      <3> QED BY <1>0, <3>1
    <2>2. a + 1 \in Int /\ b - 1 \in Int BY <1>1
    <2>3. /\ u \in Seq(S)
          /\ Len(u) = IF a + 1 <= b - 1 THEN (b - 1) - (a + 1) + 1 ELSE 0
          /\ \A i \in 1..((b - 1) - (a + 1) + 1) : u[i] = text[(a + 1) + i - 1]
      BY <2>1, <2>2, SubSeqProperties DEF u
    <2>4. (IF a + 1 <= b - 1 THEN (b - 1) - (a + 1) + 1 ELSE 0) = b - a - 1 BY <1>0, <1>1
    <2>5. (b - 1) - (a + 1) + 1 = b - a - 1 BY <1>1
    <2>6. \A i \in 1..(b - a - 1) : (a + 1) + i - 1 = a + i BY <1>1
    <2> QED BY <2>3, <2>4, <2>5, <2>6
  <1>5. PICK m \in 1..Len(u) : Solid(u) = {m} /\ u[m] = x BY <1>3, <1>4, StripKeeps
  <1>6. Solid(u) = {i \in 1..Len(u) : u[i] \notin Blank} BY <1>4, SolidFinite
  <1> DEFINE k == a + m
  <1>7. m \in 1..(b - a - 1) BY <1>4
  <1>8. k \in 1..n /\ k \in a..b /\ text[k] = x
    <2>1. k \in 1..n /\ k \in a..b BY <1>0, <1>1, <1>7
    <2> QED BY <1>4, <1>5, <1>7, <2>1
  <1>9. ASSUME NEW j \in a..b, j # k
        PROVE  text[j] \in Blank \cup DOMAIN Ends \cup {"</tool_call>", "</tool_use>"}
    <2>1. CASE j = a BY <1>1, <2>1
    <2>2. CASE j = b BY <1>2, <2>2
    <2>3. CASE j # a /\ j # b
      <3>1. j - a \in 1..(b - a - 1) /\ a + (j - a) = j /\ j - a # m
        BY <1>0, <1>1, <1>7, <1>9, <2>3
      <3>2. u[j - a] = text[j] BY <1>4, <3>1
      <3>3. j - a \notin Solid(u) BY <1>5, <3>1
      <3>4. j - a \in 1..Len(u) BY <1>4, <3>1
      <3>5. u[j - a] \in Blank BY <1>6, <3>3, <3>4
      <3> QED BY <3>2, <3>5
    <2> QED BY <2>1, <2>2, <2>3
  <1> HIDE DEF k
  <1> QED BY <1>8, <1>9 DEF n, a, b

\* Calls that are blocks, and what is outside of them, account for a text.
LEMMA SpansAccount ==
  ASSUME NEW S, NEW text \in Seq(S), NEW spans \in SUBSET Tagged(text),
         \A c \in spans : usable(Body(text, c))
  PROVE  Accounts(text, [text |-> strip(Outside(text, spans)), calls |-> spans])
  <1> DEFINE n == Len(text)
             solid == Solid(text)
             within == {k \in solid : \E c \in spans : k \in c[1] .. c[2]}
             calls == {IF c = <<0, 0>> THEN <<1, Len(text)>> ELSE c : c \in spans}
             answered == [text |-> strip(Outside(text, spans)), calls |-> spans]
  <1>0. /\ n \in Nat /\ solid \in SUBSET (1..n) /\ IsFiniteSet(solid)
        /\ solid = {k \in 1..n : text[k] \notin Blank}
    BY SolidFinite
  <1>1. calls = spans
    <2>1. \A c \in spans : c # <<0, 0>>
      <3>1. \A c \in spans : c[1] \in 1..n BY DEF Tagged
      <3>2. <<0, 0>>[1] = 0 /\ 0 \notin 1..n OBVIOUS
      <3> QED BY <3>1, <3>2
    <2> QED BY <2>1
  <1>2. Cardinality(solid) = Cardinality(within) + Cardinality(Left(text, spans, n))
    <2> DEFINE left == Left(text, spans, n)
    <2>1. left = solid \ within BY <1>0 DEF Left, Inside
    <2>2. solid \cap within = within OBVIOUS
    <2>3. Cardinality(solid \ within) = Cardinality(solid) - Cardinality(within)
      <3> HIDE DEF solid, within
      <3>1. Cardinality(solid \ within) = Cardinality(solid) - Cardinality(solid \cap within)
        BY <1>0, FS_Difference
      <3> QED BY <2>2, <3>1
    <2>4. Cardinality(solid) \in Nat /\ Cardinality(within) \in Nat
      <3>1. within \in SUBSET solid OBVIOUS
      <3> HIDE DEF within
      <3>2. IsFiniteSet(within) BY <1>0, <3>1, FS_Subset
      <3> QED BY <1>0, <3>2, FS_CardinalityType
    <2> QED BY <2>1, <2>3, <2>4
  <1>3. Cardinality(Solid(strip(Outside(text, spans)))) = Cardinality(Left(text, spans, n))
    <2>1. /\ Outside(text, spans) \in Seq(S)
          /\ Cardinality(Solid(Outside(text, spans))) = Cardinality(Left(text, spans, n))
      BY OutsideIs
    <2>2. Cardinality(Solid(strip(Outside(text, spans)))) = Cardinality(Solid(Outside(text, spans)))
      BY <2>1, StripKeeps
    <2> QED BY <2>1, <2>2
  <1>4. ASSUME NEW c \in spans
        PROVE  /\ Cardinality({k \in within : k \in c[1] .. c[2]
                                 /\ text[k] \in {"call", "name"}}) = 1
               /\ \A k \in within : k \in c[1] .. c[2] => text[k] \notin {"word", "scalar"}
    <2>1. PICK k \in 1..n :
            /\ k \in c[1] .. c[2] /\ text[k] \in {"call", "name"}
            /\ \A j \in c[1] .. c[2] : j # k => text[j] \in Blank \cup DOMAIN Ends
                                                 \cup {"</tool_call>", "</tool_use>"}
      BY BodyIs
    <2>2. \A y \in Blank \cup DOMAIN Ends \cup {"</tool_call>", "</tool_use>"} :
            y \notin {"call", "name", "word", "scalar"}
      BY DEF Blank, Ends
    <2>3. k \in within
      <3>1. text[k] \notin Blank BY <2>1 DEF Blank
      <3> QED BY <1>0, <2>1, <3>1
    <2>4. {j \in within : j \in c[1] .. c[2] /\ text[j] \in {"call", "name"}} = {k}
      <3> HIDE DEF within
      <3> QED BY <2>1, <2>2, <2>3
    <2>5. \A j \in within : j \in c[1] .. c[2] => text[j] \notin {"word", "scalar"}
      <3> HIDE DEF within
      <3> QED BY <2>1, <2>2
    <2> QED BY <2>4, <2>5, FS_Singleton
  <1>5. answered.text = strip(Outside(text, spans)) /\ answered.calls = spans OBVIOUS
  <1> HIDE DEF solid, answered
  <1> QED BY <1>1, <1>2, <1>3, <1>4, <1>5 DEF Accounts, solid, answered

\* So does a text that is itself one.
LEMMA BareAccounts ==
  ASSUME NEW S, NEW text \in Seq(S), strip(text) = <<"call">>
  PROVE  Accounts(text, [text |-> <<>>, calls |-> {<<0, 0>>}])
  <1> DEFINE n == Len(text)
             answered == [text |-> <<>>, calls |-> {<<0, 0>>}]
             calls == {IF c = <<0, 0>> THEN <<1, n>> ELSE c : c \in answered.calls}
             within == {k \in Solid(text) : \E c \in calls : k \in c[1] .. c[2]}
  <1>1. PICK k \in 1..n : Solid(text) = {k} /\ text[k] = "call" BY StripKeeps
  <1>2. answered.text = <<>> /\ calls = {<<1, n>>} OBVIOUS
  <1>3. within = {k}
    <2>1. \A c \in calls : c[1] = 1 /\ c[2] = n BY <1>2
    <2>2. <<1, n>> \in calls BY <1>2
    <2> HIDE DEF calls, n
    <2> QED BY <1>1, <2>1, <2>2
  <1>4. \A c \in calls : {j \in within : j \in c[1] .. c[2] /\ text[j] \in {"call", "name"}} = {k}
    <2>1. \A c \in calls : c[1] = 1 /\ c[2] = n BY <1>2
    <2> HIDE DEF calls, within, n
    <2> QED BY <1>1, <1>3, <2>1
  <1>5. \A c \in calls : \A j \in within : text[j] \notin {"word", "scalar"}
    <2> HIDE DEF calls, within
    <2> QED BY <1>1, <1>3
  <1>6. Cardinality({k}) = 1 BY FS_Singleton
  <1>7. Cardinality(Solid(text)) = Cardinality(within) + Cardinality(Solid(answered.text))
    <2> HIDE DEF within, answered
    <2> QED BY <1>1, <1>2, <1>3, <1>6, SolidNone
  <1>8. \A c \in calls : Cardinality({j \in within : j \in c[1] .. c[2]
                                          /\ text[j] \in {"call", "name"}}) = 1
    <2> HIDE DEF calls, within
    <2> QED BY <1>4, <1>6
  <1> HIDE DEF answered
  <1> QED BY <1>5, <1>7, <1>8 DEF Accounts, answered

\* What parse_tool_calls gives accounts for the text.
LEMMA ParseAccounts ==
  ASSUME NEW S, NEW text \in Seq(S)
  PROVE  Accounts(text, parse_tool_calls(text))
  <1> DEFINE spans == {block \in Blocks(text) : usable(Body(text, block))}
             visible == strip(Outside(text, spans))
  <1>1. spans \in SUBSET Tagged(text) /\ \A c \in spans : usable(Body(text, c))
    BY BlocksAre
  <1>2. parse_tool_calls(text) =
          IF spans = {} /\ visible = <<"call">>
          THEN [text |-> <<>>, calls |-> {<<0, 0>>}]
          ELSE [text |-> visible, calls |-> spans]
    BY DEF parse_tool_calls
  <1> HIDE DEF spans
  <1>3. CASE spans = {} /\ visible = <<"call">>
    <2>1. Outside(text, spans) = text BY <1>3, OutsideIs
    <2> QED BY <1>2, <1>3, <2>1, BareAccounts
  <1>4. CASE ~(spans = {} /\ visible = <<"call">>)
    BY <1>1, <1>2, <1>4, SpansAccount
  <1> QED BY <1>3, <1>4

\* With tools the answer accounts for the model's output: every word of it is
\* visible or in a call, and a call is one that can be made.
THEOREM CallsOrTextHolds == Spec => []CallsOrText
  <1> DEFINE Stripped == _maybe_strip_think(said, want.prefilled)
             AnswerIs == want.tools /\ answer.done =>
                           /\ answer.text = parse_tool_calls(Stripped).text
                           /\ answer.calls = parse_tool_calls(Stripped).calls
  <1>1. Init => AnswerIs BY DEF Init, NoAnswer
  <1>2. AnswerIs /\ [Next]_vars => AnswerIs'
    <2> SUFFICES ASSUME AnswerIs, [Next]_vars PROVE AnswerIs' OBVIOUS
    <2>1. CASE Finish
      <3> SUFFICES ASSUME want'.tools
                   PROVE  /\ answer'.text = parse_tool_calls(Stripped)'.text
                          /\ answer'.calls = parse_tool_calls(Stripped)'.calls
        OBVIOUS
      <3>1. want' = want /\ said' = said BY <2>1 DEF Finish
      <3>2. want.tools /\ ~Streamed BY <3>1 DEF Streamed
      <3>3. answer' = [text |-> parse_tool_calls(Stripped).text,
                       calls |-> parse_tool_calls(Stripped).calls, done |-> TRUE]
        BY <2>1, <3>2 DEF Finish
      <3>4. Stripped' = Stripped BY <3>1 DEF _maybe_strip_think
      <3> QED BY <3>3, <3>4
    <2>2. ASSUME NEW chunk \in Chunks, Say(chunk) PROVE AnswerIs'
      BY <2>2 DEF Say
    <2>3. CASE UNCHANGED vars BY <2>3 DEF vars, _maybe_strip_think
    <2> QED BY <2>1, <2>2, <2>3 DEF Next
  <1>3. TypeOK /\ AnswerIs => CallsOrText
    <2> SUFFICES ASSUME TypeOK, AnswerIs, want.tools, answer.done PROVE CallsOrText
      BY DEF CallsOrText
    <2> DEFINE S == Words \cup ToolWords
    <2>1. Stripped \in Seq(S)
      <3>1. said \in Seq(S) BY DEF TypeOK
      <3> HIDE DEF S
      <3>2. _strip_orphan_think(said) \in Seq(S) BY <3>1, StripIs
      <3> DEFINE t == IF want.prefilled THEN _strip_orphan_think(said) ELSE said
      <3>3. t \in Seq(S) BY <3>1, <3>2
      <3>4. Stripped = IF want.strip THEN Pairs(t) ELSE t BY DEF _maybe_strip_think
      <3> HIDE DEF t
      <3> QED BY <3>3, <3>4, PairsIs
    <2>2. Accounts(Stripped, parse_tool_calls(Stripped)) BY <2>1, ParseAccounts
    <2>3. Accounts(Stripped, answer) BY <2>2 DEF Accounts
    <2> QED BY <2>3 DEF Accounts, CallsOrText, Solid
  <1>4. GateInvariant => TypeOK BY DEF GateInvariant
  <1> QED BY <1>1, <1>2, <1>3, <1>4, GateInvariantHolds, PTL DEF Spec
=============================================================================
