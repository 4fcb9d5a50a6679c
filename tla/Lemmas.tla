------------------------------- MODULE Lemmas --------------------------------
(***************************************************************************)
(* Facts that several proofs need: quotients, sums and concatenations of   *)
(* any number of sequences, sorting by places.                             *)
(*                                                                         *)
(* What recursive functions compute is proved by induction, from the       *)
(* well-foundedness of < on the natural numbers, as a fact about sets of   *)
(* them (Induction).                                                       *)
(***************************************************************************)
EXTENDS Integers, SequencesExt, FiniteSetTheorems, SequenceTheorems,
        WellFoundedInduction, TLAPS

-----------------------------------------------------------------------------
(* Quotients.                                                              *)

\* What division computes.
LEMMA Quotient ==
  ASSUME NEW a \in Nat, NEW n \in Nat \ {0}
  PROVE  a \div n \in Nat /\ a % n \in 0 .. n - 1 /\ a = n * (a \div n) + (a % n)
  OBVIOUS

\* No other numbers are quotient and remainder.
LEMMA QuotientUnique ==
  ASSUME NEW a \in Nat, NEW n \in Nat \ {0}, NEW q \in Nat, NEW r \in 0 .. n - 1, a = n * q + r
  PROVE  a \div n = q /\ a % n = r
  OBVIOUS

\* A product of positive numbers.
LEMMA Product ==
  ASSUME NEW n \in Nat \ {0}, NEW m \in Nat \ {0}
  PROVE  n * m \in Nat \ {0}
  OBVIOUS

-----------------------------------------------------------------------------
(* Induction.                                                              *)

\* A set of natural numbers has a least one.
LEMMA Least ==
  ASSUME NEW S, S \subseteq Nat, S # {}
  PROVE  \E n \in S : \A m \in S : n <= m
<1> DEFINE Less == {ss \in Nat \X Nat : ss[1] < ss[2]}
<1>1. IsWellFoundedOn(Less, Nat)
  BY NatLessThanWellFounded DEF OpToRel
<1>2. PICK n \in S : \A m \in S : <<m, n>> \notin Less
  <2> HIDE DEF Less
  <2> QED
    BY <1>1, WFMin
<1>3. \A m \in S : ~(m < n)
  BY <1>2
<1> QED
  BY <1>2, <1>3

\* A set of natural numbers with 0 and every successor is all of them.
LEMMA Induction ==
  ASSUME NEW S, 0 \in S, \A n \in Nat : n \in S => n + 1 \in S
  PROVE  Nat \subseteq S
<1> SUFFICES ASSUME Nat \ S # {} PROVE FALSE
  OBVIOUS
<1>1. PICK n \in Nat \ S : \A m \in Nat \ S : n <= m
  BY Least
<1>2. n - 1 \in Nat /\ n - 1 \in S
  BY <1>1
<1> QED
  BY <1>1, <1>2

-----------------------------------------------------------------------------
(* Recursive functions.                                                    *)

\* What holds of the first value and of every value whose predecessor has it
\* holds of all values.
LEMMA Along ==
  ASSUME NEW n \in Nat, NEW pred, \A k \in 1 .. n : pred[k] \in 0 .. k - 1,
         NEW V, NEW f, f[0] \in V[0],
         \A k \in 1 .. n : f[pred[k]] \in V[pred[k]] => f[k] \in V[k]
  PROVE  \A k \in 0 .. n : f[k] \in V[k]
<1> DEFINE S == {m \in Nat : \A k \in 0 .. m : k <= n => f[k] \in V[k]}
<1>1. 0 \in S
  OBVIOUS
<1>2. ASSUME NEW m \in Nat, m \in S
      PROVE  m + 1 \in S
  <2> SUFFICES ASSUME NEW k \in 0 .. m + 1, k <= n
               PROVE  f[k] \in V[k]
    OBVIOUS
  <2>1. CASE k \in 0 .. m
    BY <1>2, <2>1
  <2>2. CASE k = m + 1
    <3>1. k \in 1 .. n /\ pred[k] \in 0 .. m /\ pred[k] <= n
      BY <2>2
    <3>2. f[pred[k]] \in V[pred[k]]
      BY <1>2, <3>1
    <3> QED
      BY <3>1, <3>2
  <2> QED
    BY <2>1, <2>2
<1>3. Nat \subseteq S
  <2> HIDE DEF S
  <2> QED
    BY <1>1, <1>2, Induction
<1>4. n \in S
  BY <1>3
<1> QED
  BY <1>4

\* f begins with s and takes a step from an earlier value at every other place.
StepsOf(f, n, pred, step, s) ==
  f = [k \in 0 .. n |-> IF k = 0 THEN s ELSE step[k][f[pred[k]]]]

\* There is such a function.
LEMMA StepsExist ==
  ASSUME NEW n \in Nat, NEW pred, \A k \in 1 .. n : pred[k] \in 0 .. k - 1,
         NEW step, NEW s
  PROVE  \E f : StepsOf(f, n, pred, step, s)
<1> DEFINE S == {m \in Nat : m <= n => \E f : StepsOf(f, m, pred, step, s)}
<1>1. 0 \in S
  <2>1. StepsOf([k \in 0 .. 0 |-> s], 0, pred, step, s)
    BY DEF StepsOf
  <2> QED
    BY <2>1
<1>2. ASSUME NEW m \in Nat, m \in S
      PROVE  m + 1 \in S
  <2> SUFFICES ASSUME m + 1 <= n
               PROVE  \E f : StepsOf(f, m + 1, pred, step, s)
    OBVIOUS
  <2>1. PICK f : StepsOf(f, m, pred, step, s)
    BY <1>2
  <2>2. \A k \in 0 .. m : f[k] = IF k = 0 THEN s ELSE step[k][f[pred[k]]]
    BY <2>1 DEF StepsOf
  <2> DEFINE g == [k \in 0 .. m + 1 |-> IF k <= m THEN f[k] ELSE step[m + 1][f[pred[m + 1]]]]
  <2>3. /\ \A k \in 0 .. m : g[k] = f[k]
        /\ g[m + 1] = step[m + 1][f[pred[m + 1]]]
    OBVIOUS
  <2>g. g = [k \in 0 .. m + 1 |-> g[k]]
    OBVIOUS
  <2> HIDE DEF g
  <2>4. ASSUME NEW k \in 0 .. m + 1
        PROVE  g[k] = IF k = 0 THEN s ELSE step[k][g[pred[k]]]
    <3>1. CASE k = 0
      BY <2>2, <2>3, <3>1
    <3>2. CASE k # 0
      <4>1. k \in 1 .. n /\ pred[k] \in 0 .. k - 1
        BY <3>2
      <4>2. pred[k] \in 0 .. m /\ g[pred[k]] = f[pred[k]]
        BY <4>1, <2>3
      <4>3. CASE k <= m
        BY <2>2, <2>3, <3>2, <4>2, <4>3
      <4>4. CASE k = m + 1
        BY <2>3, <3>2, <4>2, <4>4
      <4> QED
        BY <4>3, <4>4
    <3> QED
      BY <3>1, <3>2
  <2>5. StepsOf(g, m + 1, pred, step, s)
    BY <2>4, <2>g DEF StepsOf
  <2> QED
    BY <2>5
<1>3. Nat \subseteq S
  <2> HIDE DEF S
  <2> QED
    BY <1>1, <1>2, Induction
<1> QED
  BY <1>3

\* Its values stay where every step leads.
LEMMA StepsIn ==
  ASSUME NEW n \in Nat, NEW pred, \A k \in 1 .. n : pred[k] \in 0 .. k - 1,
         NEW V, NEW step, NEW s \in V[0],
         \A k \in 1 .. n : \A v \in V[pred[k]] : step[k][v] \in V[k]
  PROVE  \E f : StepsOf(f, n, pred, step, s) /\ \A k \in 0 .. n : f[k] \in V[k]
<1>1. PICK f : StepsOf(f, n, pred, step, s)
  BY StepsExist
<1>2. \A k \in 0 .. n : f[k] = IF k = 0 THEN s ELSE step[k][f[pred[k]]]
  BY <1>1 DEF StepsOf
<1>3. f[0] \in V[0]
  BY <1>2
<1>4. ASSUME NEW k \in 1 .. n, f[pred[k]] \in V[pred[k]]
      PROVE  f[k] \in V[k]
  <2>1. f[k] = step[k][f[pred[k]]]
    BY <1>2
  <2> QED
    BY <1>4, <2>1
<1>5. \A k \in 0 .. n : f[k] \in V[k]
  BY <1>3, <1>4, Along
<1> QED
  BY <1>1, <1>5

-----------------------------------------------------------------------------
(* Sums and concatenations.                                                *)

\* A function on 1 .. n is a sequence.
LEMMA Sequence ==
  ASSUME NEW S, NEW n \in Nat, NEW s \in [1 .. n -> S]
  PROVE  s \in Seq(S) /\ Len(s) = n /\ DOMAIN s = 1 .. n
  OBVIOUS

\* What membership in Seq(S) says.
LEMMA Elements ==
  ASSUME NEW S, NEW s \in Seq(S)
  PROVE  Len(s) \in Nat /\ DOMAIN s = 1 .. Len(s) /\ \A i \in 1 .. Len(s) : s[i] \in S
  OBVIOUS

\* The elements of a concatenation.
LEMMA Concatenated ==
  ASSUME NEW S, NEW s \in Seq(S), NEW t \in Seq(S)
  PROVE  /\ s \o t \in Seq(S) /\ Len(s \o t) = Len(s) + Len(t)
         /\ \A i \in 1 .. Len(s) : (s \o t)[i] = s[i]
         /\ \A i \in 1 .. Len(t) : (s \o t)[Len(s) + i] = t[i]
  OBVIOUS

\* f has the sums of the first n values of a.
SumsOf(f, a, n) ==
  /\ f \in [0 .. n -> Nat]
  /\ f[0] = 0
  /\ \A k \in 1 .. n : f[k] = f[k - 1] + a[k]

\* There are such sums.
LEMMA SumsExist ==
  ASSUME NEW n \in Nat, NEW a \in [1 .. n -> Nat]
  PROVE  \E f : SumsOf(f, a, n)
<1> DEFINE S == {m \in Nat : m <= n => \E f : SumsOf(f, a, m)}
<1>1. 0 \in S
  <2>1. SumsOf([k \in {0} |-> 0], a, 0)
    BY DEF SumsOf
  <2> QED
    BY <2>1
<1>2. ASSUME NEW m \in Nat, m \in S
      PROVE  m + 1 \in S
  <2> SUFFICES ASSUME m + 1 <= n
               PROVE  \E f : SumsOf(f, a, m + 1)
    OBVIOUS
  <2>1. PICK f : SumsOf(f, a, m)
    BY <1>2
  <2> DEFINE g == [k \in 0 .. m + 1 |-> IF k <= m THEN f[k] ELSE f[m] + a[m + 1]]
  <2>2. m + 1 \in 1 .. n /\ f[m] \in Nat /\ a[m + 1] \in Nat
    BY <2>1 DEF SumsOf
  <2>3. g \in [0 .. m + 1 -> Nat] /\ \A k \in 0 .. m : g[k] = f[k]
    BY <2>1, <2>2 DEF SumsOf
  <2>4. g[m + 1] = f[m] + a[m + 1]
    OBVIOUS
  <2>5. ASSUME NEW k \in 1 .. m + 1
        PROVE  g[k] = g[k - 1] + a[k]
    <3> HIDE DEF g
    <3>1. CASE k <= m
      BY <2>1, <2>3, <3>1 DEF SumsOf
    <3>2. CASE k = m + 1
      BY <2>3, <2>4, <3>2
    <3> QED
      BY <3>1, <3>2
  <2>6. SumsOf(g, a, m + 1)
    <3> HIDE DEF g
    <3> QED
      BY <2>1, <2>3, <2>5 DEF SumsOf
  <2> QED
    BY <2>6
<1>3. Nat \subseteq S
  <2> HIDE DEF S
  <2> QED
    BY <1>1, <1>2, Induction
<1> QED
  BY <1>3

\* Sums do not fall.
LEMMA SumsGrow ==
  ASSUME NEW n \in Nat, NEW a \in [1 .. n -> Nat], NEW f, SumsOf(f, a, n),
         NEW i \in 0 .. n
  PROVE  \A j \in i .. n : f[i] <= f[j]
<1> DEFINE S == {d \in Nat : i + d <= n => f[i] <= f[i + d]}
<1>1. 0 \in S
  BY DEF SumsOf
<1>2. ASSUME NEW d \in Nat, d \in S
      PROVE  d + 1 \in S
  <2> SUFFICES ASSUME i + (d + 1) <= n
               PROVE  f[i] <= f[i + (d + 1)]
    OBVIOUS
  <2>1. f[i] <= f[i + d]
    BY <1>2
  <2>2. i + (d + 1) \in 1 .. n /\ i + d \in 0 .. n /\ (i + (d + 1)) - 1 = i + d
    OBVIOUS
  <2>3. f[i + (d + 1)] = f[i + d] + a[i + (d + 1)] /\ a[i + (d + 1)] \in Nat /\ f[i + d] \in Nat /\ f[i] \in Nat
    BY <2>2 DEF SumsOf
  <2> QED
    BY <2>1, <2>3
<1>3. Nat \subseteq S
  <2> HIDE DEF S
  <2> QED
    BY <1>1, <1>2, Induction
<1> QED
  <2> TAKE j \in i .. n
  <2>0. j - i \in Nat /\ i + (j - i) = j
    OBVIOUS
  <2>1. j - i \in S
    <3> HIDE DEF S
    <3> QED
      BY <1>3, <2>0
  <2> QED
    BY <2>0, <2>1

\* g has the concatenations of the first sequences of ss, step by step.
PrefixesOf(g, S, ss, n) ==
  /\ g \in [1 .. n -> Seq(S)]
  /\ \A i \in 1 .. n : g[i] = IF i = 1 THEN ss[1] ELSE g[i - 1] \o ss[i]

\* There are such concatenations.
LEMMA PrefixesExist ==
  ASSUME NEW S, NEW ss \in Seq(Seq(S)), NEW n \in 0 .. Len(ss)
  PROVE  \E g : PrefixesOf(g, S, ss, n)
<1> DEFINE T == {m \in Nat : m <= n => \E g : PrefixesOf(g, S, ss, m)}
<1>1. 0 \in T
  <2>1. PrefixesOf([k \in 1 .. 0 |-> 0], S, ss, 0)
    BY DEF PrefixesOf
  <2> QED
    BY <2>1
<1>2. ASSUME NEW m \in Nat, m \in T
      PROVE  m + 1 \in T
  <2> SUFFICES ASSUME m + 1 <= n
               PROVE  \E g : PrefixesOf(g, S, ss, m + 1)
    OBVIOUS
  <2>1. PICK g : PrefixesOf(g, S, ss, m)
    BY <1>2
  <2> DEFINE last == IF m = 0 THEN ss[1] ELSE g[m] \o ss[m + 1]
             h == [k \in 1 .. m + 1 |-> IF k <= m THEN g[k] ELSE last]
  <2>2. last \in Seq(S)
    <3>1. ss[m + 1] \in Seq(S)
      OBVIOUS
    <3>2. CASE m = 0
      BY <3>1, <3>2
    <3>3. CASE m # 0
      <4>1. g[m] \in Seq(S)
        BY <2>1, <3>3 DEF PrefixesOf
      <4> QED
        BY <3>1, <3>3, <4>1
    <3> QED
      BY <3>2, <3>3
  <2>3. /\ h \in [1 .. m + 1 -> Seq(S)]
        /\ \A k \in 1 .. m : h[k] = g[k]
        /\ h[m + 1] = last
    <3> HIDE DEF last
    <3> QED
      BY <2>1, <2>2 DEF PrefixesOf
  <2>4. ASSUME NEW i \in 1 .. m + 1
        PROVE  h[i] = IF i = 1 THEN ss[1] ELSE h[i - 1] \o ss[i]
    <3> HIDE DEF h
    <3>1. CASE i <= m
      <4>1. h[i] = g[i] /\ (i # 1 => h[i - 1] = g[i - 1])
        BY <2>3, <3>1
      <4>2. g[i] = IF i = 1 THEN ss[1] ELSE g[i - 1] \o ss[i]
        <5>1. \A j \in 1 .. m : g[j] = IF j = 1 THEN ss[1] ELSE g[j - 1] \o ss[j]
          BY <2>1 DEF PrefixesOf
        <5>2. i \in 1 .. m
          BY <3>1
        <5> QED
          BY <5>1, <5>2
      <4>3. CASE i = 1
        BY <4>1, <4>2, <4>3
      <4>4. CASE i # 1
        <5>1. g[i] = g[i - 1] \o ss[i] /\ h[i - 1] = g[i - 1] /\ h[i] = g[i]
          BY <4>1, <4>2, <4>4
        <5> QED
          BY <4>4, <5>1
      <4> QED
        BY <4>3, <4>4
    <3>2. CASE i = m + 1 /\ m = 0
      BY <2>3, <3>2
    <3>3. CASE i = m + 1 /\ m # 0
      <4>1. h[m] = g[m] /\ i - 1 = m /\ i # 1
        BY <2>3, <3>3
      <4>2. h[i] = g[m] \o ss[m + 1]
        BY <2>3, <3>3
      <4> QED
        BY <3>3, <4>1, <4>2
    <3> QED
      BY <3>1, <3>2, <3>3
  <2>5. PrefixesOf(h, S, ss, m + 1)
    <3> HIDE DEF h
    <3> QED
      BY <2>3, <2>4 DEF PrefixesOf
  <2> QED
    BY <2>5
<1>3. Nat \subseteq T
  <2> HIDE DEF T
  <2> QED
    BY <1>1, <1>2, Induction
<1>4. n \in T
  BY <1>3
<1> QED
  BY <1>4

\* FlattenSeq() lays its sequences out one behind the other.
LEMMA FlattenFacts ==
  ASSUME NEW S, NEW ss \in Seq(Seq(S)), NEW f, NEW a \in [1 .. Len(ss) -> Nat],
         SumsOf(f, a, Len(ss)), \A k \in 1 .. Len(ss) : a[k] = Len(ss[k])
  PROVE  /\ FlattenSeq(ss) \in Seq(S)
         /\ Len(FlattenSeq(ss)) = f[Len(ss)]
         /\ \A k \in 1 .. Len(ss) : \A j \in 1 .. Len(ss[k]) :
              FlattenSeq(ss)[f[k - 1] + j] = ss[k][j]
<1> DEFINE n == Len(ss)
<1>a. n \in Nat /\ a \in [1 .. n -> Nat] /\ \A k \in 1 .. n : ss[k] \in Seq(S) /\ a[k] = Len(ss[k])
  OBVIOUS
<1>b. SumsOf(f, a, n)
  OBVIOUS
<1>1. CASE n = 0
  <2>1. ss = <<>>
    BY <1>1
  <2>2. FlattenSeq(ss) = <<>>
    BY <2>1 DEF FlattenSeq
  <2> QED
    BY <1>1, <2>2, <1>b DEF SumsOf
<1>2. CASE n # 0
  <2> DEFINE G(g) == g = [i \in 1 .. n |-> IF i = 1 THEN ss[i] ELSE g[i - 1] \o ss[i]]
             g == CHOOSE g : G(g)
  <2>1. \E h : G(h)
    <3>1. PICK h : PrefixesOf(h, S, ss, n)
      BY <1>a, PrefixesExist
    <3>2. h = [i \in 1 .. n |-> h[i]]
      BY <3>1 DEF PrefixesOf
    <3>3. \A i \in 1 .. n : h[i] = IF i = 1 THEN ss[i] ELSE h[i - 1] \o ss[i]
      BY <3>1 DEF PrefixesOf
    <3>4. G(h)
      BY <3>2, <3>3
    <3> QED
      BY <3>4
  <2>2. FlattenSeq(ss) = g[n]
    BY <1>2 DEF FlattenSeq
  <2>3. G(g)
    <3> HIDE DEF G
    <3> QED
      BY <2>1
  <2>4. \A i \in 1 .. n : g[i] = IF i = 1 THEN ss[i] ELSE g[i - 1] \o ss[i]
    <3> HIDE DEF g
    <3> QED
      BY <2>3
  <2> DEFINE Good(i) ==
               /\ g[i] \in Seq(S) /\ Len(g[i]) = f[i]
               /\ \A k \in 1 .. i : \A j \in 1 .. a[k] : g[i][f[k - 1] + j] = ss[k][j]
             T == {m \in Nat : m + 1 <= n => Good(m + 1)}
  <2> HIDE DEF g, G, n
  <2>5. 0 \in T
    <3>1. 1 \in 1 .. n /\ g[1] = ss[1] /\ ss[1] \in Seq(S) /\ a[1] = Len(ss[1])
      BY <1>2, <1>a, <2>4
    <3>2. f[0] = 0 /\ f[1] = f[0] + a[1] /\ a[1] \in Nat
      BY <1>a, <1>b, <3>1 DEF SumsOf
    <3>3. ASSUME NEW k \in 1 .. 1, NEW j \in 1 .. a[k]
          PROVE  g[1][f[k - 1] + j] = ss[k][j]
      <4>1. k = 1 /\ k - 1 = 0 /\ j \in 1 .. a[1] /\ 0 + j = j
        BY <3>2
      <4> QED
        BY <3>1, <3>2, <4>1
    <3> QED
      BY <3>1, <3>2, <3>3
  <2>6. ASSUME NEW m \in Nat, m \in T
        PROVE  m + 1 \in T
    <3> SUFFICES ASSUME m + 2 <= n
                 PROVE  Good(m + 2)
      OBVIOUS
    <3> DEFINE i == m + 1
    <3>1. Good(i) /\ i \in 1 .. n /\ i + 1 \in 1 .. n /\ i \in Nat /\ i + 1 # 1 /\ (i + 1) - 1 = i /\ m + 2 = i + 1
      BY <1>a, <2>6
    <3> HIDE DEF i
    <3>2. g[i + 1] = g[i] \o ss[i + 1] /\ g[i] \in Seq(S) /\ ss[i + 1] \in Seq(S) /\ a[i + 1] = Len(ss[i + 1])
      BY <1>a, <2>4, <3>1
    <3>c. /\ \A x \in 1 .. Len(g[i]) : g[i + 1][x] = g[i][x]
          /\ \A x \in 1 .. Len(ss[i + 1]) : g[i + 1][Len(g[i]) + x] = ss[i + 1][x]
      <4> DEFINE p == g[i]
                 q == ss[i + 1]
      <4>1. /\ \A x \in 1 .. Len(p) : (p \o q)[x] = p[x]
            /\ \A x \in 1 .. Len(q) : (p \o q)[Len(p) + x] = q[x]
        <5> p \in Seq(S) /\ q \in Seq(S)
          BY <3>2
        <5> HIDE DEF p, q
        <5> QED
          BY Concatenated
      <4> QED
        BY <3>2, <4>1
    <3>3. f[i + 1] = f[i] + a[i + 1] /\ f[i] = Len(g[i])
      BY <1>a, <1>b, <3>1 DEF SumsOf
    <3>4. g[i + 1] \in Seq(S) /\ Len(g[i + 1]) = f[i + 1]
      BY <3>2, <3>3
    <3>5. ASSUME NEW k \in 1 .. i + 1, NEW j \in 1 .. a[k]
          PROVE  g[i + 1][f[k - 1] + j] = ss[k][j]
      <4>k. k \in 1 .. n /\ k - 1 \in 0 .. n /\ k \in 0 .. n /\ i \in 0 .. n /\ k \in Nat
        BY <1>a, <3>1
      <4>0. /\ a[k] \in Nat /\ f[k - 1] \in Nat /\ f[k] \in Nat /\ f[i] \in Nat
            /\ f[k] = f[k - 1] + a[k] /\ j \in 1 .. a[k]
        BY <1>a, <1>b, <4>k DEF SumsOf
      <4>1. CASE k <= i
        <5>1. f[k] <= f[i]
          <6>1. \A x \in k .. n : f[k] <= f[x]
            BY <1>a, <1>b, <4>k, SumsGrow
          <6>2. i \in k .. n
            BY <1>a, <3>1, <4>1, <4>k
          <6> QED
            BY <6>1, <6>2
        <5>2. f[k - 1] + j \in 1 .. Len(g[i])
          BY <3>2, <3>3, <4>0, <5>1, SMTT(40)
        <5>3. g[i + 1][f[k - 1] + j] = g[i][f[k - 1] + j]
          BY <3>c, <5>2
        <5>4. g[i][f[k - 1] + j] = ss[k][j]
          BY <3>1, <4>1
        <5> QED
          BY <5>3, <5>4
      <4>2. CASE k = i + 1
        <5>1. f[k - 1] = Len(g[i]) /\ j \in 1 .. Len(ss[i + 1])
          BY <3>1, <3>2, <3>3, <4>2
        <5>2. g[i + 1][Len(g[i]) + j] = ss[i + 1][j]
          BY <3>c, <5>1
        <5> QED
          BY <4>2, <5>1, <5>2
      <4> QED
        BY <3>1, <4>k, <4>1, <4>2
    <3> QED
      BY <3>1, <3>4, <3>5
  <2>7. Nat \subseteq T
    <3> HIDE DEF T
    <3> QED
      BY <2>5, <2>6, Induction
  <2>8. Good(n)
    <3>1. n - 1 \in T /\ (n - 1) + 1 = n
      <4> HIDE DEF T
      <4> QED
        BY <1>2, <1>a, <2>7
    <3> QED
      BY <3>1
  <2> QED
    BY <2>2, <2>8, <1>a DEF n
<1> QED
  BY <1>1, <1>2

\* Every element of flat is one of the sequences ss, each only once: row says
\* of which sequence and col where in it.
TakenFrom(ss, flat, row, col) ==
  /\ \A x \in DOMAIN flat : /\ row[x] \in DOMAIN ss /\ col[x] \in DOMAIN ss[row[x]]
                            /\ flat[x] = ss[row[x]][col[x]]
  /\ \A x, y \in DOMAIN flat : x # y => row[x] # row[y] \/ col[x] # col[y]

\* The elements of a concatenation are those of its sequences.
LEMMA FlattenPlaces ==
  ASSUME NEW S, NEW ss \in Seq(Seq(S))
  PROVE  /\ FlattenSeq(ss) \in Seq(S)
         /\ \E row, col : TakenFrom(ss, FlattenSeq(ss), row, col)
<1> DEFINE n == Len(ss)
           a == [k \in 1 .. n |-> Len(ss[k])]
           flat == FlattenSeq(ss)
<1>a. n \in Nat /\ DOMAIN ss = 1 .. n /\ \A k \in 1 .. n : ss[k] \in Seq(S)
  OBVIOUS
<1>b. /\ a \in [1 .. n -> Nat]
      /\ \A k \in 1 .. n : a[k] = Len(ss[k]) /\ DOMAIN ss[k] = 1 .. a[k]
  BY <1>a
<1> HIDE DEF a
<1>1. PICK f : SumsOf(f, a, n)
  BY <1>a, <1>b, SumsExist
<1>2. /\ flat \in Seq(S) /\ Len(flat) = f[n]
      /\ \A k \in 1 .. n : \A j \in 1 .. Len(ss[k]) : flat[f[k - 1] + j] = ss[k][j]
  BY <1>1, <1>b, FlattenFacts
<1> HIDE DEF flat, n
<1>3. /\ f \in [0 .. n -> Nat] /\ f[0] = 0 /\ \A k \in 1 .. n : f[k] = f[k - 1] + a[k]
  BY <1>1 DEF SumsOf
<1>4. DOMAIN flat = 1 .. f[n] /\ n \in 0 .. n /\ f[n] \in Nat
  BY <1>2, <1>3, <1>a
<1> DEFINE Row(x) == CHOOSE k \in 1 .. n : f[k - 1] < x /\ x <= f[k]
           row == [x \in 1 .. f[n] |-> Row(x)]
           col == [x \in 1 .. f[n] |-> x - f[Row(x) - 1]]
<1>5. ASSUME NEW x \in 1 .. f[n]
      PROVE  Row(x) \in 1 .. n /\ f[Row(x) - 1] < x /\ x <= f[Row(x)]
  <2> DEFINE T == {k \in Nat : k <= n /\ x <= f[k]}
  <2>1. n \in T
    BY <1>a, <1>4
  <2>2. PICK k \in T : \A m \in T : k <= m
    <3>1. T \subseteq Nat /\ T # {}
      BY <2>1
    <3> HIDE DEF T
    <3> QED
      BY <3>1, Least
  <2>3. k \in Nat /\ k <= n /\ x <= f[k]
    BY <2>2
  <2>4. k # 0
    BY <2>3, <1>3
  <2>5. k \in 1 .. n /\ k - 1 \in 0 .. n /\ k - 1 \in Nat /\ k - 1 <= n
    BY <2>3, <2>4, <1>a
  <2>6. k - 1 \notin T
    <3> HIDE DEF T
    <3> QED
      BY <2>2, <2>5
  <2>7. f[k - 1] < x
    <3>1. f[k - 1] \in Nat /\ x \in Int
      BY <2>5, <1>3, <1>4, SMTT(40)
    <3>2. ~(x <= f[k - 1])
      BY <2>5, <2>6
    <3> QED
      BY <3>1, <3>2
  <2> QED
    BY <2>3, <2>5, <2>7
<1> HIDE DEF Row
<1>6. ASSUME NEW x \in 1 .. f[n]
      PROVE  /\ row[x] \in 1 .. n /\ col[x] \in 1 .. a[row[x]]
             /\ flat[x] = ss[row[x]][col[x]] /\ f[row[x] - 1] + col[x] = x
  <2>1. row[x] = Row(x) /\ Row(x) \in 1 .. n /\ f[Row(x) - 1] < x /\ x <= f[Row(x)]
    BY <1>5
  <2>2. col[x] = x - f[Row(x) - 1] /\ Row(x) - 1 \in 0 .. n /\ Row(x) \in 0 .. n
    BY <2>1, <1>a
  <2>3. /\ f[Row(x) - 1] \in Nat /\ f[Row(x)] \in Nat /\ a[Row(x)] \in Nat
        /\ f[Row(x)] = f[Row(x) - 1] + a[Row(x)]
    BY <2>1, <2>2, <1>3, <1>b
  <2>4. col[x] \in 1 .. a[Row(x)] /\ f[Row(x) - 1] + col[x] = x
    BY <2>1, <2>2, <2>3
  <2>5. a[Row(x)] = Len(ss[Row(x)])
    BY <2>1, <1>b
  <2>6. flat[f[Row(x) - 1] + col[x]] = ss[Row(x)][col[x]]
    <3> HIDE DEF col
    <3> QED
      BY <2>1, <2>4, <2>5, <1>2
  <2> HIDE DEF row, col
  <2> QED
    BY <2>1, <2>4, <2>6
<1> HIDE DEF row, col
<1>7. ASSUME NEW x \in DOMAIN flat, NEW y \in DOMAIN flat, row[x] = row[y], col[x] = col[y]
      PROVE  x = y
  BY <1>4, <1>6, <1>7
<1>8. \A x \in DOMAIN flat : /\ row[x] \in DOMAIN ss /\ col[x] \in DOMAIN ss[row[x]]
                             /\ flat[x] = ss[row[x]][col[x]]
  BY <1>4, <1>6, <1>a, <1>b
<1>9. TakenFrom(ss, flat, row, col)
  BY <1>7, <1>8 DEF TakenFrom
<1> QED
  BY <1>2, <1>9 DEF flat

-----------------------------------------------------------------------------
(* Sets of numbers, and sorting.                                           *)

\* A bounded set of natural numbers has a greatest one.
LEMMA Greatest ==
  ASSUME NEW S, S \subseteq Nat, S # {}, NEW n \in Nat, \A x \in S : x <= n
  PROVE  \E x \in S : \A y \in S : y <= x
<1> DEFINE T == {m \in Nat : \A y \in S : y <= m}
<1>1. n \in T /\ T \subseteq Nat /\ T # {}
  OBVIOUS
<1>2. PICK m \in T : \A k \in T : m <= k
  <2> HIDE DEF T
  <2> QED
    BY <1>1, Least
<1>3. m \in Nat /\ \A y \in S : y <= m
  BY <1>2
<1>4. CASE m \in S
  BY <1>3, <1>4
<1>5. CASE m \notin S
  <2>1. \A y \in S : y <= m - 1
    BY <1>3, <1>5
  <2>2. m # 0
    <3>1. PICK y \in S : TRUE
      OBVIOUS
    <3> QED
      BY <1>3, <1>5, <3>1
  <2>3. m - 1 \in T
    BY <1>3, <2>1, <2>2
  <2> QED
    <3> HIDE DEF T
    <3> QED
      BY <1>2, <1>3, <2>3
<1> QED
  BY <1>4, <1>5

\* A set of numbers without gaps is as many numbers from its least one on.
LEMMA Convex ==
  ASSUME NEW n \in Nat, NEW S, S \subseteq 1 .. n, S # {},
         \A x, y \in S : \A z \in x .. y : z \in S
  PROVE  /\ Cardinality(S) \in Nat
         /\ \E a \in S : /\ \A y \in S : a <= y
                         /\ S = a .. a + Cardinality(S) - 1
<1>0. S \subseteq Nat /\ \A x \in S : x <= n
  OBVIOUS
<1>1. PICK a \in S : \A y \in S : a <= y
  BY <1>0, Least
<1>2. PICK b \in S : \A y \in S : y <= b
  BY <1>0, Greatest
<1>3. a \in Nat /\ b \in Nat /\ a <= b /\ S = a .. b
  <2>1. a \in Nat /\ b \in Nat /\ a <= b
    BY <1>0, <1>1
  <2>2. S \subseteq a .. b
    BY <1>0, <1>1, <1>2, <2>1
  <2>3. a .. b \subseteq S
    OBVIOUS
  <2> QED
    BY <2>1, <2>2, <2>3
<1>4. Cardinality(S) = b - a + 1
  BY <1>3, FS_Interval
<1>5. S = a .. a + Cardinality(S) - 1 /\ Cardinality(S) \in Nat
  BY <1>3, <1>4
<1> QED
  BY <1>1, <1>5

\* The place of each of n elements: one behind all that come before it.
Ranking(before, n) ==
  [j \in 1 .. n |-> 1 + Cardinality({i \in 1 .. n : <<i, j>> \in before})]

\* In a total order every element has a place of its own, and the places are
\* in that order.
LEMMA Ranks ==
  ASSUME NEW n \in Nat, NEW before, NEW place,
         \A i, j, k \in 1 .. n : <<i, j>> \in before /\ <<j, k>> \in before => <<i, k>> \in before,
         \A i \in 1 .. n : <<i, i>> \notin before,
         \A i, j \in 1 .. n : i # j => <<i, j>> \in before \/ <<j, i>> \in before,
         place = Ranking(before, n)
  PROVE  /\ \A k \in 1 .. n : \E i \in 1 .. n : place[i] = k
         /\ \A i, j \in 1 .. n : place[i] < place[j] => <<i, j>> \in before
<1> DEFINE Lower(j) == {i \in 1 .. n : <<i, j>> \in before}
<1>1. IsFiniteSet(1 .. n) /\ Cardinality(1 .. n) = n
  BY FS_Interval
<1>2. ASSUME NEW j \in 1 .. n
      PROVE  /\ IsFiniteSet(Lower(j)) /\ Cardinality(Lower(j)) \in Nat
             /\ Cardinality(Lower(j)) < n
             /\ place[j] = 1 + Cardinality(Lower(j))
  <2>1. Lower(j) \in SUBSET (1 .. n) /\ Lower(j) # 1 .. n
    OBVIOUS
  <2>2. place[j] = 1 + Cardinality(Lower(j))
    BY DEF Ranking
  <2> HIDE DEF Lower
  <2>3. /\ IsFiniteSet(Lower(j)) /\ Cardinality(Lower(j)) <= n
        /\ Cardinality(1 .. n) = Cardinality(Lower(j)) => 1 .. n = Lower(j)
    BY <1>1, <2>1, FS_Subset
  <2>4. Cardinality(Lower(j)) \in Nat
    BY <2>3, FS_CardinalityType
  <2> QED
    BY <1>1, <2>1, <2>2, <2>3, <2>4
<1>3. ASSUME NEW i \in 1 .. n, NEW j \in 1 .. n, <<i, j>> \in before
      PROVE  place[i] < place[j]
  <2>1. Lower(i) \in SUBSET Lower(j) /\ i \in Lower(j) /\ i \notin Lower(i)
    BY <1>3
  <2> HIDE DEF Lower
  <2>2. /\ Cardinality(Lower(i)) <= Cardinality(Lower(j))
        /\ Cardinality(Lower(j)) = Cardinality(Lower(i)) => Lower(j) = Lower(i)
    BY <1>2, <2>1, FS_Subset
  <2> QED
    BY <1>2, <2>1, <2>2
<1> HIDE DEF Lower
<1>4. \A i \in 1 .. n : place[i] \in 1 .. n
  BY <1>2
<1>5. ASSUME NEW i \in 1 .. n, NEW j \in 1 .. n, place[i] = place[j]
      PROVE  i = j
  <2>1. place[i] \in Nat /\ place[j] \in Nat
    BY <1>4
  <2>2. ~(<<i, j>> \in before) /\ ~(<<j, i>> \in before)
    BY <1>3, <1>5, <2>1
  <2> QED
    BY <2>2
<1>6. ASSUME NEW i \in 1 .. n, NEW j \in 1 .. n, place[i] < place[j]
      PROVE  <<i, j>> \in before
  <2>1. place[i] \in Nat /\ place[j] \in Nat
    BY <1>4
  <2>2. ~(<<j, i>> \in before) /\ i # j
    BY <1>3, <1>6, <2>1
  <2> QED
    BY <2>2
<1>7. place \in Injection(1 .. n, 1 .. n)
  <2>1. place \in [1 .. n -> 1 .. n]
    BY <1>4 DEF Ranking
  <2> HIDE DEF Lower
  <2> QED
    BY <1>5, <2>1 DEF Injection, IsInjective
<1>8. place \in Surjection(1 .. n, 1 .. n)
  BY <1>1, <1>7, FS_Injection
<1>9. \A k \in 1 .. n : \E i \in 1 .. n : place[i] = k
  BY <1>8 DEF Surjection
<1> QED
  BY <1>6, <1>9
=============================================================================
