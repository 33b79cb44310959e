--------------------------- MODULE SequenceLemmas ---------------------------
(***************************************************************************)
(* Facts about naturals and sequences that several proofs need: induction  *)
(* up to a bound and iteration, insertion into a sequence, and what Kept   *)
(* keeps.                                                                  *)
(***************************************************************************)
EXTENDS SequenceFilter, Integers, SequencesExt, FiniteSetTheorems, WellFoundedInduction, TLAPS

(* The less-than relation of the naturals, as a set of pairs. *)
NatLess == {p \in Nat \X Nat : p[1] < p[2]}

(* Every non-empty set of naturals has a least element: it is what makes   *)
(* the head of a chain, and the successor of a link, exist.                *)
LEMMA LeastNatural ==
  ASSUME NEW T, T \subseteq Nat, T # {}
  PROVE  \E x \in T : \A y \in T : x <= y
<1>1. IsWellFoundedOn(NatLess, Nat)
  BY NatLessThanWellFounded DEF OpToRel, NatLess
<1>2. \E x \in T : \A y \in T : ~ (<<y, x>> \in NatLess)
  BY <1>1, WFMin
<1>3. \A x, y \in Nat : y < x => <<y, x>> \in NatLess
  BY DEF NatLess
<1>4. \A x, y \in Nat : ~(y < x) => x <= y
  OBVIOUS
<1>5. PICK x \in T : \A y \in T : ~ (<<y, x>> \in NatLess)
  BY <1>2
<1>6. \A y \in T : x <= y
  BY <1>3, <1>4, <1>5
<1> QED
  BY <1>6


(* What holds of 0 and passes on to each next number holds up to the bound. *)
LEMMA InductionUpTo ==
  ASSUME NEW N \in Nat, NEW S, 0 \in S, \A i \in 0 .. N - 1 : i \in S => i + 1 \in S
  PROVE  0 .. N \subseteq S
<1> DEFINE T == (0 .. N) \ S
<1>1. SUFFICES ASSUME T # {} PROVE FALSE
  OBVIOUS
<1>2. PICK k \in T : \A j \in T : k <= j
  <2>1. T \subseteq Nat
    OBVIOUS
  <2> HIDE DEF T
  <2> QED
    BY <1>1, <2>1, LeastNatural
<1>3. k # 0 /\ k - 1 \in 0 .. N - 1 /\ k - 1 \notin T
  BY <1>2
<1> QED
  BY <1>2, <1>3

(* A step, which may depend on its number, can be taken as often as one likes. *)
IsIteration(f, x, g, X, k) ==
  f \in [0 .. k -> X] /\ f[0] = x /\ \A n \in 1 .. k : f[n] = g[<<n, f[n - 1]>>]

LEMMA IterationExists ==
  ASSUME NEW N \in Nat, NEW X, NEW x \in X, NEW g \in [(1 .. N) \X X -> X]
  PROVE  \E f : IsIteration(f, x, g, X, N)
<1> DEFINE S == {k \in 0 .. N : \E f : IsIteration(f, x, g, X, k)}
<1>1. 0 \in S
  <2> DEFINE h == [n \in 0 .. 0 |-> x]
  <2>1. IsIteration(h, x, g, X, 0)
    BY DEF IsIteration
  <2> HIDE DEF h
  <2> QED
    BY <2>1
<1>2. ASSUME NEW k \in 0 .. N - 1, k \in S PROVE k + 1 \in S
  <2>1. PICK f : IsIteration(f, x, g, X, k)
    BY <1>2
  <2> DEFINE h == [n \in 0 .. k + 1 |-> IF n = k + 1 THEN g[<<k + 1, f[k]>>] ELSE f[n]]
  <2>2. f[k] \in X /\ g[<<k + 1, f[k]>>] \in X
    BY <2>1 DEF IsIteration
  <2>3. h \in [0 .. k + 1 -> X] /\ h[0] = x
    BY <2>1, <2>2 DEF IsIteration
  <2>4. ASSUME NEW n \in 1 .. k + 1 PROVE h[n] = g[<<n, h[n - 1]>>]
    <3>1. CASE n = k + 1
      <4>1. n - 1 = k /\ h[k] = f[k] /\ h[n] = g[<<k + 1, f[k]>>]
        BY <3>1
      <4> QED
        BY <3>1, <4>1
    <3>2. CASE n # k + 1
      BY <2>1, <2>4, <3>2 DEF IsIteration
    <3> QED
      BY <3>1, <3>2
  <2>5. IsIteration(h, x, g, X, k + 1)
    BY <2>3, <2>4 DEF IsIteration
  <2> HIDE DEF h
  <2> QED
    BY <2>5
<1>3. N \in S
  <2> HIDE DEF S
  <2>1. 0 .. N \subseteq S
    BY <1>1, <1>2, InductionUpTo
  <2> QED
    BY <2>1
<1> QED
  BY <1>3
-----------------------------------------------------------------------------
(* A sequence with an element more. *)

LEMMA InsertAtElements ==
  ASSUME NEW X, NEW s \in Seq(X), NEW e \in X, NEW k \in 1 .. Len(s) + 1
  PROVE  /\ InsertAt(s, k, e) \in Seq(X)
         /\ Len(InsertAt(s, k, e)) = Len(s) + 1
         /\ InsertAt(s, k, e)[k] = e
         /\ \A i \in 1 .. k - 1 : InsertAt(s, k, e)[i] = s[i]
         /\ \A i \in k + 1 .. Len(s) + 1 : InsertAt(s, k, e)[i] = s[i - 1]
<1> DEFINE before == SubSeq(s, 1, k - 1)
           behind == SubSeq(s, k, Len(s))
<1>1. before \in Seq(X) /\ Len(before) = k - 1 /\ \A i \in 1 .. k - 1 : before[i] = s[i]
  OBVIOUS
<1>2. /\ behind \in Seq(X) /\ Len(behind) = Len(s) - k + 1
      /\ \A i \in 1 .. Len(s) - k + 1 : behind[i] = s[i + k - 1]
  OBVIOUS
<1>3. InsertAt(s, k, e) = (before \o <<e>>) \o behind
  BY DEF InsertAt
<1> HIDE DEF before, behind
<1>4. /\ before \o <<e>> \in Seq(X) /\ Len(before \o <<e>>) = k
      /\ (before \o <<e>>)[k] = e
      /\ \A i \in 1 .. k - 1 : (before \o <<e>>)[i] = s[i]
  BY <1>1, SMTT(30)
<1> DEFINE front == before \o <<e>>
<1> HIDE DEF front
<1>5. front \in Seq(X) /\ Len(front) = k /\ front[k] = e /\ \A i \in 1 .. k - 1 : front[i] = s[i]
  BY <1>4 DEF front
<1>6. /\ front \o behind \in Seq(X) /\ Len(front \o behind) = Len(s) + 1
      /\ \A i \in 1 .. k : (front \o behind)[i] = front[i]
      /\ \A i \in k + 1 .. Len(s) + 1 : (front \o behind)[i] = behind[i - k]
  BY <1>2, <1>5
<1>7. \A i \in k + 1 .. Len(s) + 1 : behind[i - k] = s[i - 1]
  BY <1>2
<1> QED
  BY <1>3, <1>5, <1>6, <1>7 DEF front
-----------------------------------------------------------------------------
(* What Kept keeps. *)

(* The stages in which Kept is built. *)
AreStages(f, s, T, X) ==
  /\ f \in [0 .. Len(s) -> Seq(X)] /\ f[0] = <<>>
  /\ \A i \in 1 .. Len(s) : f[i] = IF s[i] \in T THEN Append(f[i - 1], s[i]) ELSE f[i - 1]

LEMMA KeptInStages ==
  ASSUME NEW X, NEW s \in Seq(X), NEW T
  PROVE  \E f : AreStages(f, s, T, X) /\ Kept(s, T) = f[Len(s)]
<1> DEFINE N == Len(s)
           Stages(f) == [i \in 0 .. N |-> IF i = 0 THEN <<>>
                                          ELSE IF s[i] \in T THEN Append(f[i - 1], s[i])
                                          ELSE f[i - 1]]
           g == [q \in (1 .. N) \X Seq(X) |->
                   IF s[q[1]] \in T THEN Append(q[2], s[q[1]]) ELSE q[2]]
<1>1. N \in Nat /\ (\A i \in 1 .. N : s[i] \in X) /\ <<>> \in Seq(X)
  OBVIOUS
<1>2. g \in [(1 .. N) \X Seq(X) -> Seq(X)]
  BY <1>1
<1>3. Kept(s, T) = (CHOOSE f : f = Stages(f))[N]
  BY DEF Kept
<1>4. \A q \in (1 .. N) \X Seq(X) : g[q] = IF s[q[1]] \in T THEN Append(q[2], s[q[1]]) ELSE q[2]
  OBVIOUS
<1> HIDE DEF g, Stages, N
<1>5. PICK f : IsIteration(f, <<>>, g, Seq(X), N)
  BY <1>1, <1>2, IterationExists
<1>6. f \in [0 .. N -> Seq(X)] /\ f[0] = <<>>
  BY <1>5 DEF IsIteration
<1>7. ASSUME NEW i \in 1 .. N
      PROVE  f[i] = IF s[i] \in T THEN Append(f[i - 1], s[i]) ELSE f[i - 1]
  <2>1. f[i] = g[<<i, f[i - 1]>>] /\ f[i - 1] \in Seq(X)
    BY <1>1, <1>5 DEF IsIteration
  <2> QED
    BY <1>4, <2>1
<1>8. f = Stages(f)
  <2>1. ASSUME NEW i \in 0 .. N
        PROVE  f[i] = IF i = 0 THEN <<>>
                      ELSE IF s[i] \in T THEN Append(f[i - 1], s[i]) ELSE f[i - 1]
    <3>1. i # 0 => i \in 1 .. N
      BY <1>1
    <3> QED
      BY <1>6, <1>7, <3>1
  <2> QED
    BY <1>6, <2>1 DEF Stages
<1> DEFINE h == CHOOSE k : k = Stages(k)
<1>9. h = Stages(h)
  BY <1>8
<1> HIDE DEF h
<1>10. h[0] = <<>> /\ DOMAIN h = 0 .. N
  BY <1>1, <1>9 DEF Stages
<1>11. ASSUME NEW i \in 1 .. N
       PROVE  h[i] = IF s[i] \in T THEN Append(h[i - 1], s[i]) ELSE h[i - 1]
  <2>1. i \in 0 .. N /\ i # 0
    BY <1>1
  <2>2. h = [k \in 0 .. N |-> IF k = 0 THEN <<>>
                             ELSE IF s[k] \in T THEN Append(h[k - 1], s[k]) ELSE h[k - 1]]
    BY <1>9 DEF Stages
  <2> QED
    BY <2>1, <2>2
<1> DEFINE S == {i \in 0 .. N : h[i] \in Seq(X)}
<1>12. ASSUME NEW i \in 0 .. N - 1, i \in S PROVE i + 1 \in S
  <2>1. i + 1 \in 1 .. N /\ (i + 1) - 1 = i /\ i + 1 \in 0 .. N
    BY <1>1
  <2>2. h[i + 1] = IF s[i + 1] \in T THEN Append(h[i], s[i + 1]) ELSE h[i]
    BY <1>11, <2>1
  <2>3. h[i + 1] \in Seq(X)
    BY <1>1, <1>12, <2>1, <2>2
  <2> QED
    BY <2>1, <2>3
<1>13. 0 .. N \subseteq S
  <2>1. 0 \in S
    <3>1. h[0] \in Seq(X)
      BY <1>1, <1>10, Zenon
    <3>2. 0 \in 0 .. N
      BY <1>1
    <3> QED
      BY <3>1, <3>2
  <2> HIDE DEF S
  <2> QED
    BY <1>1, <1>12, <2>1, InductionUpTo
<1>14. \A i \in 0 .. N : h[i] \in Seq(X)
  BY <1>13
<1>15. h = [i \in 0 .. N |-> h[i]]
  BY <1>1, <1>9, <1>10 DEF Stages
<1>16. AreStages(h, s, T, X)
  BY <1>10, <1>11, <1>14, <1>15 DEF AreStages, N
<1> QED
  BY <1>3, <1>16 DEF h, N

LEMMA KeptEmpty == \A T : Kept(<<>>, T) = <<>>
<1> TAKE T
<1>1. <<>> \in Seq({}) /\ Len(<<>>) = 0
  OBVIOUS
<1>2. PICK f : AreStages(f, <<>>, T, {}) /\ Kept(<<>>, T) = f[Len(<<>>)]
  BY <1>1, KeptInStages
<1> QED
  BY <1>1, <1>2 DEF AreStages

LEMMA KeptAppend ==
  ASSUME NEW X, NEW s \in Seq(X), NEW x \in X, NEW T
  PROVE  Kept(Append(s, x), T) = IF x \in T THEN Append(Kept(s, T), x) ELSE Kept(s, T)
<1> DEFINE n == Len(s)
           t == Append(s, x)
<1>1. n \in Nat /\ t \in Seq(X) /\ Len(t) = n + 1 /\ t[n + 1] = x /\ \A i \in 1 .. n : t[i] = s[i]
  OBVIOUS
<1>2. PICK f : AreStages(f, s, T, X) /\ Kept(s, T) = f[n]
  BY KeptInStages
<1>3. PICK g : AreStages(g, t, T, X) /\ Kept(t, T) = g[n + 1]
  BY <1>1, KeptInStages
<1> HIDE DEF n, t
<1>4. f[0] = <<>> /\ \A i \in 1 .. n : f[i] = IF s[i] \in T THEN Append(f[i - 1], s[i]) ELSE f[i - 1]
  BY <1>2 DEF AreStages, n
<1>5. g[0] = <<>> /\ \A i \in 1 .. n + 1 :
                       g[i] = IF t[i] \in T THEN Append(g[i - 1], t[i]) ELSE g[i - 1]
  BY <1>1, <1>3 DEF AreStages
<1> DEFINE S == {i \in 0 .. n : f[i] = g[i]}
<1>6. ASSUME NEW i \in 0 .. n - 1, i \in S PROVE i + 1 \in S
  <2>1. i + 1 \in 1 .. n /\ i + 1 \in 1 .. n + 1 /\ (i + 1) - 1 = i /\ i + 1 \in 0 .. n
    BY <1>1
  <2>2. f[i] = g[i] /\ t[i + 1] = s[i + 1]
    BY <1>1, <1>6, <2>1
  <2>3. f[i + 1] = g[i + 1]
    BY <1>4, <1>5, <2>1, <2>2
  <2> QED
    BY <2>1, <2>3
<1>7. 0 .. n \subseteq S
  <2>1. 0 \in S
    BY <1>1, <1>4, <1>5
  <2> HIDE DEF S
  <2> QED
    BY <1>1, <1>6, <2>1, InductionUpTo
<1>8. f[n] = g[n]
  BY <1>1, <1>7
<1>9. n + 1 \in 1 .. n + 1 /\ (n + 1) - 1 = n
  BY <1>1
<1>10. g[n + 1] = IF x \in T THEN Append(g[n], x) ELSE g[n]
  BY <1>1, <1>5, <1>9
<1> QED
  BY <1>2, <1>3, <1>8, <1>10 DEF t

(* The places, in increasing order, of the elements that are kept of the   *)
(* first n.                                                                *)
ArePlaces(h, kept, s, T, n) ==
  /\ h \in [1 .. Len(kept) -> 1 .. n]
  /\ \A i \in 1 .. Len(kept) : kept[i] = s[h[i]] /\ s[h[i]] \in T
  /\ \A i, j \in 1 .. Len(kept) : i < j => h[i] < h[j]
  /\ \A k \in 1 .. n : s[k] \in T => \E i \in 1 .. Len(kept) : h[i] = k

LEMMA KeptHasPlaces ==
  ASSUME NEW X, NEW s \in Seq(X), NEW T
  PROVE  /\ Kept(s, T) \in Seq(X)
         /\ \E h : ArePlaces(h, Kept(s, T), s, T, Len(s))
<1> DEFINE N == Len(s)
<1>1. N \in Nat /\ \A i \in 1 .. N : s[i] \in X
  OBVIOUS
<1>2. PICK f : AreStages(f, s, T, X) /\ Kept(s, T) = f[N]
  BY KeptInStages
<1> HIDE DEF N
<1>3. /\ \A i \in 0 .. N : f[i] \in Seq(X)
      /\ f[0] = <<>>
      /\ \A i \in 1 .. N : f[i] = IF s[i] \in T THEN Append(f[i - 1], s[i]) ELSE f[i - 1]
  BY <1>2 DEF AreStages, N
<1> DEFINE S == {n \in 0 .. N : \E h : ArePlaces(h, f[n], s, T, n)}
<1>4. 0 \in S
  <2> DEFINE h == [i \in 1 .. 0 |-> 1]
  <2>1. ArePlaces(h, f[0], s, T, 0)
    BY <1>3 DEF ArePlaces
  <2> HIDE DEF h
  <2> QED
    BY <1>1, <2>1
<1>5. ASSUME NEW n \in 0 .. N - 1, n \in S PROVE n + 1 \in S
  <2>1. PICK h : ArePlaces(h, f[n], s, T, n)
    BY <1>5
  <2> DEFINE m == Len(f[n])
  <2>2. n + 1 \in 1 .. N /\ (n + 1) - 1 = n /\ n + 1 \in 0 .. N /\ n \in 0 .. N /\ n \in Nat
    BY <1>1
  <2>3. f[n] \in Seq(X) /\ f[n + 1] = IF s[n + 1] \in T THEN Append(f[n], s[n + 1]) ELSE f[n]
    BY <1>3, <2>2
  <2>4. CASE s[n + 1] \notin T
    <3>1. f[n + 1] = f[n]
      BY <2>3, <2>4
    <3>2. ASSUME NEW k \in 1 .. n + 1, s[k] \in T PROVE k \in 1 .. n
      BY <2>2, <2>4, <3>2
    <3>3. ArePlaces(h, f[n + 1], s, T, n + 1)
      BY <2>1, <2>2, <3>1, <3>2 DEF ArePlaces
    <3> QED
      BY <2>2, <3>3
  <2>5. CASE s[n + 1] \in T
    <3> DEFINE g == [i \in 1 .. m + 1 |-> IF i = m + 1 THEN n + 1 ELSE h[i]]
               kept == Append(f[n], s[n + 1])
    <3>1. /\ f[n + 1] = kept /\ m \in Nat /\ Len(kept) = m + 1 /\ kept[m + 1] = s[n + 1]
          /\ \A i \in 1 .. m : kept[i] = f[n][i]
      BY <1>1, <2>2, <2>3, <2>5
    <3>2. h \in [1 .. m -> 1 .. n]
      BY <2>1 DEF ArePlaces
    <3>3. g \in [1 .. m + 1 -> 1 .. n + 1]
      BY <2>2, <3>1, <3>2
    <3> HIDE DEF kept, m
    <3>10. m \in Nat /\ m + 1 \in 1 .. m + 1 /\ \A i \in 1 .. m : i \in 1 .. m + 1 /\ i # m + 1
      BY <3>1
    <3>11. g[m + 1] = n + 1 /\ \A i \in 1 .. m : g[i] = h[i]
      BY <3>10
    <3>12. \A i \in 1 .. m : h[i] < n + 1
      BY <2>2, <3>2
    <3>4. /\ g[m + 1] = n + 1 /\ \A i \in 1 .. m : g[i] = h[i] /\ g[i] < n + 1
          /\ \A i \in 1 .. m + 1 : i = m + 1 \/ i \in 1 .. m
      BY <3>1, <3>11, <3>12
    <3> HIDE DEF g
    <3>5. \A i \in 1 .. m + 1 : kept[i] = s[g[i]] /\ s[g[i]] \in T
      <4>1. \A i \in 1 .. m : f[n][i] = s[h[i]] /\ s[h[i]] \in T
        BY <2>1 DEF ArePlaces, m
      <4> QED
        BY <2>5, <3>1, <3>4, <4>1
    <3>6. \A i, j \in 1 .. m + 1 : i < j => g[i] < g[j]
      <4>1. \A i, j \in 1 .. m : i < j => h[i] < h[j]
        BY <2>1 DEF ArePlaces, m
      <4>2. \A i, j \in 1 .. m + 1 : i < j => i \in 1 .. m
        BY <3>1
      <4> QED
        BY <3>4, <4>1, <4>2
    <3>7. \A k \in 1 .. n + 1 : s[k] \in T => \E i \in 1 .. m + 1 : g[i] = k
      <4>1. \A k \in 1 .. n : s[k] \in T => \E i \in 1 .. m : h[i] = k
        BY <2>1 DEF ArePlaces, m
      <4>2. m + 1 \in 1 .. m + 1 /\ \A i \in 1 .. m : i \in 1 .. m + 1
        BY <3>1
      <4>3. \A k \in 1 .. n + 1 : k = n + 1 \/ k \in 1 .. n
        BY <2>2
      <4> QED
        BY <3>4, <4>1, <4>2, <4>3
    <3>8. ArePlaces(g, f[n + 1], s, T, n + 1)
      BY <3>1, <3>3, <3>5, <3>6, <3>7 DEF ArePlaces
    <3> QED
      BY <2>2, <3>8
  <2> QED
    BY <2>4, <2>5
<1>6. 0 .. N \subseteq S
  <2> HIDE DEF S
  <2> QED
    BY <1>1, <1>4, <1>5, InductionUpTo
<1> QED
  BY <1>1, <1>2, <1>3, <1>6 DEF N
-----------------------------------------------------------------------------
LEMMA ConcatPlaces ==
  ASSUME NEW X, NEW a \in Seq(X), NEW b \in Seq(X)
  PROVE  /\ a \o b \in Seq(X) /\ Len(a \o b) = Len(a) + Len(b)
         /\ \A i \in 1 .. Len(a) : (a \o b)[i] = a[i]
         /\ \A i \in 1 .. Len(b) : (a \o b)[Len(a) + i] = b[i]
OBVIOUS

(* A stack: its top is its first element. *)

LEMMA PushElements ==
  ASSUME NEW X, NEW s \in Seq(X), NEW e \in X
  PROVE  /\ <<e>> \o s \in Seq(X) /\ Len(<<e>> \o s) = Len(s) + 1
         /\ (<<e>> \o s)[1] = e
         /\ \A i \in 1 .. Len(s) : (<<e>> \o s)[i + 1] = s[i]
<1>1. <<e>> \in Seq(X) /\ Len(<<e>>) = 1 /\ <<e>>[1] = e
  OBVIOUS
<1> DEFINE one == <<e>>
<1> HIDE DEF one
<1>2. one \in Seq(X) /\ Len(one) = 1 /\ one[1] = e
  BY <1>1 DEF one
<1>3. /\ one \o s \in Seq(X) /\ Len(one \o s) = Len(one) + Len(s)
      /\ \A i \in 1 .. Len(one) : (one \o s)[i] = one[i]
      /\ \A i \in 1 .. Len(s) : (one \o s)[Len(one) + i] = s[i]
  BY <1>2, ConcatPlaces
<1>4. Len(s) \in Nat
  OBVIOUS
<1>5. \A i \in 1 .. Len(s) : (one \o s)[i + 1] = s[i]
  BY <1>2, <1>3, <1>4
<1> QED
  BY <1>2, <1>3, <1>4, <1>5 DEF one

LEMMA PopElements ==
  ASSUME NEW X, NEW s \in Seq(X), s # <<>>
  PROVE  /\ s[1] \in X
         /\ Tail(s) \in Seq(X) /\ Len(Tail(s)) = Len(s) - 1
         /\ \A i \in 1 .. Len(s) - 1 : Tail(s)[i] = s[i + 1]
         /\ Tail(s) = <<>> <=> Len(s) = 1
<1>1. Len(s) \in Nat /\ Len(s) # 0 /\ s[1] \in X
  OBVIOUS
<1>2. /\ Tail(s) \in Seq(X) /\ Len(Tail(s)) = Len(s) - 1
      /\ \A i \in 1 .. Len(s) - 1 : Tail(s)[i] = s[i + 1]
  BY <1>1
<1>3. Tail(s) = <<>> <=> Len(Tail(s)) = 0
  BY <1>2
<1>4. Tail(s) = <<>> <=> Len(s) = 1
  BY <1>1, <1>2, <1>3
<1> QED
  BY <1>1, <1>2, <1>4

LEMMA AppendPlaces ==
  ASSUME NEW X, NEW s \in Seq(X), NEW e \in X
  PROVE  /\ Append(s, e) \in Seq(X) /\ Append(s, e) # <<>>
         /\ Len(s) \in Nat /\ Len(Append(s, e)) = Len(s) + 1
         /\ DOMAIN s = 1 .. Len(s) /\ DOMAIN Append(s, e) = 1 .. Len(s) + 1
         /\ \A i \in 1 .. Len(s) : Append(s, e)[i] = s[i]
         /\ Append(s, e)[Len(s) + 1] = e
         /\ ToSet(Append(s, e)) = ToSet(s) \cup {e}
<1>1. /\ Append(s, e) \in Seq(X) /\ Append(s, e) # <<>>
      /\ Len(s) \in Nat /\ Len(Append(s, e)) = Len(s) + 1
      /\ DOMAIN s = 1 .. Len(s) /\ DOMAIN Append(s, e) = 1 .. Len(s) + 1
  OBVIOUS
<1>2. /\ \A i \in 1 .. Len(s) : Append(s, e)[i] = s[i]
      /\ Append(s, e)[Len(s) + 1] = e
  OBVIOUS
<1>3. ToSet(Append(s, e)) = ToSet(s) \cup {e}
  <2>1. \A i \in 1 .. Len(s) + 1 : i = Len(s) + 1 \/ i \in 1 .. Len(s)
    BY <1>1
  <2>2. Len(s) + 1 \in 1 .. Len(s) + 1 /\ \A i \in 1 .. Len(s) : i \in 1 .. Len(s) + 1
    BY <1>1
  <2> QED
    BY <1>1, <1>2, <2>1, <2>2 DEF ToSet
<1> QED
  BY <1>1, <1>2, <1>3
-----------------------------------------------------------------------------
(* Sequences end to end, and the first elements of one. *)

LEMMA ConcatAppend ==
  ASSUME NEW X, NEW a \in Seq(X), NEW b \in Seq(X), NEW e \in X
  PROVE  a \o Append(b, e) = Append(a \o b, e)
<1> DEFINE n == Len(a)
           m == Len(b)
           r == a \o Append(b, e)
           l == Append(a \o b, e)
<1>1. n \in Nat /\ m \in Nat /\ Append(b, e) \in Seq(X) /\ Len(Append(b, e)) = m + 1
      /\ Append(b, e)[m + 1] = e /\ \A i \in 1 .. m : Append(b, e)[i] = b[i]
  OBVIOUS
<1>2. /\ a \o b \in Seq(X) /\ Len(a \o b) = n + m
      /\ \A i \in 1 .. n : (a \o b)[i] = a[i]
      /\ \A i \in 1 .. m : (a \o b)[n + i] = b[i]
  BY ConcatPlaces
<1>3. /\ r \in Seq(X) /\ Len(r) = n + (m + 1)
      /\ \A i \in 1 .. n : r[i] = a[i]
      /\ \A i \in 1 .. m + 1 : r[n + i] = Append(b, e)[i]
  BY <1>1, ConcatPlaces
<1>4. /\ l \in Seq(X) /\ Len(l) = n + m + 1 /\ l[n + m + 1] = e
      /\ \A i \in 1 .. n + m : l[i] = (a \o b)[i]
  BY <1>2
<1> HIDE DEF r, l, n, m
<1>5. ASSUME NEW i \in 1 .. n + m + 1 PROVE r[i] = l[i]
  <2>1. CASE i \in 1 .. n
    <3>1. i \in 1 .. n + m
      BY <1>1, <2>1
    <3> QED
      BY <1>2, <1>3, <1>4, <2>1, <3>1
  <2>2. CASE i \in n + 1 .. n + m
    <3> DEFINE k == i - n
    <3>1. k \in 1 .. m /\ k \in 1 .. m + 1 /\ n + k = i /\ i \in 1 .. n + m
      BY <1>1, <2>2
    <3> HIDE DEF k
    <3>2. r[i] = b[k] /\ l[i] = b[k]
      BY <1>1, <1>2, <1>3, <1>4, <3>1
    <3> QED
      BY <3>2
  <2>3. CASE i = n + m + 1
    <3>1. m + 1 \in 1 .. m + 1 /\ n + (m + 1) = i
      BY <1>1, <2>3
    <3> QED
      BY <1>1, <1>3, <1>4, <2>3, <3>1
  <2> QED
    BY <1>1, <2>1, <2>2, <2>3
<1>6. r \in [1 .. n + m + 1 -> X] /\ l \in [1 .. n + m + 1 -> X]
  BY <1>1, <1>3, <1>4
<1>7. r = l
  <2> DEFINE D == 1 .. n + m + 1
  <2>1. r \in [D -> X] /\ l \in [D -> X] /\ \A i \in D : r[i] = l[i]
    BY <1>5, <1>6
  <2> HIDE DEF D
  <2> QED
    BY <2>1
<1> QED
  BY <1>7 DEF r, l

LEMMA FrontAppend ==
  ASSUME NEW X, NEW s \in Seq(X), NEW n \in 0 .. Len(s) - 1
  PROVE  /\ SubSeq(s, 1, n) \in Seq(X) /\ s[n + 1] \in X
         /\ SubSeq(s, 1, n + 1) = Append(SubSeq(s, 1, n), s[n + 1])
<1>1. Len(s) \in Nat /\ n \in Nat /\ n + 1 \in 1 .. Len(s)
  OBVIOUS
<1> DEFINE p == SubSeq(s, 1, n)
           q == SubSeq(s, 1, n + 1)
<1>2. p \in Seq(X) /\ Len(p) = n /\ \A i \in 1 .. n : p[i] = s[i]
  BY <1>1
<1>3. q \in Seq(X) /\ Len(q) = n + 1 /\ \A i \in 1 .. n + 1 : q[i] = s[i]
  BY <1>1
<1>4. s[n + 1] \in X
  BY <1>1
<1> HIDE DEF p, q
<1>5. q = Append(p, s[n + 1])
  BY <1>1, <1>2, <1>3, <1>4
<1> QED
  BY <1>2, <1>4, <1>5 DEF p, q

LEMMA FrontOfNone ==
  ASSUME NEW X, NEW s \in Seq(X)
  PROVE  SubSeq(s, 1, 0) = <<>> /\ SubSeq(s, 1, Len(s)) = s
OBVIOUS

LEMMA ConcatEmpty ==
  ASSUME NEW X, NEW s \in Seq(X)
  PROVE  s \o <<>> = s
OBVIOUS

LEMMA KeptConcat ==
  ASSUME NEW X, NEW a \in Seq(X), NEW b \in Seq(X), NEW T
  PROVE  Kept(a \o b, T) = Kept(a, T) \o Kept(b, T)
<1> DEFINE N == Len(b)
           p(n) == SubSeq(b, 1, n)
           S == {n \in 0 .. N : Kept(a \o p(n), T) = Kept(a, T) \o Kept(p(n), T)}
<1>1. N \in Nat /\ Kept(a, T) \in Seq(X)
  BY KeptHasPlaces
<1>2. 0 \in S
  <2>1. p(0) = <<>> /\ a \o <<>> = a /\ Kept(a, T) \o <<>> = Kept(a, T)
    BY <1>1, FrontOfNone, ConcatEmpty
  <2>2. Kept(<<>>, T) = <<>>
    BY KeptEmpty
  <2>3. Kept(a \o p(0), T) = Kept(a, T) \o Kept(p(0), T)
    BY <2>1, <2>2
  <2> QED
    BY <1>1, <2>3
<1>3. ASSUME NEW n \in 0 .. N - 1, n \in S PROVE n + 1 \in S
  <2> DEFINE x == b[n + 1]
  <2>1. p(n) \in Seq(X) /\ x \in X /\ p(n + 1) = Append(p(n), x)
    BY FrontAppend
  <2>2. Kept(a \o p(n), T) = Kept(a, T) \o Kept(p(n), T)
    BY <1>3
  <2> HIDE DEF p, x
  <2>3. a \o p(n + 1) = Append(a \o p(n), x)
    <3>1. a \o Append(p(n), x) = Append(a \o p(n), x)
      BY <2>1, ConcatAppend
    <3> QED
      BY <2>1, <3>1
  <2>s. a \o p(n) \in Seq(X)
    BY <2>1, ConcatPlaces
  <2>4. Kept(p(n), T) \in Seq(X)
    BY <2>1, KeptHasPlaces
  <2>5. Kept(a \o p(n + 1), T) = IF x \in T THEN Append(Kept(a \o p(n), T), x) ELSE Kept(a \o p(n), T)
    BY <2>1, <2>3, <2>s, KeptAppend
  <2>6. Kept(p(n + 1), T) = IF x \in T THEN Append(Kept(p(n), T), x) ELSE Kept(p(n), T)
    BY <2>1, KeptAppend
  <2>7. Kept(a, T) \o Append(Kept(p(n), T), x) = Append(Kept(a, T) \o Kept(p(n), T), x)
    <3> DEFINE y == Kept(a, T)
               z == Kept(p(n), T)
    <3>1. y \in Seq(X) /\ z \in Seq(X) /\ x \in X
      BY <1>1, <2>1, <2>4
    <3> HIDE DEF y, z
    <3>2. y \o Append(z, x) = Append(y \o z, x)
      BY <3>1, ConcatAppend
    <3> QED
      BY <3>2 DEF y, z
  <2>8. Kept(a \o p(n + 1), T) = Kept(a, T) \o Kept(p(n + 1), T)
    BY <2>2, <2>5, <2>6, <2>7
  <2>9. n + 1 \in 0 .. N
    BY <1>1
  <2> QED
    BY <2>8, <2>9
<1>4. 0 .. N \subseteq S
  <2> HIDE DEF S, N
  <2> QED
    BY <1>1, <1>2, <1>3, InductionUpTo
<1>5. N \in S
  BY <1>1, <1>4
<1>6. p(N) = b
  BY FrontOfNone
<1> QED
  BY <1>5, <1>6

(* The first of one sequence moves to the end of another. *)
LEMMA MoveHead ==
  ASSUME NEW X, NEW a \in Seq(X), NEW b \in Seq(X), b # <<>>
  PROVE  Append(a, Head(b)) \o Tail(b) = a \o b
<1>1. /\ b[1] \in X /\ Head(b) = b[1]
      /\ Tail(b) \in Seq(X) /\ Len(Tail(b)) = Len(b) - 1
      /\ \A i \in 1 .. Len(b) - 1 : Tail(b)[i] = b[i + 1]
  BY PopElements
<1> DEFINE h == b[1]
           t == Tail(b)
           n == Len(a)
           k == Len(b)
           p == Append(a, h)
<1>2. /\ h \in X /\ t \in Seq(X) /\ Len(t) = k - 1 /\ \A i \in 1 .. k - 1 : t[i] = b[i + 1]
      /\ n \in Nat /\ k \in Nat \ {0}
  BY <1>1
<1> HIDE DEF h, t
<1>3. /\ p \in Seq(X) /\ Len(p) = n + 1 /\ \A i \in 1 .. n : p[i] = a[i]
      /\ p[n + 1] = h
  BY <1>2, AppendPlaces
<1> HIDE DEF n, k, p
<1>4. /\ p \o t \in Seq(X) /\ Len(p \o t) = Len(p) + Len(t)
      /\ \A i \in 1 .. Len(p) : (p \o t)[i] = p[i]
      /\ \A i \in 1 .. Len(t) : (p \o t)[Len(p) + i] = t[i]
  <2>1. p \in Seq(X) /\ t \in Seq(X)
    BY <1>2, <1>3
  <2>2. p \o t \in Seq(X) /\ Len(p \o t) = Len(p) + Len(t)
    BY <2>1, ConcatPlaces
  <2>3. \A i \in 1 .. Len(p) : (p \o t)[i] = p[i]
    BY <2>1, ConcatPlaces
  <2>4. \A i \in 1 .. Len(t) : (p \o t)[Len(p) + i] = t[i]
    BY <2>1, ConcatPlaces
  <2> QED
    BY <2>2, <2>3, <2>4
<1>5. /\ a \o b \in Seq(X) /\ Len(a \o b) = n + k
      /\ \A i \in 1 .. n : (a \o b)[i] = a[i]
      /\ \A i \in 1 .. k : (a \o b)[n + i] = b[i]
  BY ConcatPlaces DEF n, k
<1> DEFINE q == p \o t
           r == a \o b
<1>6. /\ q \in Seq(X) /\ r \in Seq(X) /\ Len(q) = n + k /\ Len(r) = n + k
  BY <1>2, <1>3, <1>4, <1>5
<1>7. ASSUME NEW i \in 1 .. n + k PROVE q[i] = r[i]
  <2>1. CASE i \in 1 .. n
    BY <1>2, <1>3, <1>4, <1>5, <2>1
  <2>2. CASE i = n + 1
    <3>1. q[i] = h /\ i \in Nat
      BY <1>2, <1>3, <1>4, <2>2
    <3>2. 1 \in 1 .. k
      BY <1>2
    <3>3. r[n + 1] = b[1]
      BY <1>5, <3>2
    <3> QED
      BY <2>2, <3>1, <3>3 DEF h
  <2>3. CASE i \in n + 2 .. n + k
    <3> DEFINE d == i - (n + 1)
    <3>1. d \in 1 .. k - 1 /\ i = Len(p) + d /\ i = n + (d + 1) /\ d + 1 \in 1 .. k
      BY <1>2, <1>3, <2>3
    <3> HIDE DEF d
    <3>2. q[Len(p) + d] = t[d]
      BY <1>2, <1>4, <3>1
    <3>3. r[n + (d + 1)] = b[d + 1]
      BY <1>5, <3>1
    <3>4. t[d] = b[d + 1]
      BY <1>2, <3>1
    <3> QED
      BY <3>1, <3>2, <3>3, <3>4
  <2>4. i \in 1 .. n \/ i = n + 1 \/ i \in n + 2 .. n + k
    BY <1>2
  <2> QED
    BY <2>1, <2>2, <2>3, <2>4
<1> HIDE DEF q, r
<1>8. q = r
  BY <1>6, <1>7
<1> QED
  BY <1>1, <1>8 DEF q, r, p, h, t
=============================================================================
