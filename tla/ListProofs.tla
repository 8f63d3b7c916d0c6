------------------------------ MODULE ListProofs ------------------------------
(***************************************************************************)
(* Induction over numbers and lists, for sets of them, and what follows of *)
(* filtered lists.  The induction theorems of the library have an operator *)
(* as parameter; these have a set.                                         *)
(***************************************************************************)
EXTENDS Lists, WellFoundedInduction, TLAPS

-----------------------------------------------------------------------------
(***************************************************************************)
(* Numbers.                                                                *)
(***************************************************************************)
\* A set of natural numbers has a least element.
LEMMA LeastNat ==
    ASSUME NEW S, S \subseteq Nat, S # {}
    PROVE  \E x \in S : \A y \in S : x <= y
<1> DEFINE R == OpToRel(<, Nat)
<1>1. IsWellFoundedOn(R, Nat)
  BY NatLessThanWellFounded, Zenon
<1>2. \A x, y \in Nat : y < x => <<y, x>> \in R
  BY DEF OpToRel
<1> HIDE DEF R
<1>3. PICK x \in S : \A y \in S : ~(<<y, x>> \in R)
  BY <1>1, WFMin
<1>4. ASSUME NEW y \in S PROVE x <= y
  <2>1. x \in Nat /\ y \in Nat
    OBVIOUS
  <2>2. ~(y < x)
    BY <1>2, <1>3, <2>1
  <2> QED
    BY <2>1, <2>2
<1> QED
  BY <1>4

\* A set of places of a list has a last one.
LEMMA GreatestExists ==
    ASSUME NEW n \in Nat, NEW S, S \subseteq 1..n, S # {}
    PROVE  \E i \in S : \A j \in S : j <= i
<1> DEFINE T == {k \in Nat : n - k \in S}
<1>1. PICK x \in S : TRUE
  OBVIOUS
<1>2. n - x \in T
  BY <1>1
<1>3. T \subseteq Nat /\ T # {}
  BY <1>2
<1> HIDE DEF T
<1>4. PICK m \in T : \A y \in T : m <= y
  BY <1>3, LeastNat
<1>5. m \in Nat /\ n - m \in S
  BY <1>4 DEF T
<1>6. ASSUME NEW j \in S PROVE j <= n - m
  <2>1. j \in 1..n /\ n - j \in T
    BY <1>6 DEF T
  <2>2. m <= n - j
    BY <1>4, <2>1
  <2> QED
    BY <1>5, <2>1, <2>2
<1> QED
  BY <1>5, <1>6

\* Induction, for a set of numbers instead of a predicate.
LEMMA SetInduction ==
    ASSUME NEW P, P \subseteq Nat, 0 \in P, \A n \in P : n + 1 \in P
    PROVE  P = Nat
<1> SUFFICES ASSUME P # Nat PROVE FALSE
  OBVIOUS
<1>1. Nat \ P # {}
  OBVIOUS
<1>2. PICK x \in Nat \ P : \A y \in Nat \ P : x <= y
  BY <1>1, LeastNat
<1>3. x # 0 /\ x \in Nat /\ x - 1 \in Nat
  BY <1>2
<1>4. x - 1 \in P
  BY <1>2, <1>3
<1>5. (x - 1) + 1 = x
  BY <1>3
<1> QED
  BY <1>2, <1>4, <1>5

\* g is what repeating step makes of f0.
Follows(g, f0, step) ==
    g[0] = f0 /\ \A n \in Nat : g[n + 1] = step[<<n, g[n]>>]

\* Such a function exists.
LEMMA Recursion ==
    ASSUME NEW F, NEW f0 \in F, NEW step \in [Nat \X F -> F]
    PROVE  \E g \in [Nat -> F] : Follows(g, f0, step)
<1> DEFINE Obeys(g, n) == /\ g \in [0..n -> F]
                          /\ g[0] = f0
                          /\ \A i \in 0..n : i # n => g[i + 1] = step[<<i, g[i]>>]
           P == {n \in Nat : \E g : Obeys(g, n)}
           Q == {i \in Nat : \A m, n \in Nat : \A g, h :
                    Obeys(g, m) /\ Obeys(h, n) /\ i <= m /\ i <= n => g[i] = h[i]}
<1>1. P = Nat
  <2>1. 0 \in P
    <3>1. Obeys([i \in 0..0 |-> f0], 0)
      OBVIOUS
    <3> QED
      BY <3>1
  <2>2. ASSUME NEW n \in P PROVE n + 1 \in P
    <3>1. PICK g : Obeys(g, n)
      OBVIOUS
    <3> DEFINE h == [i \in 0..(n + 1) |-> IF i = n + 1 THEN step[<<n, g[n]>>] ELSE g[i]]
    <3>2. n \in Nat /\ n \in 0..n /\ g[n] \in F
      BY <3>1
    <3>3. \A i \in 0..n : h[i] = g[i]
      BY <3>2
    <3>4. h \in [0..(n + 1) -> F]
      <4>1. ASSUME NEW i \in 0..(n + 1) PROVE (IF i = n + 1 THEN step[<<n, g[n]>>] ELSE g[i]) \in F
        <5>1. step[<<n, g[n]>>] \in F
          BY <3>2
        <5>2. i # n + 1 => i \in 0..n
          BY <3>2
        <5> QED
          BY <3>1, <5>1, <5>2
      <4> QED
        BY <4>1
    <3>5. h[0] = f0
      BY <3>1, <3>2, <3>3
    <3>6. ASSUME NEW i \in 0..(n + 1), i # n + 1 PROVE h[i + 1] = step[<<i, h[i]>>]
      <4>1. i \in 0..n /\ i + 1 \in 0..(n + 1)
        BY <3>2, <3>6
      <4>2. CASE i = n
        <5>1. h[i + 1] = step[<<n, g[n]>>]
          BY <4>1, <4>2
        <5> QED
          BY <3>3, <4>1, <4>2, <5>1
      <4>3. CASE i # n
        <5>1. i + 1 \in 0..n
          BY <3>2, <4>1, <4>3
        <5>2. h[i + 1] = g[i + 1] /\ h[i] = g[i]
          BY <3>3, <4>1, <5>1
        <5> QED
          BY <3>1, <4>1, <4>3, <5>2
      <4> QED
        BY <4>2, <4>3
    <3>7. Obeys(h, n + 1)
      BY <3>4, <3>5, <3>6
    <3>8. \E k : Obeys(k, n + 1)
      <4> HIDE DEF Obeys, h
      <4> QED
        BY <3>7
    <3>9. n + 1 \in Nat
      BY <3>2
    <3> HIDE DEF Obeys
    <3> QED
      BY <3>8, <3>9
  <2> HIDE DEF P
  <2>3. P \subseteq Nat
    BY DEF P
  <2> QED
    BY <2>1, <2>2, <2>3, SetInduction
<1>2. Q = Nat
  <2>1. 0 \in Q
    OBVIOUS
  <2>2. ASSUME NEW i \in Q PROVE i + 1 \in Q
    <3>1. ASSUME NEW m \in Nat, NEW n \in Nat, NEW g, NEW h,
                 Obeys(g, m), Obeys(h, n), i + 1 <= m, i + 1 <= n
          PROVE  g[i + 1] = h[i + 1]
      <4>1. i \in Nat /\ i <= m /\ i <= n /\ i \in 0..m /\ i \in 0..n /\ i # m /\ i # n
        BY <3>1
      <4>2. g[i] = h[i]
        <5> HIDE DEF Obeys
        <5> QED
          BY <3>1, <4>1
      <4> QED
        BY <3>1, <4>1, <4>2
    <3>2. i + 1 \in Nat
      OBVIOUS
    <3> QED
      BY <3>1, <3>2
  <2> HIDE DEF Q
  <2>3. Q \subseteq Nat
    BY DEF Q
  <2> QED
    BY <2>1, <2>2, <2>3, SetInduction
<1> DEFINE a == [n \in Nat |-> CHOOSE g : Obeys(g, n)]
           G == [n \in Nat |-> a[n][n]]
<1>3. ASSUME NEW n \in Nat PROVE Obeys(a[n], n)
  <2>1. \E g : Obeys(g, n)
    BY <1>1
  <2> HIDE DEF Obeys
  <2> QED
    BY <2>1
<1>4. ASSUME NEW n \in Nat PROVE G[n] \in F
  <2>1. n \in 0..n
    OBVIOUS
  <2> QED
    BY <1>3, <2>1
<1>5. G \in [Nat -> F]
  BY <1>4
<1>6. G[0] = f0
  BY <1>3
<1>7. ASSUME NEW n \in Nat PROVE G[n + 1] = step[<<n, G[n]>>]
  <2>1. n + 1 \in Nat /\ n <= n /\ n <= n + 1 /\ n \in 0..(n + 1) /\ n # n + 1
    OBVIOUS
  <2>2. Obeys(a[n], n) /\ Obeys(a[n + 1], n + 1)
    BY <1>3, <2>1
  <2>3. a[n + 1][n] = a[n][n]
    <3>1. n \in Q
      BY <1>2
    <3> HIDE DEF Obeys, a
    <3> QED
      BY <2>1, <2>2, <3>1
  <2>4. a[n + 1][n + 1] = step[<<n, a[n + 1][n]>>]
    BY <2>1, <2>2
  <2>5. G[n + 1] = a[n + 1][n + 1] /\ G[n] = a[n][n]
    BY <2>1
  <2> HIDE DEF a, G
  <2> QED
    BY <2>3, <2>4, <2>5
<1> HIDE DEF G
<1>8. Follows(G, f0, step)
  BY <1>6, <1>7, Zenon DEF Follows
<1> QED
  BY <1>5, <1>8, Zenon

-----------------------------------------------------------------------------
(***************************************************************************)
(* Lists.                                                                  *)
(***************************************************************************)
\* A list without its last element.
Shorter(s) == [i \in 1..(Len(s) - 1) |-> s[i]]

\* A list that is not empty is what appending makes of a shorter one.
LEMMA ListOfShorter ==
    ASSUME NEW X, NEW s \in Seq(X), Len(s) # 0
    PROVE  /\ Shorter(s) \in Seq(X) /\ Len(Shorter(s)) = Len(s) - 1
           /\ s[Len(s)] \in X
           /\ s = Append(Shorter(s), s[Len(s)])
<1> DEFINE n == Len(s) - 1
           t == [i \in 1..n |-> s[i]]
<1>0. n \in Nat /\ Len(s) = n + 1
  OBVIOUS
<1>1. t \in Seq(X) /\ Len(t) = n
  <2>1. t \in [1..n -> X]
    BY <1>0
  <2> HIDE DEF t, n
  <2> QED
    BY <1>0, <2>1
<1>2. s[n + 1] \in X
  BY <1>0
<1>3. s = Append(t, s[n + 1])
  <2>1. Append(t, s[n + 1]) \in Seq(X) /\ Len(Append(t, s[n + 1])) = n + 1
    BY <1>0, <1>1, <1>2
  <2>2. ASSUME NEW i \in 1..(n + 1) PROVE Append(t, s[n + 1])[i] = s[i]
    <3>1. CASE i = n + 1
      BY <1>0, <1>1, <3>1
    <3>2. CASE i \in 1..n
      BY <1>0, <1>1, <3>2
    <3>3. i = n + 1 \/ i \in 1..n
      <4> HIDE DEF n
      <4> QED
        BY <1>0
    <3> QED
      BY <3>1, <3>2, <3>3
  <2> HIDE DEF t, n
  <2> QED
    BY <1>0, <2>1, <2>2
<1> QED
  BY <1>0, <1>1, <1>2, <1>3 DEF Shorter

\* Induction, for a set of lists.
LEMMA ListInduction ==
    ASSUME NEW X, NEW Q, Q \subseteq Seq(X), <<>> \in Q,
           \A t \in Q : \A x \in X : Append(t, x) \in Q
    PROVE  Q = Seq(X)
<1> DEFINE P == {n \in Nat : \A s \in Seq(X) : Len(s) = n => s \in Q}
<1>1. 0 \in P
  <2> SUFFICES ASSUME NEW s \in Seq(X), Len(s) = 0 PROVE s \in Q
    OBVIOUS
  <2>1. s = <<>>
    OBVIOUS
  <2> QED
    BY <2>1
<1>2. ASSUME NEW n \in P PROVE n + 1 \in P
  <2> SUFFICES ASSUME NEW s \in Seq(X), Len(s) = n + 1 PROVE s \in Q
    OBVIOUS
  <2>1. n \in Nat /\ Len(s) # 0 /\ Len(s) - 1 = n
    OBVIOUS
  <2> HIDE DEF P
  <2>2. /\ Shorter(s) \in Seq(X) /\ Len(Shorter(s)) = n
        /\ s[Len(s)] \in X /\ s = Append(Shorter(s), s[Len(s)])
    BY <2>1, ListOfShorter
  <2>3. Shorter(s) \in Q
    BY <2>2 DEF P
  <2> QED
    BY <2>2, <2>3
<1> HIDE DEF P
<1>3. P \subseteq Nat
  BY DEF P
<1>4. P = Nat
  BY <1>1, <1>2, <1>3, SetInduction
<1>5. ASSUME NEW s \in Seq(X) PROVE s \in Q
  <2>1. Len(s) \in P
    BY <1>4
  <2> QED
    BY <2>1 DEF P
<1> QED
  BY <1>5

\* h[i] is what is kept of the first i elements.
KeptUpTo(h, s, S) ==
    /\ DOMAIN h = 0..Len(s) /\ h[0] = <<>> /\ h[Len(s)] = Kept(s, S)
    /\ \A i \in 1..Len(s) : h[i] = IF s[i] \in S THEN Append(h[i - 1], s[i]) ELSE h[i - 1]

\* Kept(s, S) is what appending the elements one after the other makes.
LEMMA KeptStepwise ==
    ASSUME NEW X, NEW s \in Seq(X), NEW S
    PROVE  \E h \in [0..Len(s) -> Seq(X)] : KeptUpTo(h, s, S)
<1> DEFINE n == Len(s)
           Longer(t, i) == IF s[i] \in S THEN Append(t, s[i]) ELSE t
           Body(g, i) == IF i = 0 THEN <<>> ELSE Longer(g[i - 1], i)
           upTo == CHOOSE g : g = [i \in 0..n |-> Body(g, i)]
           F == Seq(X)
           step == [p \in Nat \X F |-> IF p[1] + 1 \in 1..n THEN Longer(p[2], p[1] + 1) ELSE p[2]]
<1>1. Kept(s, S) = upTo[n]
  BY DEF Kept
<1>2. step \in [Nat \X F -> F]
  <2>1. ASSUME NEW p \in Nat \X F
        PROVE  (IF p[1] + 1 \in 1..n THEN Longer(p[2], p[1] + 1) ELSE p[2]) \in F
    OBVIOUS
  <2> HIDE DEF F, Longer
  <2> QED
    BY <2>1
<1>3. <<>> \in F
  OBVIOUS
<1>4. PICK g \in [Nat -> F] : Follows(g, <<>>, step)
  <2> HIDE DEF F, step
  <2> QED
    BY <1>2, <1>3, Recursion
<1>5. ASSUME NEW i \in 1..n PROVE g[i] = Longer(g[i - 1], i)
  <2>1. i - 1 \in Nat /\ (i - 1) + 1 = i /\ i \in Nat
    OBVIOUS
  <2>2. g[i] = step[<<i - 1, g[i - 1]>>] /\ g[i - 1] \in F
    <3> HIDE DEF F, step
    <3>1. g[(i - 1) + 1] = step[<<i - 1, g[i - 1]>>]
      BY <1>4, <2>1, Zenon DEF Follows
    <3>2. g[i - 1] \in F
      BY <1>4, <2>1, Zenon
    <3> QED
      BY <2>1, <3>1, <3>2, Zenon
  <2> HIDE DEF F, Longer
  <2> QED
    BY <2>1, <2>2
<1> DEFINE G == [i \in 0..n |-> g[i]]
<1>6. ASSUME NEW i \in 0..n PROVE G[i] = Body(G, i)
  <2>1. CASE i = 0
    BY <1>4, <2>1 DEF Follows
  <2>2. CASE i # 0
    <3>1. i \in 1..n /\ i - 1 \in 0..n
      BY <2>2
    <3> HIDE DEF Longer
    <3> QED
      BY <1>5, <2>2, <3>1
  <2> QED
    BY <2>1, <2>2
<1>7. G = [i \in 0..n |-> Body(G, i)]
  <2> HIDE DEF Body
  <2> QED
    BY <1>6
<1>8. G[0] = <<>> /\ G \in [0..n -> Seq(X)]
  BY <1>4 DEF Follows
<1>9. upTo = [i \in 0..n |-> Body(upTo, i)]
  <2> HIDE DEF Body, G
  <2> QED
    BY <1>7
<1>10. \A i \in 1..n : upTo[i] = Longer(upTo[i - 1], i)
  <2> SUFFICES ASSUME NEW i \in 1..n PROVE upTo[i] = Longer(upTo[i - 1], i)
    OBVIOUS
  <2>1. i \in 0..n /\ i # 0
    OBVIOUS
  <2>2. upTo[i] = Body(upTo, i)
    <3> HIDE DEF Body, upTo
    <3> QED
      BY <1>9, <2>1
  <2> HIDE DEF upTo, Longer
  <2> QED
    BY <2>1, <2>2
<1>11. upTo[0] = <<>>
  <2>1. 0 \in 0..n
    OBVIOUS
  <2> HIDE DEF upTo
  <2> QED
    BY <1>9, <2>1
<1> DEFINE P == {k \in Nat : k \in 0..n => upTo[k] \in Seq(X)}
<1>12. P = Nat
  <2> HIDE DEF upTo
  <2>1. 0 \in P
    <3>1. upTo[0] \in Seq(X)
      BY <1>3, <1>11
    <3> QED
      BY <3>1
  <2>2. ASSUME NEW k \in P PROVE k + 1 \in P
    <3> SUFFICES ASSUME k + 1 \in 0..n PROVE upTo[k + 1] \in Seq(X)
      OBVIOUS
    <3>1. k \in 0..n /\ k + 1 \in 1..n /\ (k + 1) - 1 = k
      OBVIOUS
    <3>2. upTo[k + 1] = Longer(upTo[k], k + 1) /\ upTo[k] \in Seq(X) /\ s[k + 1] \in X
      <4> HIDE DEF Longer
      <4> QED
        BY <1>10, <3>1
    <3> QED
      BY <3>2
  <2> HIDE DEF P
  <2>3. P \subseteq Nat
    BY DEF P
  <2> QED
    BY <2>1, <2>2, <2>3, SetInduction
<1>13. ASSUME NEW k \in 0..n PROVE upTo[k] \in Seq(X)
  <2> HIDE DEF upTo
  <2>1. k \in Nat
    OBVIOUS
  <2>2. k \in P
    <3> HIDE DEF P
    <3> QED
      BY <1>12, <2>1
  <2> QED
    BY <2>2
<1>14. upTo \in [0..n -> Seq(X)]
  <2> HIDE DEF upTo, Body
  <2> QED
    BY <1>9, <1>13
<1> HIDE DEF upTo
<1>15. KeptUpTo(upTo, s, S)
  BY <1>1, <1>10, <1>11, <1>14 DEF KeptUpTo
<1> QED
  BY <1>14, <1>15

\* Filtering what was appended to a list.
LEMMA KeptAppend ==
    ASSUME NEW X, NEW S, NEW s \in Seq(X), NEW x \in X
    PROVE  /\ Kept(s, S) \in Seq(X)
           /\ Kept(Append(s, x), S) = IF x \in S THEN Append(Kept(s, S), x) ELSE Kept(s, S)
<1> DEFINE n == Len(s)
           t == Append(s, x)
<1>1. t \in Seq(X) /\ Len(t) = n + 1 /\ t[n + 1] = x /\ (\A i \in 1..n : t[i] = s[i]) /\ n \in Nat
  OBVIOUS
<1> HIDE DEF t, n
<1>2. PICK h \in [0..Len(s) -> Seq(X)] : KeptUpTo(h, s, S)
  BY KeptStepwise
<1>3. PICK g \in [0..Len(t) -> Seq(X)] : KeptUpTo(g, t, S)
  BY <1>1, KeptStepwise
<1>8. /\ h \in [0..n -> Seq(X)]
      /\ h[0] = <<>> /\ h[n] = Kept(s, S)
      /\ \A i \in 1..n : h[i] = IF s[i] \in S THEN Append(h[i - 1], s[i]) ELSE h[i - 1]
  BY <1>2 DEF KeptUpTo, n
<1>9. /\ g[0] = <<>> /\ g[n + 1] = Kept(t, S)
      /\ \A i \in 1..(n + 1) : g[i] = IF t[i] \in S THEN Append(g[i - 1], t[i]) ELSE g[i - 1]
  BY <1>1, <1>3 DEF KeptUpTo
<1> DEFINE P == {k \in Nat : k \in 0..n => g[k] = h[k]}
<1>4. P = Nat
  <2>1. 0 \in P
    BY <1>8, <1>9
  <2>2. ASSUME NEW k \in P PROVE k + 1 \in P
    <3> SUFFICES ASSUME k + 1 \in 0..n PROVE g[k + 1] = h[k + 1]
      OBVIOUS
    <3>1. k \in Nat /\ k \in 0..n /\ k + 1 \in 1..n /\ k + 1 \in 1..(n + 1) /\ (k + 1) - 1 = k
      BY <1>1
    <3>2. g[k] = h[k] /\ t[k + 1] = s[k + 1]
      BY <1>1, <3>1
    <3>3. g[k + 1] = IF t[k + 1] \in S THEN Append(g[k], t[k + 1]) ELSE g[k]
      BY <1>9, <3>1, Zenon
    <3>4. h[k + 1] = IF s[k + 1] \in S THEN Append(h[k], s[k + 1]) ELSE h[k]
      BY <1>8, <3>1, Zenon
    <3> QED
      BY <3>2, <3>3, <3>4
  <2> HIDE DEF P
  <2>3. P \subseteq Nat
    BY DEF P
  <2> QED
    BY <2>1, <2>2, <2>3, SetInduction
<1>5. g[n] = h[n]
  <2>1. n \in P
    <3> HIDE DEF P
    <3> QED
      BY <1>1, <1>4
  <2> QED
    BY <1>1, <2>1
<1>6. g[n + 1] = IF x \in S THEN Append(g[n], x) ELSE g[n]
  <2>1. n + 1 \in 1..(n + 1) /\ (n + 1) - 1 = n
    BY <1>1
  <2> QED
    BY <1>1, <1>9, <2>1
<1>7. h[n] \in Seq(X)
  BY <1>1, <1>8
<1> QED
  BY <1>5, <1>6, <1>7, <1>8, <1>9 DEF t

\* Filtering an empty list.
LEMMA KeptEmpty ==
    ASSUME NEW S
    PROVE  Kept(<<>>, S) = <<>>
<1>1. <<>> \in Seq({}) /\ Len(<<>>) = 0
  OBVIOUS
<1>2. PICK h \in [0..Len(<<>>) -> Seq({})] : KeptUpTo(h, <<>>, S)
  BY <1>1, KeptStepwise
<1> QED
  BY <1>1, <1>2 DEF KeptUpTo

\* Only the empty list has no elements.
LEMMA NoElements ==
    ASSUME NEW X, NEW s \in Seq(X)
    PROVE  SetOf(s) = {} <=> s = <<>>
<1>1. CASE Len(s) = 0
  <2>1. s = <<>>
    BY <1>1
  <2> QED
    BY <2>1 DEF SetOf
<1>2. CASE Len(s) # 0
  <2>1. 1 \in DOMAIN s /\ s # <<>>
    BY <1>2
  <2> QED
    BY <2>1 DEF SetOf
<1> QED
  BY <1>1, <1>2

\* What appending adds to the elements.
LEMMA SetOfAppend ==
    ASSUME NEW X, NEW s \in Seq(X), NEW x \in X
    PROVE  SetOf(Append(s, x)) = SetOf(s) \cup {x}
<1>1. /\ DOMAIN Append(s, x) = 1..(Len(s) + 1) /\ DOMAIN s = 1..Len(s) /\ Len(s) \in Nat
      /\ Append(s, x)[Len(s) + 1] = x /\ \A i \in 1..Len(s) : Append(s, x)[i] = s[i]
  OBVIOUS
<1>2. 1..(Len(s) + 1) = (1..Len(s)) \cup {Len(s) + 1}
  BY <1>1
<1> QED
  BY <1>1, <1>2 DEF SetOf

\* What is kept is what is in S.
LEMMA KeptElements ==
    ASSUME NEW X, NEW S, NEW s \in Seq(X)
    PROVE  Kept(s, S) \in Seq(X) /\ SetOf(Kept(s, S)) = SetOf(s) \cap S
<1> DEFINE Q == {t \in Seq(X) : Kept(t, S) \in Seq(X) /\ SetOf(Kept(t, S)) = SetOf(t) \cap S}
<1>1. <<>> \in Q
  <2>1. SetOf(<<>>) = {} /\ <<>> \in Seq(X)
    BY DEF SetOf
  <2>2. Kept(<<>>, S) = <<>>
    BY KeptEmpty
  <2> QED
    BY <2>1, <2>2
<1>2. ASSUME NEW t \in Q, NEW x \in X PROVE Append(t, x) \in Q
  <2>1. /\ Kept(Append(t, x), S) = IF x \in S THEN Append(Kept(t, S), x) ELSE Kept(t, S)
        /\ Kept(t, S) \in Seq(X) /\ Append(t, x) \in Seq(X)
    BY KeptAppend
  <2>2. SetOf(Append(t, x)) = SetOf(t) \cup {x}
    BY SetOfAppend
  <2>3. SetOf(Append(Kept(t, S), x)) = SetOf(Kept(t, S)) \cup {x} /\ Append(Kept(t, S), x) \in Seq(X)
    BY <2>1, SetOfAppend
  <2>4. SetOf(Kept(t, S)) = SetOf(t) \cap S
    OBVIOUS
  <2> QED
    BY <2>1, <2>2, <2>3, <2>4
<1>3. Q = Seq(X)
  <2> HIDE DEF Q
  <2>1. Q \subseteq Seq(X)
    BY DEF Q
  <2> QED
    BY <1>1, <1>2, <2>1, ListInduction
<1>4. s \in Q
  <2> HIDE DEF Q
  <2> QED
    BY <1>3
<1> QED
  BY <1>4

\* Filtering one list after another.
LEMMA KeptConcat ==
    ASSUME NEW X, NEW S, NEW s \in Seq(X), NEW t \in Seq(X)
    PROVE  Kept(s \o t, S) = Kept(s, S) \o Kept(t, S)
<1> DEFINE Q == {u \in Seq(X) : Kept(s \o u, S) = Kept(s, S) \o Kept(u, S)}
<1>0. Kept(s, S) \in Seq(X)
  BY KeptElements
<1>1. <<>> \in Q
  <2>1. s \o <<>> = s /\ Kept(s, S) \o <<>> = Kept(s, S) /\ <<>> \in Seq(X)
    BY <1>0
  <2>2. Kept(<<>>, S) = <<>>
    BY KeptEmpty
  <2> QED
    BY <2>1, <2>2
<1>2. ASSUME NEW u \in Q, NEW x \in X PROVE Append(u, x) \in Q
  <2>1. s \o Append(u, x) = Append(s \o u, x) /\ s \o u \in Seq(X) /\ Append(u, x) \in Seq(X)
    OBVIOUS
  <2>2. /\ Kept(Append(u, x), S) = IF x \in S THEN Append(Kept(u, S), x) ELSE Kept(u, S)
        /\ Kept(u, S) \in Seq(X)
    BY KeptAppend
  <2>3. Kept(Append(s \o u, x), S) = IF x \in S THEN Append(Kept(s \o u, S), x) ELSE Kept(s \o u, S)
    <3> DEFINE v == s \o u
    <3>1. v \in Seq(X)
      BY <2>1
    <3> HIDE DEF Q, v
    <3>2. Kept(Append(v, x), S) = IF x \in S THEN Append(Kept(v, S), x) ELSE Kept(v, S)
      BY <3>1, KeptAppend
    <3> QED
      BY <3>2 DEF v
  <2>4. Kept(s, S) \o Append(Kept(u, S), x) = Append(Kept(s, S) \o Kept(u, S), x)
    BY <1>0, <2>2
  <2>5. Kept(s \o u, S) = Kept(s, S) \o Kept(u, S)
    OBVIOUS
  <2> QED
    BY <2>1, <2>2, <2>3, <2>4, <2>5
<1>3. Q = Seq(X)
  <2> HIDE DEF Q
  <2>1. Q \subseteq Seq(X)
    BY DEF Q
  <2> QED
    BY <1>1, <1>2, <2>1, ListInduction
<1>4. t \in Q
  <2> HIDE DEF Q
  <2> QED
    BY <1>3
<1> QED
  BY <1>4

\* The elements of one list after another.
LEMMA SetOfConcat ==
    ASSUME NEW X, NEW s \in Seq(X), NEW t \in Seq(X)
    PROVE  SetOf(s \o t) = SetOf(s) \cup SetOf(t)
<1>1. /\ DOMAIN s = 1..Len(s) /\ DOMAIN t = 1..Len(t) /\ Len(s) \in Nat /\ Len(t) \in Nat
      /\ DOMAIN (s \o t) = 1..(Len(s) + Len(t))
      /\ \A i \in 1..Len(s) : (s \o t)[i] = s[i]
      /\ \A i \in 1..Len(t) : (s \o t)[Len(s) + i] = t[i]
  OBVIOUS
<1>2. ASSUME NEW i \in 1..(Len(s) + Len(t)), i \notin 1..Len(s)
      PROVE  i - Len(s) \in 1..Len(t) /\ i = Len(s) + (i - Len(s))
  BY <1>1, <1>2
<1>3. ASSUME NEW x \in SetOf(s \o t) PROVE x \in SetOf(s) \cup SetOf(t)
  <2>1. PICK i \in 1..(Len(s) + Len(t)) : x = (s \o t)[i]
    BY <1>1 DEF SetOf
  <2>2. CASE i \in 1..Len(s)
    BY <1>1, <2>1, <2>2 DEF SetOf
  <2>3. CASE i \notin 1..Len(s)
    BY <1>1, <1>2, <2>1, <2>3 DEF SetOf
  <2> QED
    BY <2>2, <2>3
<1>4. ASSUME NEW x \in SetOf(s) PROVE x \in SetOf(s \o t)
  <2>1. PICK i \in 1..Len(s) : x = s[i]
    BY <1>1 DEF SetOf
  <2> QED
    BY <1>1, <2>1 DEF SetOf
<1>5. ASSUME NEW x \in SetOf(t) PROVE x \in SetOf(s \o t)
  <2>1. PICK i \in 1..Len(t) : x = t[i]
    BY <1>1 DEF SetOf
  <2>2. Len(s) + i \in 1..(Len(s) + Len(t))
    BY <1>1
  <2> QED
    BY <1>1, <2>1, <2>2 DEF SetOf
<1> QED
  BY <1>3, <1>4, <1>5

\* Everything is kept of a list that is in S.
LEMMA KeptWhole ==
    ASSUME NEW X, NEW S, NEW s \in Seq(X), SetOf(s) \subseteq S
    PROVE  Kept(s, S) = s
<1> DEFINE Q == {t \in Seq(X) : SetOf(t) \subseteq S => Kept(t, S) = t}
<1>1. <<>> \in Q
  <2>1. Kept(<<>>, S) = <<>> /\ <<>> \in Seq(X)
    BY KeptEmpty
  <2> QED
    BY <2>1
<1>2. ASSUME NEW t \in Q, NEW x \in X PROVE Append(t, x) \in Q
  <2>1. /\ Kept(Append(t, x), S) = IF x \in S THEN Append(Kept(t, S), x) ELSE Kept(t, S)
        /\ Append(t, x) \in Seq(X)
    BY KeptAppend
  <2>2. SetOf(Append(t, x)) = SetOf(t) \cup {x}
    BY SetOfAppend
  <2>3. SetOf(t) \subseteq S => Kept(t, S) = t
    OBVIOUS
  <2>4. SetOf(Append(t, x)) \subseteq S => Kept(Append(t, x), S) = Append(t, x)
    BY <2>1, <2>2, <2>3
  <2> QED
    BY <2>1, <2>4
<1>3. Q = Seq(X)
  <2> HIDE DEF Q
  <2>1. Q \subseteq Seq(X)
    BY DEF Q
  <2> QED
    BY <1>1, <1>2, <2>1, ListInduction
<1>4. s \in Q
  <2> HIDE DEF Q
  <2> QED
    BY <1>3
<1> QED
  BY <1>4

\* Nothing is kept of a list outside of S.
LEMMA KeptNothing ==
    ASSUME NEW X, NEW S, NEW s \in Seq(X), SetOf(s) \cap S = {}
    PROVE  Kept(s, S) = <<>>
<1> DEFINE Q == {t \in Seq(X) : SetOf(t) \cap S = {} => Kept(t, S) = <<>>}
<1>1. <<>> \in Q
  <2>1. Kept(<<>>, S) = <<>> /\ <<>> \in Seq(X)
    BY KeptEmpty
  <2> QED
    BY <2>1
<1>2. ASSUME NEW t \in Q, NEW x \in X PROVE Append(t, x) \in Q
  <2>1. /\ Kept(Append(t, x), S) = IF x \in S THEN Append(Kept(t, S), x) ELSE Kept(t, S)
        /\ Append(t, x) \in Seq(X)
    BY KeptAppend
  <2>2. SetOf(Append(t, x)) = SetOf(t) \cup {x}
    BY SetOfAppend
  <2>3. SetOf(t) \cap S = {} => Kept(t, S) = <<>>
    OBVIOUS
  <2>4. SetOf(Append(t, x)) \cap S = {} => Kept(Append(t, x), S) = <<>>
    BY <2>1, <2>2, <2>3
  <2> QED
    BY <2>1, <2>4
<1>3. Q = Seq(X)
  <2> HIDE DEF Q
  <2>1. Q \subseteq Seq(X)
    BY DEF Q
  <2> QED
    BY <1>1, <1>2, <2>1, ListInduction
<1>4. s \in Q
  <2> HIDE DEF Q
  <2> QED
    BY <1>3
<1> QED
  BY <1>4
=============================================================================
