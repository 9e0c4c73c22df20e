-------------------------- MODULE SceneAudioProofs --------------------------
(***************************************************************************)
(* Theorems about SceneAudio, for all scripts, providers and paddings.     *)
(***************************************************************************)
EXTENDS SceneAudio, FiniteSetTheorems, TLAPS

(* A set of numbers that is not empty has a least one.  The proofs below    *)
(* that go through a sequence from its beginning argue by the least place   *)
(* where they would fail.                                                   *)
LEMMA Least ==
  ASSUME NEW T \in SUBSET Nat, T # {}
  PROVE  \E x \in T : \A y \in T : x <= y
<1> DEFINE Downs == {0..x : x \in T}
<1>1. Downs # {}
  OBVIOUS
<1>2. Downs \subseteq FiniteSubsetsOf(Nat)
  <2>1. ASSUME NEW x \in T PROVE 0..x \in FiniteSubsetsOf(Nat)
    <3>1. IsFiniteSet(0..x)
      BY FS_Interval
    <3>2. 0..x \in SUBSET Nat
      OBVIOUS
    <3>3. QED
      BY <3>1, <3>2 DEF FiniteSubsetsOf
  <2>2. QED
    BY <2>1
<1>3. PICK D \in Downs : \A E \in Downs : ~ (<<E, D>> \in StrictSubsetOrdering(Nat))
  <2> HIDE DEF Downs
  <2> QED
    BY <1>1, <1>2, FS_StrictSubsetOrderingWellFounded, WFMin, Zenon
<1>4. PICK x \in T : D = 0..x
  OBVIOUS
<1>5. ASSUME NEW y \in T, y < x PROVE FALSE
  <2>1. 0..y \in Downs
    OBVIOUS
  <2>2. 0..y \subseteq 0..x /\ 0..y # 0..x
    BY <1>5
  <2>3. <<0..y, 0..x>> \in StrictSubsetOrdering(Nat)
    BY <2>2 DEF StrictSubsetOrdering
  <2>4. QED
    BY <1>3, <1>4, <2>1, <2>3
<1>6. QED
  BY <1>5

(* What holds of 0 and of a number after each it holds of, up to n, holds   *)
(* of all up to n.                                                          *)
LEMMA UpTo ==
  ASSUME NEW n \in Nat, NEW S, 0 \in S, \A i \in 1..n : i - 1 \in S => i \in S
  PROVE  \A i \in 0..n : i \in S
<1> SUFFICES ASSUME NEW z \in 0..n, z \notin S PROVE FALSE
  OBVIOUS
<1> DEFINE T == {x \in 0..n : x \notin S}
<1>1. PICK x \in T : \A y \in T : x <= y
  <2>1. T \in SUBSET Nat /\ T # {}
    OBVIOUS
  <2> HIDE DEF T
  <2>2. QED
    BY <2>1, Least
<1>2. x \in 1..n /\ x - 1 \in 0..n /\ x - 1 \notin T
  BY <1>1
<1>3. QED
  BY <1>1, <1>2

(* Concatenation, place by place.                                           *)
LEMMA Places ==
  ASSUME NEW X, NEW a \in Seq(X), NEW b \in Seq(X)
  PROVE  /\ a \o b \in Seq(X) /\ Len(a \o b) = Len(a) + Len(b)
         /\ \A i \in 1..Len(a) : (a \o b)[i] = a[i]
         /\ \A i \in 1..Len(b) : (a \o b)[Len(a) + i] = b[i]
  OBVIOUS

LEMMA SameSeq ==
  ASSUME NEW X, NEW a \in Seq(X), NEW b \in Seq(X), Len(a) = Len(b),
         \A i \in 1..Len(b) : a[i] = b[i]
  PROVE  a = b
  OBVIOUS

(* A place counted on from the first u of z.                                *)
LEMMA Within ==
  ASSUME NEW u \in Nat, NEW w \in Nat, NEW k \in 1..w, NEW z \in Nat, u + w <= z
  PROVE  u + k \in 1..z
  OBVIOUS

-----------------------------------------------------------------------------
(* Running totals. *)

(* A function with the equations of a running total exists ...              *)
LEMMA TotalsExist ==
  ASSUME NEW s \in Seq(Nat)
  PROVE  \E g \in [0..Len(s) -> Nat] :
           g[0] = 0 /\ \A i \in 1..Len(s) : g[i] = g[i - 1] + s[i]
<1> DEFINE Good(n, g) == g[0] = 0 /\ \A i \in 1..n : g[i] = g[i - 1] + s[i]
           S == {n \in 0..Len(s) : \E g \in [0..n -> Nat] : Good(n, g)}
<1>1. Len(s) \in Nat
  OBVIOUS
<1>2. 0 \in S
  <2>1. [i \in 0..0 |-> 0] \in [0..0 -> Nat] /\ Good(0, [i \in 0..0 |-> 0])
    OBVIOUS
  <2>2. 0 \in 0..Len(s)
    BY <1>1
  <2> HIDE DEF Good
  <2>3. QED
    BY <2>1, <2>2
<1>3. ASSUME NEW n \in 1..Len(s), n - 1 \in S PROVE n \in S
  <2>1. PICK g \in [0..(n - 1) -> Nat] : Good(n - 1, g)
    BY <1>3
  <2> DEFINE h == [i \in 0..n |-> IF i = n THEN g[n - 1] + s[n] ELSE g[i]]
  <2>2. g[n - 1] \in Nat /\ s[n] \in Nat
    BY <1>1
  <2>3. h \in [0..n -> Nat]
    BY <1>1, <2>2
  <2>4. Good(n, h)
    BY <1>1, <2>1
  <2> HIDE DEF h, Good
  <2>5. QED
    BY <2>3, <2>4
<1>4. Len(s) \in S
  <2> HIDE DEF S
  <2> QED
    <3>1. \A i \in 1..Len(s) : i - 1 \in S => i \in S
      BY <1>3
    <3>2. \A i \in 0..Len(s) : i \in S
      BY <1>1, <1>2, <3>1, UpTo, Zenon
    <3>3. QED
      BY <1>1, <3>2
<1>5. QED
  BY <1>4

(* ... so that the running totals have them.                                *)
LEMMA TotalsDef ==
  ASSUME NEW s \in Seq(Nat)
  PROVE  /\ Totals(s) \in [0..Len(s) -> Nat]
         /\ Totals(s)[0] = 0
         /\ \A i \in 1..Len(s) : Totals(s)[i] = Totals(s)[i - 1] + s[i]
<1> DEFINE Step(f) == [n \in 0..Len(s) |-> IF n = 0 THEN 0 ELSE f[n - 1] + s[n]]
<1>1. PICK g \in [0..Len(s) -> Nat] :
        g[0] = 0 /\ \A i \in 1..Len(s) : g[i] = g[i - 1] + s[i]
  BY TotalsExist
<1>2. Len(s) \in Nat
  OBVIOUS
<1>3. g = Step(g)
  BY <1>1, <1>2
<1>4. Totals(s) = CHOOSE f : f = Step(f)
  BY DEF Totals
<1>5. Totals(s) = Step(Totals(s))
  <2> HIDE DEF Step
  <2> QED
    BY <1>3, <1>4
<1> DEFINE t == Totals(s)
<1>6. t = [n \in 0..Len(s) |-> IF n = 0 THEN 0 ELSE t[n - 1] + s[n]]
  BY <1>5
<1> HIDE DEF t
<1>7. t[0] = 0 /\ \A i \in 1..Len(s) : t[i] = t[i - 1] + s[i]
  <2>1. t[0] = 0
    BY <1>2, <1>6
  <2>2. ASSUME NEW i \in 1..Len(s) PROVE t[i] = t[i - 1] + s[i]
    <3>1. i \in 0..Len(s) /\ i # 0
      BY <1>2
    <3>2. QED
      BY <1>6, <3>1
  <2>3. QED
    BY <2>1, <2>2
<1>8. \A i \in 0..Len(s) : t[i] \in Nat
  <2> DEFINE S == {x \in 0..Len(s) : t[x] \in Nat}
  <2>1. 0 \in S /\ \A i \in 1..Len(s) : i - 1 \in S => i \in S
    <3>1. 0 \in S
      BY <1>2, <1>7
    <3>2. ASSUME NEW i \in 1..Len(s), t[i - 1] \in Nat PROVE i \in 0..Len(s) /\ t[i] \in Nat
      <4>1. s[i] \in Nat /\ t[i] = t[i - 1] + s[i]
        BY <1>7
      <4>2. QED
        BY <1>2, <3>2, <4>1
    <3>3. QED
      BY <3>1, <3>2
  <2>2. \A i \in 0..Len(s) : i \in S
    <3> HIDE DEF S
    <3> QED
      BY <1>2, <2>1, UpTo, Zenon
  <2>3. QED
    BY <2>2
<1>9. t \in [0..Len(s) -> Nat]
  BY <1>6, <1>8
<1>10. QED
  BY <1>7, <1>9 DEF t

LEMMA SumType == ASSUME NEW s \in Seq(Nat) PROVE Sum(s) \in Nat
<1>1. Len(s) \in 0..Len(s)
  OBVIOUS
<1>2. QED
  BY <1>1, TotalsDef DEF Sum

LEMMA TotalsUp ==
  ASSUME NEW s \in Seq(Nat), NEW i \in 0..Len(s), NEW j \in i..Len(s)
  PROVE  Totals(s)[i] <= Totals(s)[j]
<1> DEFINE n == Len(s)
           t == Totals(s)
           S == {x \in 0..n : x >= i => t[i] <= t[x]}
<1>1. /\ n \in Nat /\ t \in [0..n -> Nat] /\ i \in 0..n /\ j \in 0..n /\ j >= i
      /\ \A x \in 1..n : t[x] = t[x - 1] + s[x] /\ s[x] \in Nat
  BY TotalsDef
<1> HIDE DEF n, t
<1>2. 0 \in S
  BY <1>1
<1>3. ASSUME NEW x \in 1..n, x - 1 \in S PROVE x \in S
  <2>1. t[x] = t[x - 1] + s[x] /\ s[x] \in Nat
    BY <1>1
  <2>2. x - 1 \in 0..n /\ t[x - 1] \in Nat /\ t[i] \in Nat
    BY <1>1
  <2>3. x >= i => t[i] <= t[x]
    <3>1. CASE x = i
      BY <2>2, <3>1
    <3>2. CASE x > i
      <4>1. x - 1 >= i /\ x - 1 \in S
        BY <1>1, <1>3, <3>2
      <4>2. t[i] <= t[x - 1]
        BY <4>1
      <4>3. QED
        BY <2>1, <2>2, <4>2
    <3>3. x \in Nat /\ i \in Nat
      BY <1>1
    <3>4. QED
      BY <3>1, <3>2, <3>3
  <2>4. x \in 0..n
    BY <1>1
  <2>5. QED
    BY <2>3, <2>4
<1>4. \A x \in 0..n : x \in S
  <2> HIDE DEF S
  <2>1. \A x \in 1..n : x - 1 \in S => x \in S
    BY <1>3
  <2>2. QED
    BY <1>1, <1>2, <2>1, UpTo, Zenon
<1>5. j \in S
  BY <1>1, <1>4
<1>6. QED
  BY <1>1, <1>5 DEF t

LEMMA TotalsGrow ==
  ASSUME NEW s \in Seq(Nat), NEW i \in 0..Len(s)
  PROVE  Totals(s)[i] <= Sum(s)
<1>1. Len(s) \in i..Len(s)
  OBVIOUS
<1>2. QED
  BY <1>1, TotalsUp DEF Sum

(* Running totals go on through a second sequence.                          *)
LEMMA TotalsConcat ==
  ASSUME NEW a \in Seq(Nat), NEW b \in Seq(Nat)
  PROVE  /\ \A i \in 0..Len(a) : Totals(a \o b)[i] = Totals(a)[i]
         /\ \A i \in 0..Len(b) : Totals(a \o b)[Len(a) + i] = Sum(a) + Totals(b)[i]
         /\ Sum(a \o b) = Sum(a) + Sum(b)
<1> DEFINE c == a \o b
<1>1. /\ c \in Seq(Nat) /\ Len(c) = Len(a) + Len(b) /\ Len(a) \in Nat /\ Len(b) \in Nat
      /\ \A i \in 1..Len(a) : c[i] = a[i]
      /\ \A i \in 1..Len(b) : c[Len(a) + i] = b[i]
  OBVIOUS
<1> HIDE DEF c
<1>2. /\ Totals(c)[0] = 0 /\ \A i \in 1..Len(c) : Totals(c)[i] = Totals(c)[i - 1] + c[i]
      /\ Totals(a)[0] = 0 /\ \A i \in 1..Len(a) : Totals(a)[i] = Totals(a)[i - 1] + a[i]
      /\ Totals(b)[0] = 0 /\ \A i \in 1..Len(b) : Totals(b)[i] = Totals(b)[i - 1] + b[i]
      /\ \A i \in 0..Len(b) : Totals(b)[i] \in Nat
      /\ Sum(a) \in Nat
      /\ \A i \in 1..Len(b) : b[i] \in Nat
  <2>1. Totals(c)[0] = 0 /\ \A i \in 1..Len(c) : Totals(c)[i] = Totals(c)[i - 1] + c[i]
    BY <1>1, TotalsDef
  <2>2. Totals(a)[0] = 0 /\ \A i \in 1..Len(a) : Totals(a)[i] = Totals(a)[i - 1] + a[i]
    BY TotalsDef
  <2>3. /\ Totals(b)[0] = 0 /\ \A i \in 1..Len(b) : Totals(b)[i] = Totals(b)[i - 1] + b[i]
        /\ \A i \in 0..Len(b) : Totals(b)[i] \in Nat
    BY TotalsDef
  <2>4. Sum(a) \in Nat /\ \A i \in 1..Len(b) : b[i] \in Nat
    BY SumType
  <2>5. QED
    BY <2>1, <2>2, <2>3, <2>4
<1>3. \A i \in 0..Len(a) : Totals(c)[i] = Totals(a)[i]
  <2> DEFINE S == {x \in 0..Len(a) : Totals(c)[x] = Totals(a)[x]}
  <2>1. 0 \in S /\ \A i \in 1..Len(a) : i - 1 \in S => i \in S
    BY <1>1, <1>2
  <2>2. \A i \in 0..Len(a) : i \in S
    <3> HIDE DEF S
    <3> QED
      BY <1>1, <2>1, UpTo, Zenon
  <2>3. QED
    BY <2>2
<1>4. \A i \in 0..Len(b) : Totals(c)[Len(a) + i] = Sum(a) + Totals(b)[i]
  <2> DEFINE S == {x \in 0..Len(b) : Totals(c)[Len(a) + x] = Sum(a) + Totals(b)[x]}
  <2>1. 0 \in S
    BY <1>1, <1>2, <1>3 DEF Sum
  <2>2. ASSUME NEW i \in 1..Len(b), i - 1 \in S PROVE i \in S
    <3>1. Len(a) + i \in 1..Len(c) /\ (Len(a) + i) - 1 = Len(a) + (i - 1) /\ i - 1 \in 0..Len(b)
      BY <1>1
    <3>2. Totals(c)[Len(a) + i] = Totals(c)[Len(a) + (i - 1)] + b[i]
      BY <1>1, <1>2, <3>1
    <3>3. Totals(b)[i] = Totals(b)[i - 1] + b[i]
      BY <1>2
    <3>4. Totals(b)[i - 1] \in Nat /\ b[i] \in Nat
      BY <1>2, <3>1
    <3>5. Totals(c)[Len(a) + (i - 1)] = Sum(a) + Totals(b)[i - 1]
      BY <2>2
    <3>6. Sum(a) \in Nat /\ i \in 0..Len(b)
      BY <1>1, <1>2
    <3>7. Totals(c)[Len(a) + i] = Sum(a) + Totals(b)[i]
      BY <3>2, <3>3, <3>4, <3>5, <3>6
    <3>8. QED
      BY <3>6, <3>7
  <2>3. \A i \in 0..Len(b) : i \in S
    <3> HIDE DEF S
    <3>1. \A i \in 1..Len(b) : i - 1 \in S => i \in S
      BY <2>2
    <3> QED
      BY <1>1, <2>1, <3>1, UpTo, Zenon
  <2>4. QED
    BY <2>3
<1>5. Sum(c) = Sum(a) + Sum(b)
  <2>1. Len(b) \in 0..Len(b)
    BY <1>1
  <2>2. QED
    BY <1>1, <1>4, <2>1 DEF Sum
<1>6. QED
  BY <1>3, <1>4, <1>5 DEF c

LEMMA SumOne == ASSUME NEW x \in Nat PROVE Sum(<<x>>) = x
<1> DEFINE s == <<x>>
<1>1. s \in Seq(Nat) /\ Len(s) = 1 /\ s[1] = x
  OBVIOUS
<1> HIDE DEF s
<1>2. Totals(s)[0] = 0 /\ \A i \in 1..Len(s) : Totals(s)[i] = Totals(s)[i - 1] + s[i]
  BY <1>1, TotalsDef
<1>3. Sum(s) = x
  BY <1>1, <1>2 DEF Sum
<1>4. QED
  BY <1>3 DEF s

LEMMA SumNone == Sum(<<>>) = 0
<1>1. <<>> \in Seq(Nat) /\ Len(<<>>) = 0
  OBVIOUS
<1>2. QED
  BY <1>1, TotalsDef DEF Sum

LEMMA SumAppend ==
  ASSUME NEW s \in Seq(Nat), NEW x \in Nat
  PROVE  Sum(Append(s, x)) = Sum(s) + x
<1> DEFINE one == <<x>>
<1>1. Append(s, x) = s \o one /\ one \in Seq(Nat)
  OBVIOUS
<1>2. Sum(one) = x
  BY SumOne
<1> HIDE DEF one
<1>3. Sum(s \o one) = Sum(s) + Sum(one)
  BY <1>1, TotalsConcat
<1>4. QED
  BY <1>1, <1>2, <1>3

(* Every place up to the total belongs to one of the numbers.               *)
LEMMA Located ==
  ASSUME NEW s \in Seq(Nat), NEW p \in 1..Sum(s)
  PROVE  \E i \in 1..Len(s) : \E k \in 1..s[i] : p = Totals(s)[i - 1] + k
<1> DEFINE n == Len(s)
           t == Totals(s)
           S == {x \in 0..n : p <= t[x]}
<1>1. /\ n \in Nat /\ t \in [0..n -> Nat] /\ t[0] = 0
      /\ \A x \in 1..n : t[x] = t[x - 1] + s[x] /\ s[x] \in Nat
      /\ p \in Nat /\ p >= 1 /\ p <= t[n]
  BY TotalsDef, SumType DEF Sum
<1> HIDE DEF n, t
<1>2. PICK i \in S : \A y \in S : i <= y
  <2>1. S \in SUBSET Nat /\ S # {}
    BY <1>1
  <2> HIDE DEF S
  <2>2. QED
    BY <2>1, Least
<1>3. i \in 1..n /\ i - 1 \in 0..n /\ i - 1 \notin S
  <2>1. i \in 0..n /\ p <= t[i]
    BY <1>2
  <2>2. i # 0
    BY <1>1, <2>1
  <2>3. i \in 1..n /\ i - 1 \in 0..n /\ ~(i <= i - 1)
    BY <1>1, <2>1, <2>2
  <2>4. QED
    BY <1>2, <2>3
<1>4. t[i - 1] < p /\ p <= t[i - 1] + s[i] /\ t[i - 1] \in Nat /\ s[i] \in Nat
  <2>1. t[i] = t[i - 1] + s[i] /\ s[i] \in Nat /\ t[i - 1] \in Nat
    BY <1>1, <1>3
  <2>2. p <= t[i]
    BY <1>2
  <2>3. ~(p <= t[i - 1])
    BY <1>3
  <2>4. QED
    BY <1>1, <2>1, <2>2, <2>3
<1>5. p - t[i - 1] \in 1..s[i] /\ p = t[i - 1] + (p - t[i - 1])
  BY <1>1, <1>4
<1>6. QED
  BY <1>3, <1>5 DEF n, t

-----------------------------------------------------------------------------
(* Sequences one after another. *)

Lens(q) == [i \in 1..Len(q) |-> Len(q[i])]

LEMMA LensType ==
  ASSUME NEW q \in Seq(Seq(Nat))
  PROVE  Lens(q) \in Seq(Nat) /\ Len(Lens(q)) = Len(q)
<1>1. \A i \in 1..Len(q) : Len(q[i]) \in Nat
  OBVIOUS
<1>2. QED
  BY <1>1 DEF Lens

(* The sequences of a sequence put one after another: the k-th element of   *)
(* the s-th is found k places after the end of those before it.             *)
LEMMA Flatten ==
  ASSUME NEW q \in Seq(Seq(Nat))
  PROVE  /\ FlattenSeq(q) \in Seq(Nat)
         /\ Len(FlattenSeq(q)) = Sum(Lens(q))
         /\ \A s \in 1..Len(q) : \A k \in 1..Len(q[s]) :
              FlattenSeq(q)[Totals(Lens(q))[s - 1] + k] = q[s][k]
<1> DEFINE n == Len(q)
           Step(f) == [i \in 1..n |-> IF i = 1 THEN q[i] ELSE f[i - 1] \o q[i]]
           Good(m, f) == \A i \in 1..m : f[i] = IF i = 1 THEN q[i] ELSE f[i - 1] \o q[i]
<1>1. n \in Nat /\ \A i \in 1..n : q[i] \in Seq(Nat) /\ Len(q[i]) \in Nat
  OBVIOUS
<1>2. \E f \in [1..n -> Seq(Nat)] : Good(n, f)
  <2> DEFINE S == {m \in 0..n : \E f \in [1..m -> Seq(Nat)] : Good(m, f)}
  <2>1. 0 \in S
    <3>1. [i \in 1..0 |-> <<>>] \in [1..0 -> Seq(Nat)] /\ Good(0, [i \in 1..0 |-> <<>>])
      OBVIOUS
    <3>2. 0 \in 0..n
      BY <1>1
    <3> HIDE DEF Good
    <3>3. QED
      BY <3>1, <3>2
  <2>2. ASSUME NEW m \in 1..n, m - 1 \in S PROVE m \in S
    <3>1. PICK f \in [1..(m - 1) -> Seq(Nat)] : Good(m - 1, f)
      BY <2>2
    <3> DEFINE last == IF m = 1 THEN q[m] ELSE f[m - 1] \o q[m]
               g == [i \in 1..m |-> IF i = m THEN last ELSE f[i]]
    <3>2. last \in Seq(Nat)
      <4>1. CASE m = 1
        BY <1>1, <4>1
      <4>2. CASE m # 1
        <5>1. m - 1 \in 1..(m - 1)
          BY <1>1, <4>2
        <5>2. f[m - 1] \in Seq(Nat) /\ q[m] \in Seq(Nat)
          BY <1>1, <5>1
        <5>3. QED
          BY <4>2, <5>2
      <4>3. QED
        BY <4>1, <4>2
    <3>3. g \in [1..m -> Seq(Nat)]
      <4> HIDE DEF last
      <4>1. \A i \in 1..m : i # m => i \in 1..(m - 1)
        BY <1>1
      <4>2. QED
        BY <3>2, <4>1
    <3>4. Good(m, g)
      <4>1. ASSUME NEW i \in 1..m
            PROVE  g[i] = IF i = 1 THEN q[i] ELSE g[i - 1] \o q[i]
        <5>1. CASE i = m
          BY <1>1, <5>1
        <5>2. CASE i # m
          <6>1. i \in 1..(m - 1)
            BY <1>1, <5>2
          <6>2. f[i] = IF i = 1 THEN q[i] ELSE f[i - 1] \o q[i]
            BY <3>1, <6>1
          <6>3. g[i] = f[i] /\ (i # 1 => g[i - 1] = f[i - 1])
            BY <1>1, <5>2, <6>1
          <6> HIDE DEF g
          <6>4. QED
            BY <6>2, <6>3
        <5>3. QED
          BY <5>1, <5>2
      <4>2. QED
        BY <4>1
    <3> HIDE DEF g, Good
    <3>5. QED
      BY <3>3, <3>4
  <2>3. n \in S
    <3> HIDE DEF S
    <3>1. \A m \in 1..n : m - 1 \in S => m \in S
      BY <2>2
    <3>2. \A m \in 0..n : m \in S
      BY <1>1, <2>1, <3>1, UpTo, Zenon
    <3>3. QED
      BY <1>1, <3>2
  <2>4. QED
    BY <2>3
<1>3. PICK f \in [1..n -> Seq(Nat)] : Good(n, f)
  BY <1>2
<1>4. f = Step(f)
  BY <1>3
<1> DEFINE h == CHOOSE g : g = Step(g)
<1>5. h = Step(h)
  <2> HIDE DEF Step
  <2> QED
    BY <1>4
<1> DEFINE L == Lens(q)
           t == Totals(L)
           At(i) == /\ h[i] \in Seq(Nat)
                    /\ Len(h[i]) = t[i]
                    /\ \A s \in 1..i : \A k \in 1..Len(q[s]) : h[i][t[s - 1] + k] = q[s][k]
<1>6. /\ t \in [0..n -> Nat] /\ t[0] = 0
      /\ \A i \in 1..n : t[i] = t[i - 1] + Len(q[i])
  <2>1. L \in Seq(Nat) /\ Len(L) = n /\ \A i \in 1..n : L[i] = Len(q[i])
    BY LensType DEF Lens
  <2> HIDE DEF L
  <2>2. QED
    BY <2>1, TotalsDef
<1> HIDE DEF h, t, L, n
<1>7. \A i \in 1..n : h[i] = IF i = 1 THEN q[i] ELSE h[i - 1] \o q[i]
  BY <1>5
<1>8. \A i \in 1..n : At(i)
  <2> DEFINE S == {i \in 0..n : i # 0 => At(i)}
  <2>1. 0 \in S
    BY <1>1
  <2>2. ASSUME NEW i \in 1..n, i - 1 \in S PROVE i \in S
    <3>1. CASE i = 1
      <4>1. h[1] = q[1] /\ q[1] \in Seq(Nat) /\ t[1] = Len(q[1])
        BY <1>1, <1>6, <1>7, <3>1
      <4>2. \A s \in 1..1 : s = 1
        OBVIOUS
      <4>3. \A k \in 1..Len(q[1]) : t[0] + k = k
        BY <1>6
      <4>4. At(1)
        BY <4>1, <4>2, <4>3
      <4>5. QED
        BY <3>1, <4>4
    <3>2. CASE i # 1
      <4>0. i - 1 \in 1..n /\ i - 1 \in 0..n /\ i \in 1..n /\ n \in Nat
        BY <1>1, <3>2
      <4>1. At(i - 1)
        BY <2>2, <4>0
      <4> DEFINE a == h[i - 1]
                 b == q[i]
      <4>2. h[i] = a \o b /\ a \in Seq(Nat) /\ b \in Seq(Nat)
        BY <1>1, <1>7, <3>2, <4>1, <4>0
      <4>3. Len(a) = t[i - 1] /\ t[i] = t[i - 1] + Len(b)
        BY <1>6, <4>1, <4>0
      <4>4. \A s \in 1..(i - 1) : \A k \in 1..Len(q[s]) : a[t[s - 1] + k] = q[s][k]
        BY <4>1
      <4>5. ASSUME NEW s \in 1..i, NEW k \in 1..Len(q[s]) PROVE h[i][t[s - 1] + k] = q[s][k]
        <5>1. CASE s = i
          <6> HIDE DEF a
          <6>1. (a \o b)[Len(a) + k] = b[k]
            BY <4>2, <5>1
          <6>2. QED
            BY <4>2, <4>3, <5>1, <6>1
        <5>2. CASE s # i
          <6>1. s \in 1..(i - 1) /\ s \in 1..n
            BY <4>0, <5>2
          <6>2. t[s - 1] + k \in 1..Len(a)
            <7>1. s - 1 \in 0..n /\ s \in 0..(i - 1)
              BY <1>1, <6>1
            <7>2. t[s - 1] + Len(q[s]) = t[s] /\ t[s - 1] \in Nat /\ Len(q[s]) \in Nat
              BY <1>1, <1>6, <6>1, <7>1, Zenon
            <7>3. t[s] <= t[i - 1]
              <8>1. L \in Seq(Nat) /\ Len(L) = n
                BY LensType DEF L, n
              <8>2. s \in 0..Len(L) /\ i - 1 \in s..Len(L)
                BY <4>0, <6>1, <8>1
              <8>3. QED
                BY <8>1, <8>2, TotalsUp DEF t
            <7>4. t[s] \in Nat /\ t[i - 1] \in Nat
              <8>1. s \in 0..n /\ i - 1 \in 0..n
                BY <4>0, <6>1
              <8>2. QED
                BY <1>6, <8>1
            <7>5. t[s - 1] + Len(q[s]) <= t[i - 1]
              BY <7>2, <7>3
            <7>6. t[s - 1] + k \in 1..t[i - 1]
              BY <7>2, <7>4, <7>5, Within
            <7>7. QED
              BY <4>3, <7>6
          <6> HIDE DEF a
          <6>3. (a \o b)[t[s - 1] + k] = a[t[s - 1] + k]
            BY <4>2, <6>2
          <6>4. QED
            BY <4>2, <4>4, <6>1, <6>3
        <5>3. QED
          BY <5>1, <5>2
      <4>6. h[i] \in Seq(Nat) /\ Len(h[i]) = t[i]
        <5> HIDE DEF a, b
        <5>1. a \o b \in Seq(Nat) /\ Len(a \o b) = Len(a) + Len(b)
          BY <4>2
        <5>2. QED
          BY <4>2, <4>3, <5>1
      <4>7. At(i)
        BY <4>5, <4>6
      <4>8. QED
        BY <4>7
    <3>3. QED
      BY <3>1, <3>2
  <2>3. \A i \in 0..n : i \in S
    <3> HIDE DEF S
    <3>1. n \in Nat /\ \A i \in 1..n : i - 1 \in S => i \in S
      BY <1>1, <2>2
    <3>2. QED
      BY <2>1, <3>1, UpTo, Zenon
  <2>4. ASSUME NEW i \in 1..n PROVE At(i)
    <3>1. i \in 0..n /\ i # 0
      BY <1>1
    <3>2. i \in S
      BY <2>3, <3>1
    <3> HIDE DEF At
    <3>3. QED
      BY <3>1, <3>2
  <2>5. QED
    BY <2>4
<1>9. CASE n = 0
  <2>1. q = <<>> /\ FlattenSeq(q) = <<>>
    BY <1>9 DEF FlattenSeq, n
  <2>2. Sum(L) = 0
    BY <1>6, <1>9, LensType DEF Sum, t, L, n
  <2>3. QED
    <3>1. FlattenSeq(q) \in Seq(Nat) /\ Len(FlattenSeq(q)) = 0
      <4>1. <<>> \in Seq(Nat) /\ Len(<<>>) = 0
        OBVIOUS
      <4>2. QED
        BY <2>1, <4>1, Zenon
    <3>2. Sum(Lens(q)) = 0
      BY <2>2 DEF L
    <3>3. \A s \in 1..Len(q) : FALSE
      BY <1>9 DEF n
    <3>4. QED
      BY <3>1, <3>2, <3>3, Zenon
<1>10. CASE n # 0
  <2>1. FlattenSeq(q) = h[n]
    BY <1>10 DEF FlattenSeq, n, h
  <2>2. At(n)
    BY <1>1, <1>8, <1>10
  <2>3. Sum(L) = t[n]
    BY LensType DEF Sum, t, L, n
  <2>4. QED
    BY <2>1, <2>2, <2>3 DEF n, t, L
<1>11. QED
  BY <1>9, <1>10

(* Files of one sound each make the sequence of these sounds.               *)
LEMMA Singles ==
  ASSUME NEW q \in Seq(Seq(Nat)), NEW d \in Seq(Nat), Len(q) = Len(d),
         \A i \in 1..Len(d) : q[i] = <<d[i]>>
  PROVE  FlattenSeq(q) = d
<1> DEFINE n == Len(d)
           t == Totals(Lens(q))
           f == FlattenSeq(q)
<1>1. n \in Nat /\ Len(q) = n /\ Len(d) = n
  OBVIOUS
<1>2. ASSUME NEW i \in 1..n PROVE Len(q[i]) = 1 /\ q[i][1] = d[i]
  <2>1. q[i] = <<d[i]>>
    OBVIOUS
  <2>2. QED
    BY ONLY <2>1
<1>3. /\ t[0] = 0
      /\ \A i \in 1..n : t[i] = t[i - 1] + 1
      /\ Sum(Lens(q)) = t[n]
  <2> DEFINE L == Lens(q)
  <2>1. L \in Seq(Nat) /\ Len(L) = n /\ \A i \in 1..n : L[i] = 1
    BY <1>1, <1>2, LensType DEF Lens
  <2> HIDE DEF L, n
  <2>2. /\ Totals(L)[0] = 0
        /\ \A i \in 1..n : Totals(L)[i] = Totals(L)[i - 1] + L[i]
    BY <2>1, TotalsDef
  <2>3. \A i \in 1..n : Totals(L)[i] = Totals(L)[i - 1] + 1
    BY <2>1, <2>2
  <2>4. Sum(L) = Totals(L)[n]
    BY <2>1 DEF Sum
  <2>5. QED
    BY <2>2, <2>3, <2>4 DEF L
<1>4. /\ f \in Seq(Nat) /\ Len(f) = t[n]
      /\ \A i \in 1..n : f[t[i - 1] + 1] = d[i]
  <2>1. /\ f \in Seq(Nat) /\ Len(f) = t[n]
        /\ \A s \in 1..n : \A k \in 1..Len(q[s]) : f[t[s - 1] + k] = q[s][k]
    BY <1>1, <1>3, Flatten
  <2> HIDE DEF f, t, n
  <2>2. ASSUME NEW i \in 1..n PROVE f[t[i - 1] + 1] = d[i]
    <3>1. 1 \in 1..Len(q[i])
      BY <1>2
    <3>2. QED
      BY <1>2, <2>1, <3>1
  <2>3. QED
    BY <2>1, <2>2
<1> HIDE DEF n, t, f
<1>5. \A i \in 0..n : t[i] = i
  <2> DEFINE S == {x \in 0..n : t[x] = x}
  <2>1. 0 \in S /\ \A i \in 1..n : i - 1 \in S => i \in S
    BY <1>1, <1>3
  <2>2. \A i \in 0..n : i \in S
    <3> HIDE DEF S
    <3> QED
      BY <1>1, <2>1, UpTo, Zenon
  <2>3. QED
    BY <2>2
<1>6. Len(f) = n
  BY <1>1, <1>4, <1>5
<1>7. ASSUME NEW i \in 1..n PROVE f[i] = d[i]
  <2>1. i - 1 \in 0..n /\ (i - 1) + 1 = i
    BY <1>1
  <2>2. t[i - 1] + 1 = i
    BY <1>5, <2>1
  <2>3. QED
    BY <1>4, <2>2
<1>8. f = d
  BY <1>1, <1>4, <1>6, <1>7
<1>9. QED
  BY <1>8 DEF f

(* Sums of numbers one by one no larger are no larger, and are equal only   *)
(* when all the numbers are.                                                *)
LEMMA SumsTight ==
  ASSUME NEW a \in Seq(Nat), NEW b \in Seq(Nat), Len(a) = Len(b),
         \A i \in 1..Len(b) : a[i] <= b[i],
         Sum(a) = Sum(b)
  PROVE  \A i \in 0..Len(b) : Totals(a)[i] = Totals(b)[i]
<1> DEFINE n == Len(b)
           x == Totals(a)
           y == Totals(b)
<1>1. /\ n \in Nat /\ x \in [0..n -> Nat] /\ y \in [0..n -> Nat]
      /\ x[0] = 0 /\ y[0] = 0 /\ x[n] = y[n]
  BY TotalsDef DEF Sum
<1>2. \A i \in 1..n : /\ x[i] = x[i - 1] + a[i] /\ y[i] = y[i - 1] + b[i]
                      /\ a[i] <= b[i] /\ a[i] \in Nat /\ b[i] \in Nat
  <2>1. \A i \in 1..n : x[i] = x[i - 1] + a[i]
    BY TotalsDef
  <2>2. \A i \in 1..n : y[i] = y[i - 1] + b[i]
    BY TotalsDef
  <2>3. QED
    BY <2>1, <2>2
<1> HIDE DEF n, x, y
<1>3. \A i \in 0..n : x[i] <= y[i]
  <2> DEFINE S == {i \in 0..n : x[i] <= y[i]}
  <2>1. 0 \in S
    BY <1>1
  <2>2. ASSUME NEW i \in 1..n, i - 1 \in S PROVE i \in S
    <3>1. i - 1 \in 0..n /\ i \in 0..n /\ x[i - 1] <= y[i - 1]
      BY <1>1, <2>2
    <3>2. x[i - 1] \in Nat /\ y[i - 1] \in Nat
      BY <1>1, <3>1
    <3>3. x[i] <= y[i]
      BY <1>2, <3>1, <3>2
    <3>4. QED
      BY <3>1, <3>3
  <2>3. \A i \in 0..n : i \in S
    <3> HIDE DEF S
    <3>1. \A i \in 1..n : i - 1 \in S => i \in S
      BY <2>2
    <3>2. QED
      BY <1>1, <2>1, <3>1, UpTo, Zenon
  <2>4. QED
    BY <2>3
<1>4. \A d \in 0..n : x[n - d] >= y[n - d]
  <2> DEFINE S == {d \in 0..n : x[n - d] >= y[n - d]}
  <2>1. 0 \in S
    BY <1>1
  <2>2. ASSUME NEW d \in 1..n, d - 1 \in S PROVE d \in S
    <3> DEFINE i == n - (d - 1)
    <3>1. i \in 1..n /\ i \in 0..n /\ i - 1 \in 0..n /\ i - 1 = n - d
      BY <1>1
    <3>2. x[i] >= y[i]
      BY <2>2
    <3> HIDE DEF i
    <3>3. x[i - 1] \in Nat /\ y[i - 1] \in Nat
      BY <1>1, <3>1
    <3>4. x[i - 1] >= y[i - 1]
      <4>1. /\ x[i] = x[i - 1] + a[i] /\ y[i] = y[i - 1] + b[i]
            /\ a[i] <= b[i] /\ a[i] \in Nat /\ b[i] \in Nat
        BY <1>2, <3>1
      <4>2. ASSUME NEW k \in Nat, NEW l \in Nat, NEW f \in Nat, NEW g \in Nat,
                   k + f >= l + g, f <= g
            PROVE  k >= l
        BY <4>2
      <4>3. x[i - 1] + a[i] >= y[i - 1] + b[i]
        BY <3>2, <4>1
      <4>4. QED
        BY <3>3, <4>1, <4>2, <4>3
    <3>5. QED
      BY <1>1, <3>1, <3>4
  <2>3. \A d \in 0..n : d \in S
    <3> HIDE DEF S
    <3>1. \A d \in 1..n : d - 1 \in S => d \in S
      BY <2>2
    <3>2. QED
      BY <1>1, <2>1, <3>1, UpTo, Zenon
  <2>4. QED
    BY <2>3
<1>5. ASSUME NEW i \in 0..n PROVE x[i] = y[i]
  <2>1. n - i \in 0..n /\ n - (n - i) = i
    BY <1>1
  <2>2. x[i] >= y[i] /\ x[i] <= y[i] /\ x[i] \in Nat /\ y[i] \in Nat
    BY <1>1, <1>3, <1>4, <2>1
  <2>3. QED
    BY <2>2
<1>6. QED
  BY <1>5 DEF n, x, y

(* An equal share of a sum.                                                 *)
LEMMA Shares ==
  ASSUME NEW x \in Nat, NEW n \in Nat \ {0}
  PROVE  /\ x \div n \in Nat /\ n * (x \div n) <= x
         /\ n <= x => 1 <= x \div n
  OBVIOUS

-----------------------------------------------------------------------------
(* What the operations give. *)

LEMMA ScriptType ==
  ASSUME script \in Scripts
  PROVE  /\ script \in Seq(Seq(Nat)) /\ Len(script) \in Nat \ {0}
         /\ \A s \in 1..Len(script) : \A k \in 1..Len(script[s]) : script[s][k] \in Nat \ {0}
<1>1. script \in Seq(Seq(Nat \ {0})) /\ script # <<>>
  BY SceneAudioAssumption
<1>2. \A s \in 1..Len(script) : script[s] \in Seq(Nat \ {0})
  BY <1>1
<1>3. \A s \in 1..Len(script) : script[s] \in Seq(Nat)
  BY <1>2
<1>4. QED
  BY <1>1, <1>2, <1>3

(* What ffprobe tells is the length of the file, if it tells any.           *)
LEMMA Probed ==
  ASSUME NEW file \in Seq(Nat), NEW d \in GetAudioDuration(file)
  PROVE  d \in Nat /\ d \in {0, Sum(file)} /\ (~ffmpeg => d = 0)
BY SumType DEF GetAudioDuration

(* A join is the first file or all of them.                                 *)
LEMMA JoinedSound ==
  ASSUME NEW files \in Seq(Seq(Nat)), files # <<>>, NEW j \in Joined(files)
  PROVE  /\ j.sound \in Seq(Nat)
         /\ \/ j.sound = files[1] /\ j.joined = FALSE
            \/ j.sound = FlattenSeq(files) /\ j.joined = TRUE
<1> DEFINE first == [sound |-> files[1], joined |-> FALSE]
           whole == [sound |-> FlattenSeq(files), joined |-> TRUE]
<1>1. j = first \/ j = whole
  BY DEF Joined
<1>2. files[1] \in Seq(Nat) /\ FlattenSeq(files) \in Seq(Nat)
  BY Flatten
<1>3. QED
  BY <1>1, <1>2

LEMMA DurationsType ==
  ASSUME TypeOK
  PROVE  Durations \in Seq(Nat) /\ Len(Durations) = Len(spoken)
<1>1. \A i \in 1..Len(spoken) : spoken[i].duration \in Nat
  <2> DEFINE R == [file : Seq(Nat), duration : Nat]
  <2>1. spoken \in Seq(R)
    BY DEF TypeOK
  <2>2. \A i \in 1..Len(spoken) : spoken[i] \in R
    <3> HIDE DEF R
    <3> QED
      BY <2>1
  <2>3. QED
    BY <2>2
<1>2. Len(spoken) \in Nat
  BY DEF TypeOK
<1>3. QED
  BY <1>1, <1>2 DEF Durations

Files == [i \in 1..Len(spoken) |-> spoken[i].file]

LEMMA FilesType ==
  ASSUME TypeOK
  PROVE  Files \in Seq(Seq(Nat)) /\ Len(Files) = Len(spoken)
<1>1. \A i \in 1..Len(spoken) : spoken[i].file \in Seq(Nat)
  <2> DEFINE R == [file : Seq(Nat), duration : Nat]
  <2>1. spoken \in Seq(R)
    BY DEF TypeOK
  <2>2. \A i \in 1..Len(spoken) : spoken[i] \in R
    <3> HIDE DEF R
    <3> QED
      BY <2>1
  <2>3. QED
    BY <2>2
<1>2. Len(spoken) \in Nat
  BY DEF TypeOK
<1>3. QED
  BY <1>1, <1>2 DEF Files

(* A scene lasts as long as its joined file or as claimed.                  *)
LEMMA SceneSound ==
  ASSUME TypeOK, spoken # <<>>, NEW audio \in ConcatAudios
  PROVE  /\ audio.sound \in Seq(Nat) /\ audio.duration \in Nat
         /\ \/ audio.sound = Files[1] /\ audio.duration = Sum(Durations)
            \/ /\ audio.sound = FlattenSeq(Files)
               /\ audio.duration \in {Sum(audio.sound), Sum(Durations)}
         /\ ~ffmpeg => audio.duration = Sum(Durations)
<1> DEFINE claimed == Sum(Durations)
           of(j) == IF j.joined
                    THEN {IF d > 0 THEN d ELSE claimed : d \in GetAudioDuration(j.sound)}
                    ELSE {claimed}
<1>1. PICK j \in Joined(Files) :
        audio \in {[sound |-> j.sound, duration |-> d] : d \in of(j)}
  BY DEF ConcatAudios, Files
<1>2. PICK e \in of(j) : audio = [sound |-> j.sound, duration |-> e]
  BY <1>1
<1>3. Files \in Seq(Seq(Nat)) /\ Files # <<>>
  <2>1. Len(spoken) # 0
    BY DEF TypeOK
  <2>2. QED
    BY <2>1, FilesType
<1>4. /\ j.sound \in Seq(Nat)
      /\ \/ j.sound = Files[1] /\ j.joined = FALSE
         \/ j.sound = FlattenSeq(Files) /\ j.joined = TRUE
  BY <1>3, JoinedSound
<1>5. claimed \in Nat
  BY DurationsType, SumType
<1> HIDE DEF claimed
<1>6. CASE j.joined = FALSE
  BY <1>2, <1>4, <1>5, <1>6 DEF claimed
<1>7. CASE j.joined = TRUE
  <2>1. PICK d \in GetAudioDuration(j.sound) : e = IF d > 0 THEN d ELSE claimed
    BY <1>2, <1>7
  <2>2. d \in Nat /\ d \in {0, Sum(j.sound)} /\ (~ffmpeg => d = 0)
    BY <1>4, Probed
  <2>3. e \in Nat /\ e \in {Sum(j.sound), claimed} /\ (~ffmpeg => e = claimed)
    BY <1>5, <2>1, <2>2
  <2>4. audio.sound = j.sound /\ audio.duration = e
    BY <1>2
  <2>5. QED
    BY <1>4, <1>7, <2>3, <2>4 DEF claimed
<1>8. QED
  BY <1>4, <1>6, <1>7

(* The captions of a scene.                                                 *)
LEMMA Entries ==
  ASSUME TypeOK, NEW offset \in Nat
  PROVE  /\ Timeline(offset) \in Seq(Captions) /\ Len(Timeline(offset)) = Len(spoken)
         /\ \A i \in 1..Len(spoken) :
              /\ Timeline(offset)[i].start = offset + Totals(Durations)[i - 1]
              /\ Timeline(offset)[i].end = Timeline(offset)[i].start + Durations[i]
              /\ Timeline(offset)[i].scene = Scene
<1> DEFINE n == Len(spoken)
           t == Totals(Durations)
           T == Timeline(offset)
<1>1. /\ n \in Nat /\ t \in [0..n -> Nat]
      /\ \A i \in 1..n : t[i] = t[i - 1] + Durations[i] /\ Durations[i] \in Nat
  <2>1. Durations \in Seq(Nat) /\ Len(Durations) = n
    BY DurationsType
  <2>2. QED
    BY <2>1, TotalsDef
<1>2. Scene \in Nat
  BY DEF TypeOK, Scene
<1>3. T = [i \in 1..n |-> [start |-> offset + t[i - 1], end |-> offset + t[i], scene |-> Scene]]
  BY DEF Timeline
<1> HIDE DEF n, t, T
<1>4. \A i \in 1..n : i - 1 \in 0..n /\ i \in 0..n
  BY <1>1
<1>5. \A i \in 1..n : T[i] \in Captions
  BY <1>1, <1>2, <1>3, <1>4 DEF Captions
<1>6. T \in Seq(Captions) /\ Len(T) = n
  BY <1>1, <1>3, <1>5
<1>7. ASSUME NEW i \in 1..n
      PROVE  /\ T[i].start = offset + t[i - 1]
             /\ T[i].end = T[i].start + Durations[i]
             /\ T[i].scene = Scene
  <2>1. /\ T[i].start = offset + t[i - 1] /\ T[i].end = offset + t[i]
        /\ T[i].scene = Scene
    BY <1>3
  <2>2. t[i] = t[i - 1] + Durations[i] /\ Durations[i] \in Nat /\ t[i - 1] \in Nat
    BY <1>1, <1>4
  <2>3. QED
    BY <2>1, <2>2
<1>8. QED
  BY <1>6, <1>7 DEF n, t, T

-----------------------------------------------------------------------------
(* Types. *)

(* A sentence of the scene is over: its length is the file's or the         *)
(* provider's or the silence's.                                             *)
LEMMA SentenceDone ==
  ASSUME TypeOK, GenerateSentenceAudio, Len(sounds) < Len(script)
  PROVE  \E file \in Seq(Nat), d \in Nat \ {0} :
           /\ spoken' = Append(spoken, [file |-> file, duration |-> d])
           /\ guessed' = (guessed \/ d # Sum(file))
           /\ file = <<>> \/ \E x \in Nat : file = <<x>>
<1>1. CASE Speak
  <2> DEFINE x == script[Scene][Sentence]
             file == <<x>>
  <2>1. x \in Nat
    <3>1. /\ Len(sounds) \in Nat /\ Len(spoken) \in Nat /\ script \in Scripts
          /\ Sentence <= Len(script[Scene])
      BY DEF TypeOK, GenerateSentenceAudio
    <3>2. Len(script) \in Nat
      BY <3>1, ScriptType
    <3>3. Scene \in 1..Len(script)
      BY <3>1, <3>2 DEF Scene
    <3>4. script[Scene] \in Seq(Nat)
      BY <3>1, <3>3, ScriptType
    <3>5. Sentence \in 1..Len(script[Scene])
      BY <3>1, <3>4 DEF Sentence
    <3>6. QED
      BY <3>4, <3>5
  <2>2. file \in Seq(Nat)
    BY <2>1
  <2>3. PICK d \in GetAudioDuration(file), e \in Estimates :
          LET duration == IF d > 0 THEN d ELSE e IN
          /\ spoken' = Append(spoken, [file |-> file, duration |-> duration])
          /\ guessed' = (guessed \/ duration # Sum(file))
    BY <1>1 DEF Speak
  <2> HIDE DEF x
  <2>4. d \in Nat /\ e \in Nat \ {0}
    BY <2>2, Probed, SceneAudioAssumption
  <2> DEFINE duration == IF d > 0 THEN d ELSE e
  <2>5. duration \in Nat \ {0}
    BY <2>4
  <2>6. /\ spoken' = Append(spoken, [file |-> file, duration |-> duration])
        /\ guessed' = (guessed \/ duration # Sum(file))
    BY <2>3
  <2> HIDE DEF duration
  <2>7. QED
    BY <2>1, <2>2, <2>5, <2>6
<1>2. CASE Substitute
  <2>1. PICK file \in CreateSilenceAudio :
          /\ spoken' = Append(spoken, [file |-> file, duration |-> Silence])
          /\ guessed' = (guessed \/ Silence # Sum(file))
    BY <1>2 DEF Substitute
  <2>2. file = <<>> \/ file = <<Silence>>
    BY DEF CreateSilenceAudio
  <2>3. Silence \in Nat \ {0}
    BY SceneAudioAssumption
  <2>4. <<>> \in Seq(Nat) /\ <<Silence>> \in Seq(Nat)
    BY <2>3
  <2>5. file \in Seq(Nat)
    BY <2>2, <2>4, Zenon
  <2>6. QED
    BY <2>1, <2>2, <2>3, <2>5
<1>3. QED
  BY <1>1, <1>2 DEF GenerateSentenceAudio

(* How many scenes and sentences are over.                                  *)
ShapeInv ==
  /\ Len(lengths) = Len(sounds) /\ Len(sounds) <= Len(script)
  /\ pc = "scenes" => Len(sounds) < Len(script) /\ Len(spoken) <= Len(script[Scene])
  /\ pc # "scenes" => Len(sounds) = Len(script)

TypeInv == TypeOK /\ ShapeInv

LEMMA TypeStart == Init => TypeInv
<1> SUFFICES ASSUME Init PROVE TypeInv
  OBVIOUS
<1>1. Len(script) \in Nat \ {0} /\ Len(script[1]) \in Nat
  BY ScriptType DEF Init
<1>2. TypeOK
  <2>1. /\ spoken \in Seq([file : Seq(Nat), duration : Nat])
        /\ sounds \in Seq(Seq(Nat)) /\ lengths \in Seq(Nat) /\ captions \in Seq(Captions)
        /\ track \in Seq(Nat) /\ srt \in Seq(Captions)
    BY DEF Init
  <2>2. /\ script \in Scripts /\ ffmpeg \in BOOLEAN /\ guessed \in BOOLEAN
        /\ pc \in {"scenes", "join", "subtitle", "done"}
    BY DEF Init
  <2>3. QED
    BY <2>1, <2>2 DEF TypeOK
<1>3. ShapeInv
  BY <1>1 DEF Init, ShapeInv, Scene
<1>4. QED
  BY <1>2, <1>3 DEF TypeInv

LEMMA TypeStep == TypeInv /\ [Next]_vars => TypeInv'
<1> SUFFICES ASSUME TypeInv, [Next]_vars PROVE TypeInv'
  OBVIOUS
<1> USE DEF TypeInv
<1>0. /\ script \in Scripts /\ Len(script) \in Nat \ {0}
      /\ \A s \in 1..Len(script) : script[s] \in Seq(Nat) /\ Len(script[s]) \in Nat
  <2>1. script \in Scripts
    BY DEF TypeOK
  <2>2. script \in Seq(Seq(Nat)) /\ Len(script) \in Nat \ {0}
    BY <2>1, ScriptType
  <2>3. QED
    BY <2>1, <2>2
<1>1. ASSUME GenerateSentenceAudio PROVE TypeInv'
  <2>1. /\ UNCHANGED <<script, ffmpeg, sounds, lengths, captions, track, srt, pc>>
        /\ pc = "scenes" /\ Len(spoken) + 1 <= Len(script[Scene])
    BY <1>1 DEF GenerateSentenceAudio, Sentence
  <2>2. Len(sounds) < Len(script)
    BY <2>1 DEF ShapeInv
  <2>3. PICK file \in Seq(Nat), d \in Nat \ {0} :
          /\ spoken' = Append(spoken, [file |-> file, duration |-> d])
          /\ guessed' = (guessed \/ d # Sum(file))
    BY <1>1, <2>2, SentenceDone
  <2>4. spoken \in Seq([file : Seq(Nat), duration : Nat]) /\ guessed \in BOOLEAN
    BY DEF TypeOK
  <2>5. /\ spoken' \in Seq([file : Seq(Nat), duration : Nat])
        /\ Len(spoken') = Len(spoken) + 1
    <3> DEFINE R == [file : Seq(Nat), duration : Nat]
               r == [file |-> file, duration |-> d]
    <3>1. r \in R
      OBVIOUS
    <3> HIDE DEF R, r
    <3>2. Append(spoken, r) \in Seq(R) /\ Len(Append(spoken, r)) = Len(spoken) + 1
      BY <2>4, <3>1 DEF R
    <3>3. QED
      BY <2>3, <3>2 DEF R, r
  <2>6. guessed' \in BOOLEAN
    BY <2>3
  <2>7. TypeOK'
    BY <2>1, <2>5, <2>6 DEF TypeOK
  <2>8. ShapeInv'
    BY <2>1, <2>5 DEF ShapeInv, Scene
  <2>9. QED
    BY <2>7, <2>8
<1>2. ASSUME pc = "scenes", NEW sound \in Seq(Nat), NEW d \in Nat, NEW entries \in Seq(Captions),
             EndScene([sound |-> sound, duration |-> d], entries)
      PROVE  TypeInv'
  <2>1. /\ sounds' = Append(sounds, sound) /\ lengths' = Append(lengths, d + Padding)
        /\ captions' = captions \o entries /\ spoken' = <<>>
        /\ pc' = IF Len(sounds) + 1 = Len(script) THEN "join" ELSE "scenes"
        /\ UNCHANGED <<script, ffmpeg, track, srt, guessed>>
    BY <1>2 DEF EndScene, Scene
  <2>2. /\ sounds \in Seq(Seq(Nat)) /\ lengths \in Seq(Nat) /\ captions \in Seq(Captions)
        /\ d + Padding \in Nat
    BY SceneAudioAssumption DEF TypeOK
  <2>3. /\ sounds' \in Seq(Seq(Nat)) /\ lengths' \in Seq(Nat)
        /\ Len(sounds') = Len(sounds) + 1 /\ Len(lengths') = Len(lengths) + 1
        /\ Len(sounds) \in Nat /\ Len(lengths) \in Nat
    BY <2>1, <2>2
  <2>4. captions' \in Seq(Captions)
    BY <2>1, <2>2
  <2>5. TypeOK'
    <3>1. spoken' \in Seq([file : Seq(Nat), duration : Nat])
      BY <2>1
    <3>2. pc' \in {"scenes", "join", "subtitle", "done"}
      BY <2>1
    <3>3. QED
      BY <2>1, <2>3, <2>4, <3>1, <3>2 DEF TypeOK
  <2>6. ShapeInv'
    <3>1. Len(spoken') = 0
      BY <2>1
    <3>2. Len(sounds) < Len(script) /\ Len(lengths) = Len(sounds)
      BY <1>2 DEF ShapeInv
    <3>3. CASE Len(sounds) + 1 = Len(script)
      <4>1. pc' = "join"
        BY <2>1, <3>3
      <4>2. QED
        BY <2>1, <2>3, <3>2, <3>3, <4>1 DEF ShapeInv
    <3>4. CASE Len(sounds) + 1 # Len(script)
      <4>1. pc' = "scenes" /\ Len(sounds') < Len(script)
        BY <1>0, <2>1, <2>3, <3>2, <3>4
      <4>2. Scene' \in 1..Len(script)
        BY <1>0, <2>3, <4>1 DEF Scene
      <4>3. Len(script[Scene']) \in Nat
        BY <1>0, <4>2
      <4>4. Len(spoken') <= Len(script[Scene'])
        BY <3>1, <4>3
      <4>5. Len(lengths') = Len(sounds') /\ Len(sounds') <= Len(script) /\ script' = script
        BY <1>0, <2>1, <2>3, <3>2, <4>1
      <4>6. QED
        BY <4>1, <4>4, <4>5 DEF ShapeInv, Scene
    <3>5. QED
      BY <3>3, <3>4
  <2>7. QED
    BY <2>5, <2>6
<1>3. ASSUME GenerateSceneAudio PROVE TypeInv'
  <2>1. /\ pc = "scenes" /\ script[Scene] # <<>> /\ Len(spoken) = Len(script[Scene])
    BY <1>3 DEF GenerateSceneAudio
  <2>2. PICK audio \in ConcatAudios : EndScene(audio, Timeline(Sum(lengths)))
    BY <1>3 DEF GenerateSceneAudio
  <2>3. spoken # <<>>
    <3>1. Len(sounds) \in Nat /\ Len(sounds) < Len(script)
      BY <2>1 DEF TypeOK, ShapeInv
    <3>2. Scene \in 1..Len(script)
      BY <1>0, <3>1 DEF Scene
    <3>3. Len(script[Scene]) # 0
      BY <1>0, <2>1, <3>2
    <3>4. QED
      BY <2>1, <3>3
  <2>4. audio.sound \in Seq(Nat) /\ audio.duration \in Nat
    BY <2>3, SceneSound
  <2>5. Timeline(Sum(lengths)) \in Seq(Captions)
    <3>1. Sum(lengths) \in Nat
      BY SumType DEF TypeOK
    <3>2. QED
      BY <3>1, Entries
  <2>6. EndScene([sound |-> audio.sound, duration |-> audio.duration], Timeline(Sum(lengths)))
    BY <2>2 DEF EndScene
  <2>7. QED
    BY <1>2, <2>1, <2>4, <2>5, <2>6
<1>4. ASSUME CreateSilentResult PROVE TypeInv'
  <2>1. <<>> \in Seq(Nat) /\ <<>> \in Seq(Captions) /\ 0 \in Nat
    OBVIOUS
  <2>2. QED
    BY <1>2, <1>4, <2>1 DEF CreateSilentResult
<1>5. ASSUME ConcatSceneAudios PROVE TypeInv'
  <2>1. PICK j \in Joined(sounds) : track' = j.sound
    BY <1>5 DEF ConcatSceneAudios
  <2>2. /\ pc = "join" /\ pc' = "subtitle"
        /\ UNCHANGED <<script, ffmpeg, spoken, sounds, lengths, captions, srt, guessed>>
    BY <1>5 DEF ConcatSceneAudios
  <2>3. sounds \in Seq(Seq(Nat)) /\ sounds # <<>>
    BY <1>0, <2>2 DEF TypeOK, ShapeInv
  <2>4. track' \in Seq(Nat)
    BY <2>1, <2>3, JoinedSound
  <2>5. TypeOK'
    BY <2>2, <2>4 DEF TypeOK
  <2>6. ShapeInv'
    BY <2>2 DEF ShapeInv
  <2>7. QED
    BY <2>5, <2>6
<1>6. ASSUME GenerateSubtitle PROVE TypeInv'
  <2> DEFINE n == Len(script)
             share == Sum(lengths) \div n
             shares == [i \in 1..n |->
                         [start |-> (i - 1) * share, end |-> i * share, scene |-> i]]
  <2>1. /\ pc = "subtitle" /\ pc' = "done"
        /\ srt' = (IF captions # <<>> THEN captions ELSE shares)
        /\ UNCHANGED <<script, ffmpeg, spoken, sounds, lengths, captions, track, guessed>>
    BY <1>6 DEF GenerateSubtitle
  <2>2. share \in Nat /\ n \in Nat
    <3>1. Sum(lengths) \in Nat
      BY SumType DEF TypeOK
    <3>2. QED
      BY <1>0, <3>1, Shares
  <2>3. shares \in Seq(Captions)
    <3> HIDE DEF share, n
    <3>1. \A i \in 1..n : i - 1 \in Nat /\ (i - 1) * share \in Nat /\ i * share \in Nat /\ i \in Nat
      BY <2>2
    <3>2. \A i \in 1..n :
            [start |-> (i - 1) * share, end |-> i * share, scene |-> i] \in Captions
      BY <3>1 DEF Captions
    <3>3. QED
      BY <2>2, <3>2
  <2>4. srt' \in Seq(Captions)
    <3> HIDE DEF shares
    <3> QED
      BY <2>1, <2>3 DEF TypeOK
  <2>5. TypeOK'
    BY <2>1, <2>4 DEF TypeOK
  <2>6. ShapeInv'
    BY <2>1 DEF ShapeInv
  <2>7. QED
    BY <2>5, <2>6
<1>7. CASE UNCHANGED vars
  BY <1>7 DEF vars, TypeOK, ShapeInv, Scene
<1>8. QED
  BY <1>1, <1>3, <1>4, <1>5, <1>6, <1>7 DEF Next

(* The variables have their types.                                          *)
THEOREM TypeCorrect == Spec => []TypeOK
<1>1. TypeInv => TypeOK
  BY DEF TypeInv
<1>2. QED
  BY TypeStart, TypeStep, <1>1, PTL DEF Spec

-----------------------------------------------------------------------------
(* What is claimed for the sentences. *)

(* Every sentence has a duration, its file's when none was guessed.         *)
ClaimInv ==
  \A i \in 1..Len(spoken) :
    /\ spoken[i].duration # 0
    /\ ~guessed => spoken[i].file = <<spoken[i].duration>>

LEMMA ClaimStep == TypeInv /\ ClaimInv /\ [Next]_vars => ClaimInv'
<1> SUFFICES ASSUME TypeInv, ClaimInv, [Next]_vars PROVE ClaimInv'
  OBVIOUS
<1>1. CASE GenerateSentenceAudio
  <2>1. Len(sounds) < Len(script)
    BY <1>1 DEF GenerateSentenceAudio, TypeInv, ShapeInv
  <2>2. PICK file \in Seq(Nat), d \in Nat \ {0} :
          /\ spoken' = Append(spoken, [file |-> file, duration |-> d])
          /\ guessed' = (guessed \/ d # Sum(file))
          /\ file = <<>> \/ \E x \in Nat : file = <<x>>
    BY <1>1, <2>1, SentenceDone DEF TypeInv
  <2>3. ~guessed' => ~guessed /\ file = <<d>>
    <3> SUFFICES ASSUME ~guessed' PROVE ~guessed /\ file = <<d>>
      OBVIOUS
    <3>1. ~guessed /\ d = Sum(file)
      BY <2>2
    <3>2. file # <<>>
      BY <3>1, SumNone
    <3>3. PICK x \in Nat : file = <<x>>
      BY <2>2, <3>2
    <3>4. d = x
      BY <3>1, <3>3, SumOne
    <3>5. QED
      BY <3>1, <3>3, <3>4
  <2> DEFINE r == [file |-> file, duration |-> d]
             R == [file : Seq(Nat), duration : Nat]
  <2>4. spoken \in Seq(R) /\ r \in R /\ spoken' = Append(spoken, r)
    BY <2>2 DEF TypeInv, TypeOK
  <2>5. r.duration = d /\ r.file = file /\ d # 0
    OBVIOUS
  <2> HIDE DEF r, R
  <2>6. ASSUME NEW i \in 1..Len(spoken')
        PROVE  /\ spoken'[i].duration # 0
               /\ ~guessed' => spoken'[i].file = <<spoken'[i].duration>>
    <3>1. CASE i \in 1..Len(spoken)
      <4>1. spoken'[i] = spoken[i]
        BY <2>4, <3>1
      <4>2. QED
        BY <2>3, <3>1, <4>1 DEF ClaimInv
    <3>2. CASE i \notin 1..Len(spoken)
      <4>1. spoken'[i] = r
        BY <2>4, <3>2
      <4>2. QED
        BY <2>3, <2>5, <4>1
    <3>3. QED
      BY <3>1, <3>2
  <2>7. QED
    BY <2>6 DEF ClaimInv
<1>2. ASSUME spoken' = <<>> PROVE ClaimInv'
  <2>1. Len(spoken') = 0
    BY <1>2
  <2>2. \A i \in 1..Len(spoken') : FALSE
    BY <2>1
  <2>3. QED
    BY <2>2 DEF ClaimInv
<1>3. CASE GenerateSceneAudio \/ CreateSilentResult
  BY <1>2, <1>3 DEF GenerateSceneAudio, CreateSilentResult, EndScene
<1>4. CASE ConcatSceneAudios \/ GenerateSubtitle \/ UNCHANGED vars
  <2>1. spoken' = spoken /\ guessed' = guessed
    BY <1>4 DEF ConcatSceneAudios, GenerateSubtitle, vars
  <2>2. QED
    BY <2>1 DEF ClaimInv
<1>5. QED
  BY <1>1, <1>3, <1>4 DEF Next

(* What a scene adds: as many captions as it has sentences, each shown for  *)
(* the time claimed, and a duration that is their sum when all of them were *)
(* found in the same way.  Of a scene's sound at least the first sentence   *)
(* is heard.                                                                *)
Adds(sound, d, claims, entries) ==
  /\ sounds' = Append(sounds, sound)
  /\ lengths' = Append(lengths, d + Padding)
  /\ captions' = captions \o entries
  /\ Len(claims) = Len(script[Scene]) /\ Len(entries) = Len(claims)
  /\ \A i \in 1..Len(claims) :
       /\ claims[i] # 0
       /\ entries[i].start = Sum(lengths) + Totals(claims)[i - 1]
       /\ entries[i].end = entries[i].start + claims[i]
       /\ entries[i].scene = Scene
  /\ Consistent => d = Sum(claims)
  /\ ~guessed => /\ Len(sound) <= Len(claims)
                 /\ \A k \in 1..Len(sound) : sound[k] = claims[k]
  /\ UNCHANGED <<script, ffmpeg, track, srt, guessed>>

LEMMA SceneAdds ==
  ASSUME TypeInv, ClaimInv, GenerateSceneAudio \/ CreateSilentResult
  PROVE  /\ pc = "scenes" /\ pc' \in {"scenes", "join"}
         /\ \E sound \in Seq(Nat), d \in Nat, claims \in Seq(Nat), entries \in Seq(Captions) :
              Adds(sound, d, claims, entries)
<1>0. /\ pc = "scenes" /\ pc' \in {"scenes", "join"}
      /\ Scene \in 1..Len(script) /\ script[Scene] \in Seq(Nat)
  <2>1. pc = "scenes" /\ pc' \in {"scenes", "join"}
    BY DEF GenerateSceneAudio, CreateSilentResult, EndScene
  <2>2. Len(sounds) \in Nat /\ Len(sounds) < Len(script)
    BY <2>1 DEF TypeInv, TypeOK, ShapeInv
  <2>3. script \in Seq(Seq(Nat)) /\ Len(script) \in Nat
    BY ScriptType DEF TypeInv, TypeOK
  <2>4. Scene \in 1..Len(script)
    BY <2>2, <2>3 DEF Scene
  <2>5. QED
    BY <2>1, <2>3, <2>4
<1>1. CASE GenerateSceneAudio
  <2>1. PICK audio \in ConcatAudios : EndScene(audio, Timeline(Sum(lengths)))
    BY <1>1 DEF GenerateSceneAudio
  <2>2. Len(spoken) = Len(script[Scene]) /\ Len(script[Scene]) # 0
    BY <1>0, <1>1 DEF GenerateSceneAudio
  <2>3. spoken # <<>>
    BY <2>2
  <2> DEFINE entries == Timeline(Sum(lengths))
             claims == Durations
             sound == audio.sound
             d == audio.duration
  <2>4. /\ sound \in Seq(Nat) /\ d \in Nat
        /\ \/ sound = Files[1] /\ d = Sum(claims)
           \/ sound = FlattenSeq(Files) /\ d \in {Sum(sound), Sum(claims)}
        /\ ~ffmpeg => d = Sum(claims)
    BY <2>3, SceneSound DEF TypeInv
  <2>5. claims \in Seq(Nat) /\ Len(claims) = Len(spoken)
    BY DurationsType DEF TypeInv
  <2>6. /\ entries \in Seq(Captions) /\ Len(entries) = Len(spoken)
        /\ \A i \in 1..Len(spoken) :
             /\ entries[i].start = Sum(lengths) + Totals(claims)[i - 1]
             /\ entries[i].end = entries[i].start + claims[i]
             /\ entries[i].scene = Scene
    <3>1. Sum(lengths) \in Nat
      BY SumType DEF TypeInv, TypeOK
    <3>2. QED
      BY <3>1, Entries DEF TypeInv
  <2>7. \A i \in 1..Len(spoken) : claims[i] # 0 /\ (~guessed => Files[i] = <<claims[i]>>)
    BY DEF ClaimInv, Durations, Files
  <2>8. ~guessed => /\ d = Sum(claims) /\ Len(sound) <= Len(claims)
                    /\ \A k \in 1..Len(sound) : sound[k] = claims[k]
    <3> SUFFICES ASSUME ~guessed
                 PROVE  /\ d = Sum(claims) /\ Len(sound) <= Len(claims)
                        /\ \A k \in 1..Len(sound) : sound[k] = claims[k]
      OBVIOUS
    <3>1. \A i \in 1..Len(claims) : Files[i] = <<claims[i]>>
      BY <2>5, <2>7
    <3>2. FlattenSeq(Files) = claims
      <4>1. Files \in Seq(Seq(Nat)) /\ Len(Files) = Len(claims)
        BY <2>5, FilesType DEF TypeInv
      <4> HIDE DEF claims
      <4>2. QED
        BY <2>5, <3>1, <4>1, Singles
    <3> HIDE DEF claims, sound, d
    <3>3. CASE sound = Files[1] /\ d = Sum(claims)
      <4>1. 1 \in 1..Len(claims) /\ claims[1] \in Nat
        BY <2>2, <2>5
      <4>2. sound = <<claims[1]>>
        BY <3>1, <3>3, <4>1
      <4>3. Len(sound) = 1 /\ sound[1] = claims[1]
        BY <4>2
      <4>4. \A k \in 1..Len(sound) : k = 1
        BY <4>3
      <4>5. QED
        BY <3>3, <4>1, <4>3, <4>4
    <3>4. CASE sound = FlattenSeq(Files) /\ d \in {Sum(sound), Sum(claims)}
      BY <2>5, <3>2, <3>4
    <3>5. QED
      BY <2>4, <3>3, <3>4
  <2>9. /\ sounds' = Append(sounds, sound) /\ lengths' = Append(lengths, d + Padding)
        /\ captions' = captions \o entries
        /\ UNCHANGED <<script, ffmpeg, track, srt, guessed>>
    BY <2>1 DEF EndScene
  <2> HIDE DEF claims, sound, d, entries
  <2>10. Consistent => d = Sum(claims)
    BY <2>4, <2>8 DEF Consistent
  <2>11. Adds(sound, d, claims, entries)
    BY <2>2, <2>5, <2>6, <2>7, <2>8, <2>9, <2>10 DEF Adds
  <2>12. QED
    BY <1>0, <2>4, <2>5, <2>6, <2>11
<1>2. CASE CreateSilentResult
  <2>1. /\ script[Scene] = <<>>
        /\ EndScene([sound |-> <<>>, duration |-> 0], <<>>)
    BY <1>2 DEF CreateSilentResult
  <2>2. /\ <<>> \in Seq(Nat) /\ <<>> \in Seq(Captions) /\ 0 \in Nat /\ Len(<<>>) = 0
        /\ \A i \in 1..Len(<<>>) : FALSE
    OBVIOUS
  <2>3. Adds(<<>>, 0, <<>>, <<>>)
    BY <2>1, <2>2, SumNone DEF Adds, EndScene
  <2>4. QED
    BY <1>0, <2>2, <2>3
<1>3. QED
  BY <1>1, <1>2

-----------------------------------------------------------------------------
(* The inductive invariant. *)

(* How many sentences the scenes up to the s-th have.                       *)
Before == Totals(Lens(script))

LEMMA BeforeDef ==
  ASSUME TypeInv
  PROVE  /\ Before \in [0..Len(script) -> Nat] /\ Before[0] = 0
         /\ \A s \in 1..Len(script) : Before[s] = Before[s - 1] + Len(script[s])
         /\ \A s \in 0..Len(script) : \A m \in s..Len(script) : Before[s] <= Before[m]
         /\ Before[Len(script)] = Sum(Lens(script))
<1> DEFINE L == Lens(script)
<1>1. /\ L \in Seq(Nat) /\ Len(L) = Len(script)
      /\ \A s \in 1..Len(script) : L[s] = Len(script[s])
  <2>1. script \in Seq(Seq(Nat))
    BY ScriptType DEF TypeInv, TypeOK
  <2>2. QED
    BY <2>1, LensType DEF Lens
<1>2. /\ Totals(L) \in [0..Len(L) -> Nat] /\ Totals(L)[0] = 0
      /\ \A s \in 1..Len(L) : Totals(L)[s] = Totals(L)[s - 1] + L[s]
  BY <1>1, TotalsDef
<1>3. \A s \in 0..Len(L) : \A m \in s..Len(L) : Totals(L)[s] <= Totals(L)[m]
  BY <1>1, TotalsUp
<1>4. Sum(L) = Totals(L)[Len(L)]
  BY DEF Sum
<1>5. Before = Totals(L)
  BY DEF Before
<1> HIDE DEF L
<1>6. QED
  BY <1>1, <1>2, <1>3, <1>4, <1>5 DEF L

(* How long each caption is shown.                                          *)
Shown == [i \in 1..Len(captions) |-> captions[i].end - captions[i].start]

(* The captions are those of the scenes that are over, in their order.      *)
CaptionInv ==
  /\ Len(captions) = Before[Len(sounds)]
  /\ \A s \in 1..Len(sounds) : \A k \in 1..Len(script[s]) :
       captions[Before[s - 1] + k].scene = s
  /\ \A i \in 1..Len(captions) :
       captions[i].start < captions[i].end /\ captions[i].scene \in 1..Len(sounds)
  /\ \A i \in 2..Len(captions) : captions[i - 1].scene <= captions[i].scene

(* Two clocks: captions lie one after another but for a padding after each  *)
(* scene, and so do the durations of the scenes.                            *)
ClockInv ==
  Consistent =>
    /\ \A i \in 1..Len(captions) :
         captions[i].start = Totals(Shown)[i - 1] + Padding * (captions[i].scene - 1)
    /\ Sum(lengths) = Sum(Shown) + Padding * Len(sounds)

(* What is heard of a scene are its first sentences, each for as long as    *)
(* its caption is shown.                                                    *)
SoundInv ==
  ~guessed =>
    \A s \in 1..Len(sounds) :
      /\ Len(sounds[s]) <= Len(script[s])
      /\ \A k \in 1..Len(sounds[s]) : sounds[s][k] = Shown[Before[s - 1] + k]

LEMMA CaptionsType ==
  ASSUME TypeInv
  PROVE  /\ captions \in Seq(Captions) /\ Len(captions) \in Nat
         /\ \A i \in 1..Len(captions) :
              captions[i].start \in Nat /\ captions[i].end \in Nat /\ captions[i].scene \in Nat
<1>1. captions \in Seq(Captions) /\ Len(captions) \in Nat
  BY DEF TypeInv, TypeOK
<1>2. \A i \in 1..Len(captions) : captions[i] \in Captions
  BY <1>1
<1>3. QED
  BY <1>1, <1>2 DEF Captions

LEMMA ShownType ==
  ASSUME TypeInv, CaptionInv
  PROVE  Shown \in Seq(Nat) /\ Len(Shown) = Len(captions)
<1>1. \A i \in 1..Len(captions) : captions[i].end - captions[i].start \in Nat
  <2>1. ASSUME NEW i \in 1..Len(captions) PROVE captions[i].end - captions[i].start \in Nat
    <3>1. captions[i].start < captions[i].end
      BY DEF CaptionInv
    <3>2. captions[i].start \in Nat /\ captions[i].end \in Nat
      BY CaptionsType
    <3>3. QED
      BY <3>1, <3>2
  <2>2. QED
    BY <2>1
<1>2. Len(captions) \in Nat
  BY CaptionsType
<1>3. QED
  BY <1>1, <1>2 DEF Shown

(* What a scene adds comes after what was there.                            *)
LEMMA After ==
  ASSUME TypeInv, TypeInv', CaptionInv, NEW sound \in Seq(Nat), NEW d \in Nat,
         NEW claims \in Seq(Nat), NEW entries \in Seq(Captions),
         Adds(sound, d, claims, entries)
  PROVE  /\ Len(captions') = Len(captions) + Len(claims)
         /\ \A i \in 1..Len(captions) : captions'[i] = captions[i]
         /\ \A i \in 1..Len(claims) : captions'[Len(captions) + i] = entries[i]
         /\ Shown' = Shown \o claims
         /\ Len(sounds') = Scene /\ Scene = Len(sounds) + 1 /\ Scene \in 1..Len(script)
         /\ script' = script /\ Before' = Before
         /\ Before[Scene - 1] = Len(captions) /\ Before[Scene] = Len(captions')
<1>1. /\ captions \in Seq(Captions) /\ Len(captions) \in Nat
      /\ captions' = captions \o entries /\ Len(entries) = Len(claims) /\ Len(claims) \in Nat
  BY CaptionsType DEF Adds
<1>2. /\ Len(captions') = Len(captions) + Len(claims)
      /\ \A i \in 1..Len(captions) : captions'[i] = captions[i]
      /\ \A i \in 1..Len(claims) : captions'[Len(captions) + i] = entries[i]
  <2> DEFINE c == captions \o entries
  <2>1. /\ Len(c) = Len(captions) + Len(entries)
        /\ \A i \in 1..Len(captions) : c[i] = captions[i]
        /\ \A i \in 1..Len(entries) : c[Len(captions) + i] = entries[i]
    <3>1. captions \in Seq(Captions) /\ entries \in Seq(Captions)
      BY <1>1
    <3>2. QED
      BY <3>1, Places
  <2> HIDE DEF c
  <2>2. captions' = c
    BY <1>1 DEF c
  <2>3. QED
    BY <1>1, <2>1, <2>2
<1>3. Shown' = Shown \o claims
  <2>1. Shown \in Seq(Nat) /\ Len(Shown) = Len(captions)
    BY ShownType
  <2> DEFINE n == Len(captions)
             m == Len(claims)
  <2>2. /\ Shown \o claims \in Seq(Nat) /\ Len(Shown \o claims) = n + m
        /\ \A i \in 1..n : (Shown \o claims)[i] = Shown[i]
        /\ \A i \in 1..m : (Shown \o claims)[n + i] = claims[i]
    <3> DEFINE c == Shown \o claims
    <3>1. /\ c \in Seq(Nat) /\ Len(c) = Len(Shown) + Len(claims)
          /\ \A i \in 1..Len(Shown) : c[i] = Shown[i]
          /\ \A i \in 1..Len(claims) : c[Len(Shown) + i] = claims[i]
      <4>1. Shown \in Seq(Nat) /\ claims \in Seq(Nat)
        BY <2>1
      <4>2. QED
        BY <4>1, Places
    <3> HIDE DEF c
    <3>2. QED
      BY <2>1, <3>1 DEF c
  <2>3. \A i \in 1..n : captions'[i].end - captions'[i].start = Shown[i]
    BY <1>2 DEF Shown
  <2>4. ASSUME NEW i \in 1..m
        PROVE  captions'[n + i].end - captions'[n + i].start = claims[i]
    <3>1. captions'[n + i] = entries[i] /\ entries[i] \in Captions /\ claims[i] \in Nat
      BY <1>1, <1>2
    <3>2. entries[i].end = entries[i].start + claims[i]
      BY DEF Adds
    <3>3. entries[i].start \in Nat
      BY <3>1 DEF Captions
    <3>4. QED
      BY <3>1, <3>2, <3>3
  <2>5. Shown' = [i \in 1..(n + m) |-> captions'[i].end - captions'[i].start]
    BY <1>2 DEF Shown
  <2> DEFINE now == [i \in 1..(n + m) |-> captions'[i].end - captions'[i].start]
             c == Shown \o claims
  <2> HIDE DEF n, m
  <2>6. n \in Nat /\ m \in Nat
    BY <1>1 DEF n, m
  <2>7. ASSUME NEW i \in 1..(n + m) PROVE captions'[i].end - captions'[i].start = c[i]
    <3>1. CASE i <= n
      <4>1. i \in 1..n
        BY <2>6, <3>1
      <4>2. QED
        BY <2>2, <2>3, <4>1, Zenon
    <3>2. CASE i > n
      <4>1. i - n \in 1..m /\ n + (i - n) = i
        BY <2>6, <3>2
      <4>2. captions'[n + (i - n)].end - captions'[n + (i - n)].start = c[n + (i - n)]
        BY <2>2, <2>4, <4>1, Zenon
      <4>3. QED
        BY <4>1, <4>2
    <3>3. i \in Int /\ n \in Int
      BY <2>6
    <3>4. i <= n \/ i > n
      BY <3>3
    <3>5. QED
      BY <3>1, <3>2, <3>4, Zenon
  <2>8. c \in Seq(Nat) /\ Len(c) = n + m
    BY <2>2
  <2> HIDE DEF c
  <2>9. now = c
    BY <2>7, <2>8
  <2>10. QED
    BY <2>5, <2>9 DEF c
<1>4. /\ Len(sounds') = Scene /\ Scene = Len(sounds) + 1 /\ Scene \in 1..Len(script)
      /\ script' = script
  <2>1. sounds \in Seq(Seq(Nat)) /\ sounds' = Append(sounds, sound) /\ script' = script
    BY DEF TypeInv, TypeOK, Adds
  <2>2. Len(sounds') <= Len(script')
    BY DEF TypeInv, ShapeInv
  <2>3. QED
    BY <2>1, <2>2 DEF Scene
<1>5. Before' = Before
  BY <1>4 DEF Before, Lens
<1>6. Before[Scene - 1] = Len(captions) /\ Before[Scene] = Len(captions')
  <2>1. Len(sounds) \in Nat /\ Scene - 1 = Len(sounds)
    BY <1>4 DEF TypeInv, TypeOK
  <2>2. Before[Scene - 1] = Len(captions)
    BY <2>1 DEF CaptionInv
  <2>3. Before[Scene] = Before[Scene - 1] + Len(script[Scene])
    BY <1>4, BeforeDef
  <2>4. Len(claims) = Len(script[Scene])
    BY DEF Adds
  <2>5. QED
    BY <1>2, <2>2, <2>3, <2>4
<1>7. QED
  BY <1>2, <1>3, <1>4, <1>5, <1>6

LEMMA Split ==
  ASSUME NEW n \in Nat, NEW m \in Nat, NEW i \in 1..(n + m)
  PROVE  i \in 1..n \/ \E j \in 1..m : i = n + j
<1>1. i > n => i - n \in 1..m /\ i = n + (i - n)
  OBVIOUS
<1>2. QED
  BY <1>1

LEMMA CaptionScene ==
  ASSUME TypeInv, TypeInv', ClaimInv, CaptionInv, GenerateSceneAudio \/ CreateSilentResult
  PROVE  CaptionInv'
<1>1. PICK sound \in Seq(Nat), d \in Nat, claims \in Seq(Nat), entries \in Seq(Captions) :
        Adds(sound, d, claims, entries)
  BY SceneAdds
<1> DEFINE n == Len(captions)
           m == Len(claims)
           q == Len(sounds)
<1>2. /\ Len(captions') = n + m /\ n \in Nat /\ m \in Nat
      /\ \A i \in 1..n : captions'[i] = captions[i]
      /\ \A i \in 1..m : captions'[n + i] = entries[i]
      /\ Len(sounds') = Scene /\ Scene = q + 1 /\ Scene \in 1..Len(script) /\ q \in Nat
      /\ script' = script /\ Before' = Before
      /\ Before[Scene - 1] = n /\ Before[Scene] = Len(captions')
  <2>1. n \in Nat /\ m \in Nat /\ q \in Nat
    BY CaptionsType DEF TypeInv, TypeOK
  <2>2. QED
    BY <1>1, <2>1, After
<1>3. \A i \in 1..m : /\ entries[i].start < entries[i].end /\ entries[i].scene = Scene
  <2>1. ASSUME NEW i \in 1..m PROVE entries[i].start < entries[i].end /\ entries[i].scene = Scene
    <3>1. /\ entries[i].end = entries[i].start + claims[i] /\ entries[i].scene = Scene
          /\ claims[i] # 0 /\ claims[i] \in Nat /\ Len(entries) = m
      <4>1. /\ Len(entries) = m
            /\ \A j \in 1..m : /\ entries[j].end = entries[j].start + claims[j]
                              /\ entries[j].scene = Scene /\ claims[j] # 0
        BY <1>1 DEF Adds
      <4>2. claims[i] \in Nat
        OBVIOUS
      <4>3. QED
        BY <4>1, <4>2
    <3>2. entries[i] \in Captions
      BY <3>1
    <3>3. entries[i].start \in Nat
      BY <3>2 DEF Captions
    <3>4. QED
      BY <3>1, <3>3
  <2>2. QED
    BY <2>1
<1>4. /\ n = Before[q]
      /\ \A s \in 1..q : \A k \in 1..Len(script[s]) : captions[Before[s - 1] + k].scene = s
      /\ \A i \in 1..n : captions[i].start < captions[i].end /\ captions[i].scene \in 1..q
      /\ \A i \in 2..n : captions[i - 1].scene <= captions[i].scene
  BY DEF CaptionInv
<1>5. Len(script[Scene]) = m
  BY <1>1 DEF Adds
<1>6. /\ Before \in [0..Len(script) -> Nat] /\ Len(script) \in Nat
      /\ \A s \in 1..Len(script) : /\ Before[s] = Before[s - 1] + Len(script[s])
                                   /\ Len(script[s]) \in Nat
      /\ \A s \in 0..Len(script) : \A x \in s..Len(script) : Before[s] <= Before[x]
  <2>1. script \in Seq(Seq(Nat))
    BY ScriptType DEF TypeInv, TypeOK
  <2>2. \A s \in 1..Len(script) : Len(script[s]) \in Nat
    BY <2>1
  <2>3. QED
    BY <2>1, <2>2, BeforeDef
<1> HIDE DEF n, m, q
<1>7. ASSUME NEW s \in 1..Scene, NEW k \in 1..Len(script[s])
      PROVE  captions'[Before[s - 1] + k].scene = s
  <2>1. CASE s = Scene
    <3>1. k \in 1..m /\ Before[s - 1] = n
      BY <1>2, <1>5, <2>1
    <3>2. QED
      BY <1>2, <1>3, <2>1, <3>1
  <2>2. CASE s # Scene
    <3>1. s \in 1..q /\ s \in 1..Len(script) /\ s - 1 \in 0..Len(script)
          /\ s \in 0..Len(script) /\ q \in s..Len(script)
      BY <1>2, <1>6, <2>2
    <3>2. /\ Before[s] = Before[s - 1] + Len(script[s]) /\ Len(script[s]) \in Nat
          /\ Before[s] <= n /\ Before[s - 1] \in Nat
      BY <1>4, <1>6, <3>1
    <3>3. Before[s - 1] + k \in 1..n
      <4>1. n \in Nat
        BY <1>2
      <4>2. Before[s - 1] + Len(script[s]) <= n
        BY <3>2
      <4>3. QED
        BY <3>2, <4>1, <4>2, Within
    <3>4. captions[Before[s - 1] + k].scene = s
      BY <1>4, <3>1
    <3>5. QED
      BY <1>2, <3>3, <3>4
  <2>3. QED
    BY <2>1, <2>2
<1>8. ASSUME NEW i \in 1..(n + m)
      PROVE  captions'[i].start < captions'[i].end /\ captions'[i].scene \in 1..Scene
  <2>1. CASE i \in 1..n
    <3>1. /\ captions'[i] = captions[i] /\ captions[i].start < captions[i].end
          /\ captions[i].scene \in 1..q
      BY <1>2, <1>4, <2>1
    <3>2. captions[i].scene \in 1..Scene
      BY <1>2, <3>1
    <3>3. QED
      BY <3>1, <3>2
  <2>2. ASSUME NEW j \in 1..m, i = n + j
        PROVE  captions'[i].start < captions'[i].end /\ captions'[i].scene \in 1..Scene
    <3>1. captions'[i] = entries[j] /\ Scene \in 1..Scene
      BY <1>2, <2>2
    <3>2. QED
      BY <1>3, <3>1
  <2>3. i \in 1..n \/ \E j \in 1..m : i = n + j
    BY <1>2, Split
  <2>4. QED
    BY <2>1, <2>2, <2>3
<1>9. ASSUME NEW i \in 2..(n + m) PROVE captions'[i - 1].scene <= captions'[i].scene
  <2>1. CASE i \in 1..n
    <3>1. i \in 2..n /\ i - 1 \in 1..n
      BY <1>2, <2>1
    <3>2. captions'[i - 1] = captions[i - 1] /\ captions'[i] = captions[i]
      BY <1>2, <3>1, <2>1
    <3>3. QED
      BY <1>4, <3>1, <3>2
  <2>2. ASSUME NEW j \in 1..m, i = n + j PROVE captions'[i - 1].scene <= captions'[i].scene
    <3>1. captions'[i].scene = Scene
      BY <1>2, <1>3, <2>2
    <3>2. i - 1 \in 1..(n + m)
      BY <1>2
    <3>3. captions'[i - 1].scene \in 1..Scene
      BY <1>8, <3>2
    <3>4. QED
      BY <1>2, <3>1, <3>3
  <2>3. i \in 1..(n + m)
    BY <1>2
  <2>4. i \in 1..n \/ \E j \in 1..m : i = n + j
    BY <1>2, <2>3, Split
  <2>5. QED
    BY <2>1, <2>2, <2>4
<1>10. QED
  BY <1>2, <1>7, <1>8, <1>9 DEF CaptionInv

LEMMA CaptionStep ==
  TypeInv /\ TypeInv' /\ ClaimInv /\ CaptionInv /\ [Next]_vars => CaptionInv'
<1> SUFFICES ASSUME TypeInv, TypeInv', ClaimInv, CaptionInv, [Next]_vars PROVE CaptionInv'
  OBVIOUS
<1>1. CASE GenerateSceneAudio \/ CreateSilentResult
  BY <1>1, CaptionScene
<1>2. CASE GenerateSentenceAudio \/ ConcatSceneAudios \/ GenerateSubtitle \/ UNCHANGED vars
  <2>1. UNCHANGED <<script, sounds, captions>>
    BY <1>2 DEF GenerateSentenceAudio, ConcatSceneAudios, GenerateSubtitle, vars
  <2>2. QED
    BY <2>1 DEF CaptionInv, Before, Lens
<1>3. QED
  BY <1>1, <1>2 DEF Next

LEMMA ClockScene ==
  ASSUME TypeInv, TypeInv', ClaimInv, CaptionInv, ClockInv,
         GenerateSceneAudio \/ CreateSilentResult
  PROVE  ClockInv'
<1> SUFFICES ASSUME Consistent'
             PROVE  /\ \A i \in 1..Len(captions') :
                         captions'[i].start
                           = Totals(Shown')[i - 1] + Padding * (captions'[i].scene - 1)
                    /\ Sum(lengths') = Sum(Shown') + Padding * Len(sounds')
  BY DEF ClockInv
<1>1. PICK sound \in Seq(Nat), d \in Nat, claims \in Seq(Nat), entries \in Seq(Captions) :
        Adds(sound, d, claims, entries)
  BY SceneAdds
<1>2. Consistent /\ d = Sum(claims) /\ lengths' = Append(lengths, d + Padding)
  BY <1>1 DEF Adds, Consistent
<1> DEFINE n == Len(captions)
           m == Len(claims)
           q == Len(sounds)
<1>3. /\ n \in Nat /\ m \in Nat /\ q \in Nat /\ Padding \in Nat /\ d \in Nat
      /\ lengths \in Seq(Nat)
  <2>1. n \in Nat
    BY CaptionsType
  <2>2. q \in Nat /\ lengths \in Seq(Nat)
    BY DEF TypeInv, TypeOK
  <2>3. m \in Nat /\ Padding \in Nat
    BY SceneAudioAssumption
  <2>4. QED
    BY <2>1, <2>2, <2>3
<1>4. /\ Len(captions') = n + m
      /\ \A i \in 1..n : captions'[i] = captions[i]
      /\ \A i \in 1..m : captions'[n + i] = entries[i]
      /\ Shown' = Shown \o claims
      /\ Len(sounds') = q + 1 /\ Scene = q + 1
  BY <1>1, After
<1>5. Shown \in Seq(Nat) /\ Len(Shown) = n /\ Sum(Shown) \in Nat
  BY ShownType, SumType
<1>6. /\ \A i \in 0..n : Totals(Shown')[i] = Totals(Shown)[i]
      /\ \A i \in 0..m : Totals(Shown')[n + i] = Sum(Shown) + Totals(claims)[i]
      /\ Sum(Shown') = Sum(Shown) + Sum(claims)
  <2>1. /\ \A i \in 0..Len(Shown) : Totals(Shown \o claims)[i] = Totals(Shown)[i]
        /\ \A i \in 0..Len(claims) :
             Totals(Shown \o claims)[Len(Shown) + i] = Sum(Shown) + Totals(claims)[i]
        /\ Sum(Shown \o claims) = Sum(Shown) + Sum(claims)
    BY <1>5, TotalsConcat
  <2>2. QED
    BY <1>4, <1>5, <2>1
<1>7. \A i \in 1..m : /\ entries[i].start = Sum(lengths) + Totals(claims)[i - 1]
                      /\ entries[i].scene = Scene
  BY <1>1 DEF Adds
<1>8. \A i \in 0..m : Totals(claims)[i] \in Nat
  BY TotalsDef
<1>9. /\ \A i \in 1..n : captions[i].start = Totals(Shown)[i - 1] + Padding * (captions[i].scene - 1)
      /\ Sum(lengths) = Sum(Shown) + Padding * q
  BY <1>2 DEF ClockInv
<1>10. Padding * q \in Nat /\ Padding * (q + 1) = Padding * q + Padding
  BY <1>3
<1> HIDE DEF n, m, q
<1>11. ASSUME NEW i \in 1..(n + m)
       PROVE  captions'[i].start = Totals(Shown')[i - 1] + Padding * (captions'[i].scene - 1)
  <2>1. CASE i \in 1..n
    <3>1. i - 1 \in 0..n
      BY <1>3, <2>1
    <3>2. Totals(Shown')[i - 1] = Totals(Shown)[i - 1] /\ captions'[i] = captions[i]
      BY <1>4, <1>6, <2>1, <3>1
    <3>3. QED
      BY <1>9, <2>1, <3>2
  <2>2. ASSUME NEW j \in 1..m, i = n + j
        PROVE  captions'[i].start = Totals(Shown')[i - 1] + Padding * (captions'[i].scene - 1)
    <3>1. j - 1 \in 0..m /\ i - 1 = n + (j - 1)
      BY <1>3, <2>2
    <3>2. Totals(Shown')[i - 1] = Sum(Shown) + Totals(claims)[j - 1] /\ Totals(claims)[j - 1] \in Nat
      BY <1>6, <1>8, <3>1
    <3>3. /\ captions'[i].start = Sum(lengths) + Totals(claims)[j - 1]
          /\ captions'[i].scene = q + 1
      BY <1>4, <1>7, <2>2
    <3>4. (q + 1) - 1 = q
      BY <1>3
    <3>5. captions'[i].start = (Sum(Shown) + Padding * q) + Totals(claims)[j - 1]
      BY <1>9, <3>3
    <3>6. captions'[i].start = (Sum(Shown) + Totals(claims)[j - 1]) + Padding * q
      <4> DEFINE u == Padding * q
                 v == Sum(Shown)
                 w == Totals(claims)[j - 1]
      <4>1. u \in Nat /\ v \in Nat /\ w \in Nat
        BY <1>5, <1>10, <3>2
      <4>2. captions'[i].start = (v + u) + w
        BY <3>5
      <4> HIDE DEF u, v, w
      <4>3. captions'[i].start = (v + w) + u
        BY <4>1, <4>2
      <4>4. QED
        BY <4>3 DEF u, v, w
    <3>7. QED
      BY <3>2, <3>3, <3>4, <3>6
  <2>3. i \in 1..n \/ \E j \in 1..m : i = n + j
    BY <1>3, Split
  <2>4. QED
    BY <2>1, <2>2, <2>3
<1>12. Sum(lengths') = Sum(Shown') + Padding * Len(sounds')
  <2>1. Sum(lengths') = Sum(lengths) + (d + Padding)
    <3>1. d + Padding \in Nat
      BY <1>3
    <3>2. QED
      BY <1>2, <1>3, <3>1, SumAppend
  <2> DEFINE u == Padding * q
             v == Sum(Shown)
             w == Padding * (q + 1)
  <2>2. /\ u \in Nat /\ v \in Nat /\ d \in Nat /\ Padding \in Nat
        /\ Sum(lengths') = (v + u) + (d + Padding)
        /\ Sum(Shown') = v + d /\ w = u + Padding
    BY <1>2, <1>3, <1>5, <1>6, <1>9, <1>10, <2>1
  <2> HIDE DEF u, v, w
  <2>3. Sum(lengths') = (v + d) + w
    BY <2>2
  <2>4. QED
    BY <1>4, <2>2, <2>3 DEF w
<1>13. QED
  BY <1>4, <1>11, <1>12

LEMMA SoundScene ==
  ASSUME TypeInv, TypeInv', ClaimInv, CaptionInv, SoundInv,
         GenerateSceneAudio \/ CreateSilentResult
  PROVE  SoundInv'
<1> SUFFICES ASSUME ~guessed', NEW s \in 1..Len(sounds')
             PROVE  /\ Len(sounds'[s]) <= Len(script'[s])
                    /\ \A k \in 1..Len(sounds'[s]) : sounds'[s][k] = Shown'[Before'[s - 1] + k]
  BY DEF SoundInv
<1>1. PICK sound \in Seq(Nat), d \in Nat, claims \in Seq(Nat), entries \in Seq(Captions) :
        Adds(sound, d, claims, entries)
  BY SceneAdds
<1>2. /\ ~guessed /\ sounds' = Append(sounds, sound) /\ Len(claims) = Len(script[Scene])
      /\ Len(sound) <= Len(claims) /\ \A k \in 1..Len(sound) : sound[k] = claims[k]
  BY <1>1 DEF Adds
<1> DEFINE n == Len(captions)
           q == Len(sounds)
<1>3. n \in Nat /\ q \in Nat /\ sounds \in Seq(Seq(Nat))
  BY CaptionsType DEF TypeInv, TypeOK
<1>4. /\ Shown' = Shown \o claims /\ Scene = q + 1 /\ Len(sounds') = q + 1
      /\ Scene \in 1..Len(script) /\ script' = script /\ Before' = Before
      /\ Before[Scene - 1] = n
  BY <1>1, After
<1>5. Shown \in Seq(Nat) /\ Len(Shown) = n
  BY ShownType
<1>6. /\ \A i \in 1..n : Shown'[i] = Shown[i]
      /\ \A i \in 1..Len(claims) : Shown'[n + i] = claims[i]
  <2>1. /\ \A i \in 1..Len(Shown) : (Shown \o claims)[i] = Shown[i]
        /\ \A i \in 1..Len(claims) : (Shown \o claims)[Len(Shown) + i] = claims[i]
    <3>1. Shown \in Seq(Nat) /\ claims \in Seq(Nat)
      BY <1>5
    <3>2. QED
      BY <3>1, Places
  <2>2. QED
    BY <1>4, <1>5, <2>1
<1>7. CASE s = Scene
  <2>1. sounds'[s] = sound
    BY <1>2, <1>3, <1>4, <1>7
  <2>2. ASSUME NEW k \in 1..Len(sound) PROVE sound[k] = Shown'[Before'[s - 1] + k]
    <3>1. k \in 1..Len(claims)
      BY <1>2
    <3>2. QED
      BY <1>2, <1>4, <1>6, <1>7, <3>1
  <2>3. Len(sound) <= Len(script'[s])
    BY <1>2, <1>4, <1>7
  <2>4. QED
    BY <2>1, <2>2, <2>3
<1>8. CASE s # Scene
  <2>1. s \in 1..q /\ sounds'[s] = sounds[s]
    BY <1>2, <1>3, <1>4, <1>8
  <2>2. /\ Len(sounds[s]) <= Len(script[s])
        /\ \A k \in 1..Len(sounds[s]) : sounds[s][k] = Shown[Before[s - 1] + k]
    BY <1>2, <2>1 DEF SoundInv
  <2>3. ASSUME NEW k \in 1..Len(sounds[s]) PROVE Before[s - 1] + k \in 1..n
    <3>1. /\ s \in 1..Len(script) /\ s - 1 \in 0..Len(script)
          /\ s \in 0..Len(script) /\ q \in s..Len(script)
      <4>1. Len(script) \in Nat
        BY ScriptType DEF TypeInv, TypeOK
      <4>2. s \in Nat /\ 1 <= s /\ s <= q /\ q \in Nat /\ q + 1 <= Len(script)
        BY <1>3, <1>4, <2>1
      <4> HIDE DEF n, q
      <4>3. QED
        BY <4>1, <4>2
    <3>2. Before[s] = Before[s - 1] + Len(script[s]) /\ Before[s] <= Before[q] /\ Before[s - 1] \in Nat
      BY <3>1, BeforeDef
    <3>3. Before[q] = n
      BY DEF CaptionInv
    <3>4. Len(script[s]) \in Nat
      <4>1. script \in Seq(Seq(Nat))
        BY ScriptType DEF TypeInv, TypeOK
      <4>2. QED
        BY <3>1, <4>1
    <3>5. k \in 1..Len(script[s])
      <4>1. sounds[s] \in Seq(Nat)
        BY <1>3, <2>1
      <4>2. QED
        BY <2>2, <3>4, <4>1
    <3>6. Before[s - 1] + Len(script[s]) <= n
      BY <3>2, <3>3
    <3> HIDE DEF n, q
    <3>7. QED
      BY <1>3, <3>2, <3>4, <3>5, <3>6, Within
  <2>4. QED
    BY <1>4, <1>6, <2>1, <2>2, <2>3
<1>9. QED
  BY <1>7, <1>8

LEMMA ClockStep ==
  TypeInv /\ TypeInv' /\ ClaimInv /\ CaptionInv /\ ClockInv /\ SoundInv /\ [Next]_vars
    => ClockInv' /\ SoundInv'
<1> SUFFICES ASSUME TypeInv, TypeInv', ClaimInv, CaptionInv, ClockInv, SoundInv, [Next]_vars
             PROVE  ClockInv' /\ SoundInv'
  OBVIOUS
<1>1. CASE GenerateSceneAudio \/ CreateSilentResult
  BY <1>1, ClockScene, SoundScene
<1>2. CASE GenerateSentenceAudio \/ ConcatSceneAudios \/ GenerateSubtitle \/ UNCHANGED vars
  <2>1. UNCHANGED <<script, ffmpeg, sounds, lengths, captions>>
    BY <1>2 DEF GenerateSentenceAudio, ConcatSceneAudios, GenerateSubtitle, vars
  <2>2. ~guessed' => ~guessed
    <3>1. CASE GenerateSentenceAudio
      BY <3>1 DEF GenerateSentenceAudio, Speak, Substitute
    <3>2. CASE ConcatSceneAudios \/ GenerateSubtitle \/ UNCHANGED vars
      BY <3>2 DEF ConcatSceneAudios, GenerateSubtitle, vars
    <3>3. QED
      BY <1>2, <3>1, <3>2
  <2>3. Shown' = Shown /\ Before' = Before
    BY <2>1 DEF Shown, Before, Lens
  <2>4. ClockInv'
    <3>1. Consistent' => Consistent
      BY <2>1, <2>2 DEF Consistent
    <3>2. QED
      BY <2>1, <2>3, <3>1 DEF ClockInv
  <2>5. SoundInv'
    BY <2>1, <2>2, <2>3 DEF SoundInv
  <2>6. QED
    BY <2>4, <2>5
<1>3. QED
  BY <1>1, <1>2 DEF Next

(* The track is the first scene's sound or that of all scenes.              *)
TrackInv ==
  pc \in {"subtitle", "done"} => track = sounds[1] \/ track = FlattenSeq(sounds)

Share == Sum(lengths) \div Len(script)

Shared == [i \in 1..Len(script) |-> [start |-> (i - 1) * Share, end |-> i * Share, scene |-> i]]

SrtInv == pc = "done" => srt = IF captions # <<>> THEN captions ELSE Shared

LEMMA FileStep == TypeInv /\ TrackInv /\ SrtInv /\ [Next]_vars => TrackInv' /\ SrtInv'
<1> SUFFICES ASSUME TypeInv, TrackInv, SrtInv, [Next]_vars PROVE TrackInv' /\ SrtInv'
  OBVIOUS
<1>1. CASE GenerateSceneAudio \/ CreateSilentResult
  <2>1. pc' \in {"scenes", "join"}
    BY <1>1 DEF GenerateSceneAudio, CreateSilentResult, EndScene
  <2>2. QED
    BY <2>1 DEF TrackInv, SrtInv
<1>2. CASE GenerateSentenceAudio
  <2>1. pc' = "scenes"
    BY <1>2 DEF GenerateSentenceAudio
  <2>2. QED
    BY <2>1 DEF TrackInv, SrtInv
<1>3. CASE ConcatSceneAudios
  <2>1. pc = "join" /\ pc' = "subtitle" /\ sounds' = sounds
    BY <1>3 DEF ConcatSceneAudios
  <2>2. PICK j \in Joined(sounds) : track' = j.sound
    BY <1>3 DEF ConcatSceneAudios
  <2>3. sounds \in Seq(Seq(Nat)) /\ sounds # <<>>
    <3>1. script \in Seq(Seq(Nat)) /\ Len(script) \in Nat \ {0}
      BY ScriptType DEF TypeInv, TypeOK
    <3>2. Len(sounds) # 0 /\ sounds \in Seq(Seq(Nat))
      BY <2>1, <3>1 DEF TypeInv, TypeOK, ShapeInv
    <3>3. QED
      BY <3>2
  <2>4. track' = sounds[1] \/ track' = FlattenSeq(sounds)
    BY <2>2, <2>3, JoinedSound
  <2>5. QED
    BY <2>1, <2>4 DEF TrackInv, SrtInv
<1>4. CASE GenerateSubtitle
  <2>1. /\ pc = "subtitle" /\ pc' = "done"
        /\ UNCHANGED <<script, sounds, lengths, captions, track>>
        /\ srt' = IF captions # <<>> THEN captions ELSE Shared
    BY <1>4 DEF GenerateSubtitle, Shared, Share
  <2>2. Shared' = Shared
    BY <2>1 DEF Shared, Share
  <2>3. QED
    BY <2>1, <2>2 DEF TrackInv, SrtInv
<1>5. CASE UNCHANGED vars
  BY <1>5 DEF vars, TrackInv, SrtInv, Shared, Share
<1>6. QED
  BY <1>1, <1>2, <1>3, <1>4, <1>5 DEF Next

IInv ==
  /\ TypeInv
  /\ ClaimInv
  /\ CaptionInv
  /\ ClockInv
  /\ SoundInv
  /\ TrackInv
  /\ SrtInv

LEMMA Start == Init => IInv
<1> SUFFICES ASSUME Init PROVE IInv
  OBVIOUS
<1>1. TypeInv
  BY TypeStart
<1>2. /\ spoken = <<>> /\ sounds = <<>> /\ lengths = <<>> /\ captions = <<>> /\ pc = "scenes"
      /\ Len(<<>>) = 0 /\ \A i \in 1..0 : FALSE
  BY DEF Init
<1>3. CaptionInv
  BY <1>1, <1>2, BeforeDef DEF CaptionInv
<1>4. ClockInv
  <2>1. Shown = <<>>
    BY <1>2 DEF Shown
  <2>2. Padding * 0 = 0
    BY SceneAudioAssumption
  <2>3. Sum(lengths) = Sum(Shown) + Padding * Len(sounds)
    BY <1>2, <2>1, <2>2, SumNone
  <2>4. QED
    BY <1>2, <2>3 DEF ClockInv
<1>5. ClaimInv /\ SoundInv
  BY <1>2 DEF ClaimInv, SoundInv
<1>6. TrackInv /\ SrtInv
  BY <1>2 DEF TrackInv, SrtInv
<1>7. QED
  BY <1>1, <1>3, <1>4, <1>5, <1>6 DEF IInv

LEMMA Step == IInv /\ [Next]_vars => IInv'
<1> SUFFICES ASSUME IInv, [Next]_vars PROVE IInv'
  OBVIOUS
<1>1. TypeInv'
  BY TypeStep DEF IInv
<1>2. QED
  BY <1>1, ClaimStep, CaptionStep, ClockStep, FileStep DEF IInv

LEMMA Always == Spec => []IInv
BY Start, Step, PTL DEF Spec

-----------------------------------------------------------------------------
(* The properties. *)

(* The captions are, scene after scene, as many as its sentences.           *)
LEMMA EveryCaption ==
  ASSUME IInv, pc = "done"
  PROVE  [i \in 1..Len(captions) |-> captions[i].scene]
           = FlattenSeq([s \in 1..Len(script) |-> [k \in 1..Len(script[s]) |-> s]])
<1> DEFINE q == [s \in 1..Len(script) |-> [k \in 1..Len(script[s]) |-> s]]
           f == FlattenSeq(q)
           n == Len(captions)
<1>1. /\ script \in Seq(Seq(Nat)) /\ Len(script) \in Nat
      /\ \A s \in 1..Len(script) : Len(script[s]) \in Nat
  <2>1. script \in Seq(Seq(Nat)) /\ Len(script) \in Nat
    BY ScriptType DEF IInv, TypeInv, TypeOK
  <2>2. QED
    BY <2>1
<1>2. /\ q \in Seq(Seq(Nat)) /\ Len(q) = Len(script)
      /\ \A s \in 1..Len(script) :
           /\ Len(q[s]) = Len(script[s])
           /\ \A k \in 1..Len(script[s]) : q[s][k] = s
  <2>1. ASSUME NEW s \in 1..Len(script)
        PROVE  /\ [k \in 1..Len(script[s]) |-> s] \in Seq(Nat)
               /\ Len([k \in 1..Len(script[s]) |-> s]) = Len(script[s])
    <3> DEFINE m == Len(script[s])
    <3>1. m \in Nat /\ s \in Nat
      BY <1>1
    <3> HIDE DEF m
    <3>2. [k \in 1..m |-> s] \in Seq(Nat) /\ Len([k \in 1..m |-> s]) = m
      BY <3>1
    <3>3. QED
      BY <3>2 DEF m
  <2>2. q \in Seq(Seq(Nat)) /\ Len(q) = Len(script)
    BY <1>1, <2>1
  <2>3. QED
    BY <2>1, <2>2
<1>3. Lens(q) = Lens(script)
  BY <1>2 DEF Lens
<1>4. /\ f \in Seq(Nat) /\ Len(f) = Sum(Lens(script))
      /\ \A s \in 1..Len(script) : \A k \in 1..Len(script[s]) : f[Before[s - 1] + k] = s
  <2> HIDE DEF q
  <2>1. /\ f \in Seq(Nat) /\ Len(f) = Sum(Lens(q))
        /\ \A s \in 1..Len(q) : \A k \in 1..Len(q[s]) : f[Totals(Lens(q))[s - 1] + k] = q[s][k]
    BY <1>2, Flatten
  <2>2. Totals(Lens(q)) = Before
    BY <1>3 DEF Before
  <2> HIDE DEF f
  <2>3. ASSUME NEW s \in 1..Len(script), NEW k \in 1..Len(script[s]) PROVE f[Before[s - 1] + k] = s
    <3>1. s \in 1..Len(q) /\ k \in 1..Len(q[s]) /\ q[s][k] = s
      BY <1>2
    <3>2. QED
      BY <2>1, <2>2, <3>1
  <2>4. QED
    BY <1>3, <2>1, <2>3
<1>5. n = Sum(Lens(script))
  <2>1. Len(sounds) = Len(script)
    BY DEF IInv, TypeInv, ShapeInv
  <2>2. QED
    BY <2>1, BeforeDef DEF IInv, CaptionInv
<1>6. \A s \in 1..Len(script) : \A k \in 1..Len(script[s]) : captions[Before[s - 1] + k].scene = s
  BY DEF IInv, CaptionInv, TypeInv, ShapeInv
<1> HIDE DEF f, n
<1>7. ASSUME NEW p \in 1..n PROVE captions[p].scene = f[p]
  <2>1. Lens(script) \in Seq(Nat) /\ Len(Lens(script)) = Len(script)
    BY <1>1, LensType
  <2>2. PICK s \in 1..Len(script) : \E k \in 1..Lens(script)[s] : p = Before[s - 1] + k
    BY <1>5, <2>1, Located DEF Before
  <2>3. PICK k \in 1..Len(script[s]) : p = Before[s - 1] + k
    BY <2>2 DEF Lens
  <2>4. QED
    BY <1>4, <1>6, <2>3
<1>8. [i \in 1..n |-> captions[i].scene] = f
  BY <1>4, <1>5, <1>7
<1>9. QED
  BY <1>8 DEF n, f

(* One caption after another, to the end of the video.                      *)
LEMMA InTime ==
  ASSUME IInv, pc = "done", Consistent, captions # <<>>
  PROVE  /\ \A i \in 1..Len(captions) : captions[i].start < captions[i].end
         /\ \A i \in 2..Len(captions) : captions[i - 1].end <= captions[i].start
         /\ captions[Len(captions)].end <= Sum(lengths)
<1> DEFINE n == Len(captions)
           q == Len(sounds)
           t == Totals(Shown)
           gap(i) == Padding * (captions[i].scene - 1)
<1>1. n \in Nat /\ n # 0 /\ q \in Nat /\ Padding \in Nat
  <2>1. n \in Nat /\ captions \in Seq(Captions)
    BY CaptionsType DEF IInv
  <2>2. q \in Nat
    BY DEF IInv, TypeInv, TypeOK
  <2>3. QED
    BY <2>1, <2>2, SceneAudioAssumption
<1>2. Shown \in Seq(Nat) /\ Len(Shown) = n
  BY ShownType DEF IInv
<1>3. /\ t \in [0..n -> Nat] /\ Sum(Shown) = t[n]
      /\ \A i \in 1..n : t[i] = t[i - 1] + Shown[i] /\ Shown[i] \in Nat
  BY <1>2, TotalsDef DEF Sum
<1>4. /\ \A i \in 1..n : captions[i].start = t[i - 1] + gap(i)
      /\ Sum(lengths) = t[n] + Padding * q
  BY <1>3 DEF IInv, ClockInv
<1>5. /\ \A i \in 1..n : /\ captions[i].start < captions[i].end
                         /\ captions[i].scene \in 1..q
      /\ \A i \in 2..n : captions[i - 1].scene <= captions[i].scene
  BY DEF IInv, CaptionInv
<1>6. \A i \in 1..n : captions[i].end \in Nat /\ captions[i].start \in Nat
  BY CaptionsType DEF IInv
<1>7. \A i \in 1..n : gap(i) \in Nat /\ gap(i) <= Padding * q
  <2>1. ASSUME NEW c \in 1..q PROVE Padding * (c - 1) \in Nat /\ Padding * (c - 1) <= Padding * q
    <3>1. c - 1 \in Nat /\ q - (c - 1) \in Nat /\ c - 1 + (q - (c - 1)) = q
      BY <1>1
    <3>2. Padding * (c - 1) \in Nat /\ Padding * (q - (c - 1)) \in Nat
      BY <1>1, <3>1
    <3>3. Padding * q = Padding * (c - 1) + Padding * (q - (c - 1))
      BY <1>1, <3>1
    <3>4. QED
      BY <3>2, <3>3
  <2>2. QED
    BY <1>5, <2>1
<1>8. \A i \in 2..n : gap(i - 1) <= gap(i)
  <2>1. ASSUME NEW c \in 1..q, NEW e \in 1..q, c <= e
        PROVE  Padding * (c - 1) <= Padding * (e - 1)
    <3>1. c - 1 \in Nat /\ e - c \in Nat /\ e - 1 = (c - 1) + (e - c)
      BY <1>1, <2>1
    <3>2. Padding * (c - 1) \in Nat /\ Padding * (e - c) \in Nat
      BY <1>1, <3>1
    <3>3. Padding * (e - 1) = Padding * (c - 1) + Padding * (e - c)
      BY <1>1, <3>1
    <3>4. QED
      BY <3>2, <3>3
  <2>2. ASSUME NEW i \in 2..n PROVE gap(i - 1) <= gap(i)
    <3>1. i - 1 \in 1..n /\ i \in 1..n
      BY <1>1
    <3>2. QED
      BY <1>5, <2>1, <3>1
  <2>3. QED
    BY <2>2
<1>9. \A i \in 1..n : captions[i].end = t[i] + gap(i)
  <2>1. ASSUME NEW i \in 1..n PROVE captions[i].end = t[i] + gap(i)
    <3>1. Shown[i] = captions[i].end - captions[i].start
      BY DEF Shown
    <3>2. t[i] = t[i - 1] + Shown[i] /\ t[i - 1] \in Nat /\ gap(i) \in Nat
      BY <1>1, <1>3, <1>7
    <3>3. captions[i].start = t[i - 1] + gap(i)
      BY <1>4
    <3>4. captions[i].end \in Nat /\ captions[i].start \in Nat
      BY <1>6
    <3> HIDE DEF t, gap
    <3>5. QED
      BY <3>1, <3>2, <3>3, <3>4
  <2>2. QED
    BY <2>1
<1> HIDE DEF n, q, t, gap
<1>10. ASSUME NEW i \in 2..n PROVE captions[i - 1].end <= captions[i].start
  <2>1. i - 1 \in 1..n /\ i \in 1..n /\ i - 1 \in 0..n
    BY <1>1
  <2>2. captions[i - 1].end = t[i - 1] + gap(i - 1) /\ captions[i].start = t[i - 1] + gap(i)
    BY <1>4, <1>9, <2>1
  <2>3. gap(i - 1) <= gap(i) /\ gap(i - 1) \in Nat /\ gap(i) \in Nat /\ t[i - 1] \in Nat
    BY <1>3, <1>7, <1>8, <2>1
  <2>4. QED
    BY <2>2, <2>3
<1>11. captions[n].end <= Sum(lengths)
  <2>1. n \in 1..n /\ n \in 0..n
    BY <1>1
  <2>2. /\ captions[n].end = t[n] + gap(n) /\ gap(n) \in Nat /\ gap(n) <= Padding * q
        /\ t[n] \in Nat
    BY <1>3, <1>7, <1>9, <2>1
  <2>3. Padding * q \in Nat
    BY <1>1
  <2>4. QED
    BY <1>4, <2>2, <2>3
<1>12. QED
  BY <1>5, <1>10, <1>11 DEF n

(* Equal shares lie one after another within what they are shares of.       *)
LEMMA InShares ==
  ASSUME IInv, pc = "done", Consistent, captions = <<>>
  PROVE  /\ Len(Shared) = Len(script)
         /\ \A i \in 1..Len(script) : Shared[i].start < Shared[i].end \/ Padding = 0
         /\ \A i \in 2..Len(script) : Shared[i - 1].end <= Shared[i].start
         /\ Shared[Len(script)].end <= Sum(lengths)
<1> DEFINE n == Len(script)
<1>1. n \in Nat \ {0} /\ Padding \in Nat /\ Sum(lengths) \in Nat
  <2>1. Sum(lengths) \in Nat
    BY SumType DEF IInv, TypeInv, TypeOK
  <2>2. QED
    BY <2>1, ScriptType, SceneAudioAssumption DEF IInv, TypeInv, TypeOK
<1>2. Sum(lengths) = Padding * n
  <2>1. Len(sounds) = n
    BY DEF IInv, TypeInv, ShapeInv
  <2>2. Shown = <<>>
    BY DEF Shown
  <2>3. Padding * n \in Nat
    BY <1>1
  <2>4. Sum(lengths) = 0 + Padding * n
    BY <2>1, <2>2, SumNone DEF IInv, ClockInv
  <2>5. QED
    BY <2>3, <2>4
<1>3. Share \in Nat /\ n * Share <= Sum(lengths) /\ (n <= Sum(lengths) => 1 <= Share)
  BY <1>1, Shares DEF Share
<1>4. Padding # 0 => 1 <= Share
  <2>1. ASSUME Padding # 0 PROVE n <= Padding * n
    <3>1. Padding - 1 \in Nat
      BY <1>1, <2>1
    <3>2. (Padding - 1) * n \in Nat /\ Padding * n = (Padding - 1) * n + n
      BY <1>1, <3>1
    <3>3. QED
      BY <1>1, <3>2
  <2>2. QED
    BY <1>2, <1>3, <2>1
<1>5. /\ Len(Shared) = n
      /\ \A i \in 1..n : Shared[i].start = (i - 1) * Share /\ Shared[i].end = i * Share
  BY <1>1 DEF Shared
<1> HIDE DEF n
<1>6. ASSUME NEW i \in 1..n PROVE Shared[i].start < Shared[i].end \/ Padding = 0
  <2>1. i - 1 \in Nat /\ i * Share = (i - 1) * Share + Share /\ (i - 1) * Share \in Nat
    BY <1>1, <1>3
  <2>2. QED
    BY <1>3, <1>4, <1>5, <2>1
<1>7. ASSUME NEW i \in 2..n PROVE Shared[i - 1].end <= Shared[i].start
  <2>1. i - 1 \in 1..n /\ i \in 1..n /\ (i - 1) * Share \in Nat
    BY <1>1, <1>3
  <2>2. QED
    BY <1>5, <2>1
<1>8. Shared[n].end <= Sum(lengths)
  <2>1. n \in 1..n
    BY <1>1
  <2>2. QED
    BY <1>3, <1>5, <2>1
<1>9. QED
  BY <1>5, <1>6, <1>7, <1>8 DEF n

LEMMA CaptionsHold == IInv => CaptionsInOrder
<1> SUFFICES ASSUME IInv, pc = "done", Consistent
             PROVE  /\ captions # <<>> =>
                         [i \in 1..Len(captions) |-> captions[i].scene]
                           = FlattenSeq([s \in 1..Len(script) |-> [k \in 1..Len(script[s]) |-> s]])
                    /\ \A i \in 1..Len(srt) : srt[i].start < srt[i].end \/ Padding = 0
                    /\ \A i \in 2..Len(srt) : srt[i - 1].end <= srt[i].start
                    /\ srt[Len(srt)].end <= Sum(lengths)
  BY DEF CaptionsInOrder
<1>1. srt = IF captions # <<>> THEN captions ELSE Shared
  BY DEF IInv, SrtInv
<1>2. CASE captions # <<>>
  <2>1. srt = captions
    BY <1>1, <1>2
  <2>2. QED
    BY <1>2, <2>1, EveryCaption, InTime
<1>3. CASE captions = <<>>
  <2>1. srt = Shared
    BY <1>1, <1>3
  <2>2. QED
    BY <1>3, <2>1, InShares
<1>4. QED
  BY <1>2, <1>3

(* Every sentence has a caption, spoken or not; the captions come in the    *)
(* script's order, never overlap, and end within the video.                 *)
THEOREM CaptionsInOrderSafe == Spec => []CaptionsInOrder
BY Always, CaptionsHold, PTL

(* A track with a sound for every caption has for each the sound it is      *)
(* shown for.                                                               *)
LEMMA TrackShown ==
  ASSUME IInv, pc = "done", ~guessed, Len(track) = Len(captions)
  PROVE  track = Shown
<1> DEFINE n == Len(captions)
           a == Lens(sounds)
           b == Lens(script)
<1>1. /\ sounds \in Seq(Seq(Nat)) /\ script \in Seq(Seq(Nat)) /\ track \in Seq(Nat)
      /\ Len(sounds) = Len(script) /\ Len(script) \in Nat \ {0} /\ Len(track) = n /\ n \in Nat
  <2>1. sounds \in Seq(Seq(Nat)) /\ track \in Seq(Nat) /\ Len(sounds) = Len(script)
    BY DEF IInv, TypeInv, TypeOK, ShapeInv
  <2>2. QED
    BY <2>1, ScriptType, CaptionsType DEF IInv, TypeInv, TypeOK
<1>2. \A s \in 1..Len(script) :
        /\ Len(sounds[s]) <= Len(script[s])
        /\ \A k \in 1..Len(sounds[s]) : sounds[s][k] = Shown[Before[s - 1] + k]
  BY <1>1 DEF IInv, SoundInv
<1>3. Shown \in Seq(Nat) /\ Len(Shown) = n
  BY ShownType DEF IInv
<1>4. Before[0] = 0 /\ n = Sum(b)
  BY <1>1, BeforeDef DEF IInv, CaptionInv
<1>5. CASE track = sounds[1]
  <2>1. 1 \in 1..Len(script)
    BY <1>1
  <2>2. \A k \in 1..Len(sounds[1]) : sounds[1][k] = Shown[Before[1 - 1] + k]
    BY <1>2, <2>1
  <2>3. ASSUME NEW k \in 1..n PROVE track[k] = Shown[k]
    <3>1. track[k] = Shown[Before[1 - 1] + k]
      BY <1>1, <1>5, <2>2
    <3>2. 1 - 1 = 0 /\ 0 + k = k
      BY <1>1
    <3>3. QED
      BY <1>4, <3>1, <3>2
  <2>4. Len(track) = Len(Shown) /\ \A p \in 1..Len(Shown) : track[p] = Shown[p]
    BY <1>1, <1>3, <2>3
  <2>5. QED
    BY <1>1, <1>3, <2>4, SameSeq
<1>6. CASE track = FlattenSeq(sounds)
  <2>1. /\ a \in Seq(Nat) /\ b \in Seq(Nat) /\ Len(a) = Len(script) /\ Len(b) = Len(script)
        /\ \A s \in 1..Len(script) : a[s] = Len(sounds[s]) /\ b[s] = Len(script[s])
    BY <1>1, LensType DEF Lens
  <2>2. /\ Len(track) = Sum(a)
        /\ \A s \in 1..Len(script) : \A k \in 1..Len(sounds[s]) :
             track[Totals(a)[s - 1] + k] = sounds[s][k]
    BY <1>1, <1>6, Flatten
  <2>3. Before = Totals(b)
    BY DEF Before
  <2> HIDE DEF a, b
  <2>4. \A s \in 0..Len(script) : Totals(a)[s] = Totals(b)[s]
    <3>1. \A s \in 1..Len(b) : a[s] <= b[s]
      BY <1>2, <2>1
    <3>2. Sum(a) = Sum(b)
      BY <1>1, <1>4, <2>2
    <3>3. QED
      BY <2>1, <3>1, <3>2, SumsTight
  <2>5. ASSUME NEW p \in 1..n PROVE track[p] = Shown[p]
    <3>1. p \in 1..Sum(a)
      BY <1>1, <2>2
    <3>2. PICK s \in 1..Len(a) : \E k \in 1..a[s] : p = Totals(a)[s - 1] + k
      BY <2>1, <3>1, Located
    <3>3. PICK k \in 1..a[s] : p = Totals(a)[s - 1] + k
      BY <3>2
    <3>4. s \in 1..Len(script) /\ k \in 1..Len(sounds[s]) /\ s - 1 \in 0..Len(script)
      <4>1. s \in 1..Len(script) /\ a[s] = Len(sounds[s])
        BY <2>1
      <4>2. s - 1 \in 0..Len(script)
        BY <1>1, <4>1
      <4>3. QED
        BY <4>1, <4>2
    <3>5. track[p] = Shown[Before[s - 1] + k]
      BY <1>2, <2>2, <3>3, <3>4
    <3>6. Before[s - 1] = Totals(a)[s - 1]
      BY <2>3, <2>4, <3>4
    <3>7. QED
      BY <3>3, <3>5, <3>6
  <2>6. Len(track) = Len(Shown) /\ \A p \in 1..Len(Shown) : track[p] = Shown[p]
    BY <1>1, <1>3, <2>5
  <2>7. QED
    BY <1>1, <1>3, <2>6, SameSeq
<1>7. QED
  BY <1>5, <1>6 DEF IInv, TrackInv

LEMMA LagHolds == IInv => CaptionLag
<1> SUFFICES ASSUME IInv, pc = "done", ffmpeg, ~guessed, Len(track) = Len(captions),
                    NEW i \in 1..Len(captions)
             PROVE  captions[i].start = Heard(i) + Padding * (captions[i].scene - 1)
  BY DEF CaptionLag
<1>1. track = Shown
  BY TrackShown
<1>2. captions[i].start = Totals(Shown)[i - 1] + Padding * (captions[i].scene - 1)
  BY DEF IInv, ClockInv, Consistent
<1>3. QED
  BY <1>1, <1>2 DEF Heard

(* With every sentence in the track, a caption comes after its sound by     *)
(* exactly the paddings of the scenes before.                               *)
THEOREM CaptionLagSafe == Spec => []CaptionLag
BY Always, LagHolds, PTL
=============================================================================
