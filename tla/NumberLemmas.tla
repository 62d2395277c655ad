------------------------------- MODULE NumberLemmas -------------------------------
(***************************************************************************)
(* Facts about natural numbers the proofs share: the least element of a    *)
(* set of them, and with it induction, by looking at the least number a    *)
(* claim fails for; and that the folds over sequences compute something,   *)
(* place by place.                                                         *)
(***************************************************************************)
EXTENDS Integers, FiniteSetsExt, WellFoundedInduction, TLAPS

\* The natural numbers are well ordered.
LEMMA LeastNatural ==
    ASSUME NEW S, S \subseteq Nat, S # {}
    PROVE  \E m \in S : \A n \in S : m <= n
<1>. DEFINE Below == {pair \in Nat \X Nat : pair[1] < pair[2]}
<1>1. IsWellFoundedOn(Below, Nat)
    BY NatLessThanWellFounded DEF OpToRel
<1>2. PICK m \in S : \A n \in S : <<n, m>> \notin Below
  <2>. HIDE DEF Below
  <2>. QED BY <1>1, WFMin
<1>3. \A n \in S : m <= n
  <2>. SUFFICES ASSUME NEW n \in S, n < m PROVE FALSE
      OBVIOUS
  <2>1. <<n, m>> \in Below
      OBVIOUS
  <2>. QED BY <1>2, <2>1
<1>. QED BY <1>3

\* Min finds the least element.
LEMMA MinIsLeast ==
    ASSUME NEW S, S \subseteq Nat, S # {}
    PROVE  Min(S) \in S /\ \A n \in S : Min(S) <= n
BY LeastNatural DEF Min

\* Induction: a set that has 0 and with every number the next one has all of them.
LEMMA SetInduction ==
    ASSUME NEW S, 0 \in S, \A n \in Nat : n \in S => n + 1 \in S
    PROVE  Nat \subseteq S
<1>. SUFFICES ASSUME Nat \ S # {} PROVE FALSE
    OBVIOUS
<1>1. PICK m \in Nat \ S : \A n \in Nat \ S : m <= n
    BY LeastNatural
<1>2. m # 0 /\ m - 1 \in Nat
    BY <1>1
<1>3. m - 1 \in S
    BY <1>1, <1>2
<1>. QED BY <1>1, <1>2, <1>3

\* Max finds the greatest element of a set of natural numbers with an upper bound.
LEMMA MaxIsGreatest ==
    ASSUME NEW n \in Nat, NEW S, S \subseteq 0 .. n, S # {}
    PROVE  Max(S) \in S /\ \A k \in S : k <= Max(S)
<1>. DEFINE Bounds == {m \in Nat : \A k \in S : k <= m}
<1>1. n \in Bounds
    OBVIOUS
<1>2. PICK m \in Bounds : \A k \in Bounds : m <= k
  <2>1. Bounds \subseteq Nat
      OBVIOUS
  <2>. HIDE DEF Bounds
  <2>. QED BY <1>1, <2>1, LeastNatural
<1>3. m \in S
  <2>. SUFFICES ASSUME m \notin S PROVE FALSE
      OBVIOUS
  <2>1. PICK k \in S : k <= m
      OBVIOUS
  <2>2. m # 0 /\ m - 1 \in Nat
      BY <2>1
  <2>3. \A l \in S : l <= m - 1
      OBVIOUS
  <2>4. m - 1 \in Bounds
      BY <2>2, <2>3
  <2>. QED BY <1>2, <2>4
<1>. QED BY <1>3 DEF Max

-----------------------------------------------------------------------------
(* Folds                                                                   *)

\* f is what a fold over the sets of places of seq computes, from its greatest place down.
Folds(f, n, op, base, seq) ==
    \A s \in SUBSET (1 .. n) : f[s] = IF s = {} THEN base ELSE op[<<f[s \ {Max(s)}], seq[Max(s)]>>]

\* Such a function exists, for any operation and as many places as one likes.
LEMMA FoldExists ==
    ASSUME NEW A, NEW B, NEW op \in [A \X B -> A], NEW base \in A,
           NEW n \in Nat, NEW seq \in [1 .. n -> B]
    PROVE  \E f \in [SUBSET (1 .. n) -> A] : Folds(f, n, op, base, seq)
<1>. DEFINE P(m) == \E f \in [SUBSET (1 .. m) -> A] : Folds(f, m, op, base, seq)
            S == {m \in Nat : m <= n => P(m)}
<1>1. 0 \in S
  <2>. DEFINE f == [s \in SUBSET (1 .. 0) |-> base]
  <2>1. 1 .. 0 = {}
      OBVIOUS
  <2>2. f \in [SUBSET (1 .. 0) -> A] /\ Folds(f, 0, op, base, seq)
      BY <2>1 DEF Folds
  <2>. QED BY <2>2
<1>2. ASSUME NEW m \in Nat, m \in S PROVE m + 1 \in S
  <2>. HIDE DEF P
  <2>. SUFFICES ASSUME m + 1 <= n PROVE P(m + 1)
      OBVIOUS
  <2>0. P(m)
      BY <1>2
  <2>. HIDE DEF S
  <2>1. PICK f \in [SUBSET (1 .. m) -> A] : Folds(f, m, op, base, seq)
      BY <2>0 DEF P
  <2>. DEFINE g == [s \in SUBSET (1 .. m + 1) |->
                      IF m + 1 \in s THEN op[<<f[s \ {m + 1}], seq[m + 1]>>] ELSE f[s]]
  <2>2. ASSUME NEW s \in SUBSET (1 .. m + 1), m + 1 \in s
        PROVE  /\ s \ {m + 1} \in SUBSET (1 .. m)
               /\ Max(s) = m + 1
               /\ m + 1 \notin s \ {m + 1}
    <3>1. m + 1 \in Nat /\ s \subseteq 0 .. m + 1 /\ s # {}
        BY <2>2
    <3>2. Max(s) \in s /\ \A k \in s : k <= Max(s)
        BY <3>1, MaxIsGreatest
    <3>3. Max(s) \in 1 .. m + 1 /\ m + 1 <= Max(s)
        BY <2>2, <3>2
    <3>4. Max(s) = m + 1
        BY <3>3
    <3>5. \A k \in 1 .. m + 1 : k # m + 1 => k \in 1 .. m
        OBVIOUS
    <3>6. s \ {m + 1} \subseteq 1 .. m
        BY <3>5
    <3>. QED BY <3>4, <3>6
  <2>3. ASSUME NEW s \in SUBSET (1 .. m + 1), m + 1 \notin s
        PROVE  s \in SUBSET (1 .. m)
      BY <2>3
  <2>4. seq[m + 1] \in B
      OBVIOUS
  <2>5. g \in [SUBSET (1 .. m + 1) -> A]
    <3>. SUFFICES ASSUME NEW s \in SUBSET (1 .. m + 1) PROVE g[s] \in A
        OBVIOUS
    <3>1. CASE m + 1 \in s
        BY <2>2, <2>4, <3>1
    <3>2. CASE m + 1 \notin s
        BY <2>3, <3>2
    <3>. QED BY <3>1, <3>2
  <2>6. ASSUME NEW s \in SUBSET (1 .. m + 1)
        PROVE  g[s] = IF s = {} THEN base ELSE op[<<g[s \ {Max(s)}], seq[Max(s)]>>]
    <3>1. CASE m + 1 \in s
        BY <2>2, <3>1
    <3>2. CASE m + 1 \notin s
      <4>1. s \in SUBSET (1 .. m)
          BY <2>3, <3>2
      <4>2. s # {} => Max(s) \in s
        <5>. SUFFICES ASSUME s # {} PROVE Max(s) \in s
            OBVIOUS
        <5>1. m + 1 \in Nat /\ s \subseteq 0 .. m + 1
            OBVIOUS
        <5>. QED BY <5>1, MaxIsGreatest
      <4>3. s \ {Max(s)} \in SUBSET (1 .. m + 1) /\ m + 1 \notin s \ {Max(s)}
          BY <3>2
      <4>4. f[s] = IF s = {} THEN base ELSE op[<<f[s \ {Max(s)}], seq[Max(s)]>>]
          BY <2>1, <4>1 DEF Folds
      <4>. QED BY <3>2, <4>3, <4>4
    <3>. QED BY <3>1, <3>2
  <2>. HIDE DEF g
  <2>7. Folds(g, m + 1, op, base, seq)
      BY <2>6 DEF Folds
  <2>. QED BY <2>5, <2>7 DEF P
<1>. HIDE DEF S
<1>3. Nat \subseteq S
    BY <1>1, <1>2, SetInduction
<1>4. P(n)
  <2>. HIDE DEF P
  <2>. QED BY <1>3 DEF S
<1>. QED BY <1>4

\* What a fold takes off a prefix of 1 .. n, and what it leaves.
LEMMA Prefix ==
    ASSUME NEW k \in Nat
    PROVE  1 .. k + 1 # {} /\ Max(1 .. k + 1) = k + 1 /\ (1 .. k + 1) \ {k + 1} = 1 .. k
<1>1. k + 1 \in Nat /\ 1 .. k + 1 \subseteq 0 .. k + 1 /\ k + 1 \in 1 .. k + 1
    OBVIOUS
<1>2. Max(1 .. k + 1) \in 1 .. k + 1 /\ \A l \in 1 .. k + 1 : l <= Max(1 .. k + 1)
    BY <1>1, MaxIsGreatest
<1>3. Max(1 .. k + 1) = k + 1
    BY <1>1, <1>2
<1>4. \A i : (i \in 1 .. k + 1 /\ i # k + 1) <=> i \in 1 .. k
    OBVIOUS
<1>5. (1 .. k + 1) \ {k + 1} = 1 .. k
    BY <1>4
<1>. QED BY <1>1, <1>3, <1>5

\* The greatest place of a set of places is one of them.
LEMMA GreatestPlace ==
    ASSUME NEW n \in Nat, NEW s \in SUBSET (1 .. n), s # {}
    PROVE  Max(s) \in 1 .. n /\ s \ {Max(s)} \in SUBSET (1 .. n)
<1>1. s \subseteq 0 .. n
    OBVIOUS
<1>2. Max(s) \in s
    BY <1>1, MaxIsGreatest
<1>. QED BY <1>2

\* What holds at first and is kept from place to place holds to the end.
LEMMA PlaceInduction ==
    ASSUME NEW n \in Nat, NEW g, NEW A, g[0] \in A, \A k \in 0 .. n - 1 : g[k] \in A => g[k + 1] \in A
    PROVE  \A k \in 0 .. n : g[k] \in A
<1>. DEFINE S == {k \in Nat : k <= n => g[k] \in A}
<1>1. 0 \in S
    OBVIOUS
<1>2. ASSUME NEW k \in Nat, k \in S PROVE k + 1 \in S
    BY <1>2
<1>. HIDE DEF S
<1>3. Nat \subseteq S
    BY <1>1, <1>2, SetInduction
<1>. QED BY <1>3 DEF S
===================================================================================
