-------------------------- MODULE FoundationProofs --------------------------
(***************************************************************************)
(* What the proofs of several modules rest on: induction on the natural    *)
(* numbers, folds over sequences, and numbers that wrap around.            *)
(*                                                                         *)
(* Induction is stated for sets of numbers and recursive definitions for   *)
(* functions, so that the facts can be cited for any of them.              *)
(***************************************************************************)
EXTENDS Wraparound, Integers, SequencesExt, FiniteSetsExt,
        WellFoundedInduction, TLAPS

LEMMA SetHasMin ==
    ASSUME NEW T \in SUBSET Nat, T # {}
    PROVE  \E x \in T : \A y \in T : x <= y
  <1> DEFINE R == OpToRel(<, Nat)
  <1>1. IsWellFoundedOn(R, Nat)
    BY NatLessThanWellFounded
  <1>2. \A x, y \in Nat : x < y => <<x, y>> \in R
    BY DEF OpToRel
  <1> HIDE DEF R
  <1>3. PICK x \in T : \A y \in T : ~(<<y, x>> \in R)
    BY <1>1, WFMin
  <1>4. \A y \in T : ~(y < x)
    BY <1>2, <1>3
  <1> QED
    BY <1>3, <1>4

\* Induction up to a bound: what holds of 0, and of n + 1 < limit if of n,
\* holds of every number up to the limit.
LEMMA SetInduction ==
    ASSUME NEW S, NEW limit \in Nat, 0 \in S,
           \A n \in 0..(limit - 1) : n \in S => n + 1 \in S
    PROVE  0..limit \subseteq S
  <1> SUFFICES ASSUME (0..limit) \ S # {} PROVE FALSE
    OBVIOUS
  <1> DEFINE T == (0..limit) \ S
  <1>0. T \in SUBSET Nat /\ T # {}
    OBVIOUS
  <1> HIDE DEF T
  <1>1. PICK x \in T : \A y \in T : x <= y
    BY <1>0, SetHasMin
  <1>2. x \in 0..limit /\ x \notin S
    BY DEF T
  <1> DEFINE n == x - 1
  <1>3. x # 0 /\ n \in 0..(limit - 1)
    BY <1>2
  <1>4. n \in S
    BY <1>1, <1>3 DEF T
  <1>5. n + 1 = x
    BY <1>2
  <1> HIDE DEF n
  <1> QED
    BY <1>2, <1>3, <1>4, <1>5

-----------------------------------------------------------------------------
(* Folds *)

LEMMA MaxOfRange ==
    ASSUME NEW n \in Nat, NEW S \in SUBSET (1..n), S # {}
    PROVE  /\ Max(S) \in S /\ \A x \in S : x <= Max(S)
           /\ S \ {Max(S)} \in SUBSET (1..(n - 1))
  <1> DEFINE T == {n - x : x \in S}
  <1>1. T \in SUBSET Nat /\ T # {}
    OBVIOUS
  <1> HIDE DEF T
  <1>2. PICK t \in T : \A u \in T : t <= u
    BY <1>1, SetHasMin
  <1>3. PICK x \in S : t = n - x
    BY DEF T
  <1>4. \A y \in S : n - x <= n - y
    BY <1>2, <1>3 DEF T
  <1>5. \A y \in S : x \in Int /\ y \in Int /\ x >= y
    BY <1>4
  <1> DEFINE m == Max(S)
  <1>6. m \in S /\ \A y \in S : m >= y
    BY <1>5 DEF Max
  <1> HIDE DEF m
  <1>7. ASSUME NEW y \in S, y # m
        PROVE  y \in 1..(n - 1)
    <2>1. m \in 1..n /\ y \in 1..n /\ m >= y
      BY <1>6
    <2> QED
      BY <1>7, <2>1
  <1>8. \A y \in S : y <= m
    BY <1>6
  <1> QED
    BY <1>6, <1>7, <1>8 DEF m

LEMMA MaxOfBounded ==
    ASSUME NEW n \in Nat, NEW S \in SUBSET (0..n), S # {}
    PROVE  /\ Max(S) \in S /\ \A x \in S : x <= Max(S)
  <1> DEFINE T == {n - x : x \in S}
  <1>1. T \in SUBSET Nat /\ T # {}
    <2>1. \A x \in S : x \in Int /\ n - x \in Nat
      OBVIOUS
    <2> QED
      BY <2>1
  <1> HIDE DEF T
  <1>2. PICK t \in T : \A u \in T : t <= u
    BY <1>1, SetHasMin
  <1>3. PICK x \in S : t = n - x
    BY DEF T
  <1>4. \A y \in S : n - x <= n - y
    BY <1>2, <1>3 DEF T
  <1>5. \A y \in S : x \in Int /\ y \in Int /\ x >= y
    BY <1>4
  <1> QED
    BY <1>5 DEF Max

LEMMA MaxOfInterval ==
    ASSUME NEW k \in Nat \ {0}
    PROVE  Max(1..k) = k /\ (1..k) \ {k} = 1..(k - 1)
  <1> DEFINE m == Max(1..k)
  <1> DEFINE S == 1..k
  <1>0. k \in Nat /\ S \in SUBSET (1..k) /\ S # {}
    OBVIOUS
  <1> HIDE DEF S
  <1>1. m \in S /\ \A x \in S : x <= m
    BY <1>0, MaxOfRange DEF S
  <1> HIDE DEF m
  <1>2. m = k
    BY <1>1 DEF S
  <1> QED
    BY <1>2 DEF m

\* The recursive function in MapThenFoldSet, for a fold over a sequence of
\* length n from the left.
Unfolds(it, n, base, F) ==
    it = [S \in SUBSET (1..n) |->
             IF S = {} THEN base ELSE F[it[S \ {Max(S)}], Max(S)]]

LEMMA FoldExists ==
    ASSUME NEW n \in Nat, NEW V, NEW base \in V,
           NEW F \in [V \X (1..n) -> V]
    PROVE  \E it \in [SUBSET (1..n) -> V] : Unfolds(it, n, base, F)
  <1> DEFINE H == {k \in 0..n : \E it \in [SUBSET (1..k) -> V] :
                                 Unfolds(it, k, base, F)}
  <1>1. 0 \in H
    <2> DEFINE it == [S \in SUBSET (1..0) |-> base]
    <2>1. 1..0 = {}
      OBVIOUS
    <2>2. it \in [SUBSET (1..0) -> V] /\ Unfolds(it, 0, base, F)
      BY <2>1 DEF Unfolds
    <2> QED
      BY <2>2
  <1>2. ASSUME NEW k \in 0..(n - 1), k \in H
        PROVE  k + 1 \in H
    <2>1. PICK old \in [SUBSET (1..k) -> V] : Unfolds(old, k, base, F)
      BY <1>2
    <2> DEFINE new == [S \in SUBSET (1..(k + 1)) |->
                          IF S = {} THEN base
                          ELSE F[old[S \ {Max(S)}], Max(S)]]
    <2>2. ASSUME NEW S \in SUBSET (1..(k + 1)), S # {}
          PROVE  /\ Max(S) \in 1..(k + 1) /\ S \ {Max(S)} \in SUBSET (1..k)
                 /\ Max(S) \in 1..n
      <3> DEFINE j == k + 1
      <3>0. j \in Nat /\ j - 1 = k
        OBVIOUS
      <3> HIDE DEF j
      <3>1. Max(S) \in S /\ S \ {Max(S)} \in SUBSET (1..(j - 1))
        BY <2>2, <3>0, MaxOfRange DEF j
      <3>3. Max(S) \in 1..(k + 1)
        BY <3>1
      <3> QED
        BY <3>0, <3>1, <3>3
    <2>3. new \in [SUBSET (1..(k + 1)) -> V]
      <3>1. ASSUME NEW S \in SUBSET (1..(k + 1)), S # {}
            PROVE  F[old[S \ {Max(S)}], Max(S)] \in V
        BY <2>2, <3>1
      <3> QED
        BY <3>1
    <2>4. ASSUME NEW S \in SUBSET (1..k)
          PROVE  new[S] = old[S]
      <3>1. S \in SUBSET (1..(k + 1))
        OBVIOUS
      <3> QED
        BY <2>1, <3>1 DEF Unfolds
    <2> DEFINE body(S) == IF S = {} THEN base
                          ELSE F[new[S \ {Max(S)}], Max(S)]
    <2>5. ASSUME NEW S \in SUBSET (1..(k + 1))
          PROVE  new[S] = body(S)
      BY <2>2, <2>4
    <2> HIDE DEF new
    <2>6. Unfolds(new, k + 1, base, F)
      BY <2>3, <2>5 DEF Unfolds
    <2> QED
      BY <2>3, <2>6
  <1> HIDE DEF H
  <1>3. n \in H
    BY <1>1, <1>2, SetInduction
  <1> QED
    BY <1>3 DEF H

\* A fold over a sequence of length n takes n steps from its base.  `it' is the
\* function that the definition chooses.
Runs(g, n, V, base, F, it) ==
    /\ g \in [0..n -> V] /\ g[0] = base
    /\ \A k \in 1..n : g[k] = F[g[k - 1], k]
    /\ g[n] = it[1..n]

Steps(V, n) == [V \X (1..n) -> V]

UnfoldsIn(it, n, V, base, F) ==
    /\ it[{}] = base
    /\ \A S \in SUBSET (1..n) :
          S # {} /\ it[S \ {Max(S)}] \in V
          => it[S] = F[it[S \ {Max(S)}], Max(S)]

LEMMA FoldRuns ==
    ASSUME NEW n \in Nat, NEW V, NEW base \in V,
           NEW F \in Steps(V, n), NEW it, UnfoldsIn(it, n, V, base, F)
    PROVE  \E g : Runs(g, n, V, base, F, it)
  <1> DEFINE g == [k \in 0..n |-> it[1..k]]
  <1>1. g[0] = base
    <2>1. 1..0 = {} /\ 0 \in 0..n
      OBVIOUS
    <2> QED
      BY <2>1 DEF UnfoldsIn
  <1>2. ASSUME NEW k \in 1..n, g[k - 1] \in V
        PROVE  g[k] = F[g[k - 1], k] /\ g[k] \in V
    <2>1. k \in Nat \ {0} /\ k \in 0..n /\ k - 1 \in 0..n
      OBVIOUS
    <2>2. 1..k \in SUBSET (1..n) /\ 1..k # {}
      <3>1. \A x \in 1..k : x \in 1..n
        OBVIOUS
      <3>2. 1 \in 1..k
        BY <2>1
      <3> QED
        BY <3>1, <3>2
    <2>3. Max(1..k) = k /\ (1..k) \ {k} = 1..(k - 1)
      BY <2>1, MaxOfInterval
    <2>4. g[k] = it[1..k] /\ g[k - 1] = it[1..(k - 1)]
      BY <2>1
    <2> HIDE DEF g
    <2>5. it[1..k] = F[it[1..(k - 1)], k]
      BY <1>2, <2>2, <2>3, <2>4 DEF UnfoldsIn
    <2> QED
      BY <1>2, <2>4, <2>5 DEF Steps
  <1>3. \A k \in 0..n : g[k] \in V
    <2> DEFINE T == {k \in 0..n : g[k] \in V}
    <2> HIDE DEF g
    <2>1. 0 \in T
      BY <1>1
    <2>2. ASSUME NEW k \in 0..(n - 1), k \in T
          PROVE  k + 1 \in T
      <3>1. k + 1 \in 1..n /\ k + 1 \in 0..n /\ (k + 1) - 1 = k
        OBVIOUS
      <3>2. g[(k + 1) - 1] \in V
        BY <2>2, <3>1
      <3>3. g[k + 1] \in V
        BY <1>2, <3>1, <3>2
      <3> QED
        BY <3>1, <3>3
    <2> HIDE DEF T
    <2>3. 0..n \subseteq T
      BY <2>1, <2>2, SetInduction
    <2> QED
      BY <2>3 DEF T
  <1>4. g \in [0..n -> V]
    BY <1>3
  <1>5. g[n] = it[1..n]
    OBVIOUS
  <1>6. \A k \in 1..n : k - 1 \in 0..n
    OBVIOUS
  <1> HIDE DEF g
  <1>7. \A k \in 1..n : g[k] = F[g[k - 1], k]
    BY <1>2, <1>3, <1>6
  <1> QED
    BY <1>1, <1>4, <1>5, <1>7 DEF Runs

-----------------------------------------------------------------------------
(* Numbers that wrap around at any maximum M, as packet numbers and order  *)
(* ids do                                                                  *)

LEMMA DivMod ==
    ASSUME NEW M \in Nat \ {0}, NEW n \in Nat
    PROVE  /\ n % M \in 0..(M - 1)
           /\ n \div M \in Int
           /\ n = (M * (n \div M)) + (n % M)
BY Z3

LEMMA ModOfSum ==
    ASSUME NEW M \in Nat \ {0}, NEW q \in Int, NEW r \in 0..(M - 1)
    PROVE  ((M * q) + r) % M = r
BY Z3

\* Counting k < M numbers on from n wraps around at most once.
LEMMA ModAdd ==
    ASSUME NEW M \in Nat \ {0}, NEW n \in Nat, NEW k \in 0..(M - 1)
    PROVE  (n + k) % M = IF (n % M) + k < M THEN (n % M) + k
                                            ELSE (n % M) + k - M
<1> DEFINE q == n \div M
           r == n % M
<1>1. r \in 0..(M - 1) /\ q \in Int /\ n = (M * q) + r
  BY DivMod
<1> HIDE DEF q, r
<1>2. CASE r + k < M
  <2>1. ((M * q) + (r + k)) % M = r + k
    BY <1>1, <1>2, ModOfSum
  <2>2. n + k = (M * q) + (r + k)
    BY <1>1
  <2> QED BY <2>1, <2>2, <1>2 DEF r
<1>3. CASE ~(r + k < M)
  <2>1. r + k - M \in 0..(M - 1) /\ q + 1 \in Int
    BY <1>1, <1>3
  <2>2. ((M * (q + 1)) + (r + k - M)) % M = r + k - M
    BY <2>1, ModOfSum
  <2>3. n + k = (M * (q + 1)) + (r + k - M)
    BY <1>1
  <2> QED BY <2>2, <2>3, <1>3 DEF r
<1> QED BY <1>2, <1>3

\* The counters advance as the number of increments modulo the maximum.
LEMMA SuccessorIsMod ==
    ASSUME NEW M \in Nat \ {0, 1}, NEW n \in Nat
    PROVE  Successor(n % M, M) = (n + 1) % M
<1>1. 1 \in 0..(M - 1)
  OBVIOUS
<1>2. (n + 1) % M = IF (n % M) + 1 < M THEN (n % M) + 1
                                       ELSE (n % M) + 1 - M
  BY <1>1, ModAdd
<1>3. n % M \in 0..(M - 1)
  BY DivMod
<1> QED BY <1>2, <1>3 DEF Successor

\* Two numbers less than half the number space apart: different, and the
\* comparison says which one comes later (order_is_more_recent,
\* seq_is_more_recent).  At exactly half it depends on the wrap-around.
THEOREM MoreRecentIsLater ==
    ASSUME NEW M \in Nat \ {0, 1}, NEW n \in Nat, NEW k \in Nat \ {0},
           2 * k < M
    PROVE  /\ n % M # (n + k) % M
           /\ MoreRecent((n + k) % M, n % M, M)
           /\ ~ MoreRecent(n % M, (n + k) % M, M)
<1>1. k \in 0..(M - 1) /\ k # 0
  OBVIOUS
<1>2. (n + k) % M = IF (n % M) + k < M THEN (n % M) + k
                                       ELSE (n % M) + k - M
  BY <1>1, ModAdd
<1>3. n % M \in 0..(M - 1)
  BY DivMod
<1>4. 2 * (M \div 2) <= M /\ M < 2 * (M \div 2) + 2 /\ M \div 2 \in Nat
  BY Z3
<1> DEFINE r == n % M
           h == M \div 2
<1>5. /\ r \in 0..(M - 1) /\ h \in Nat /\ 2 * h <= M /\ M < 2 * h + 2
      /\ (n + k) % M = IF r + k < M THEN r + k ELSE r + k - M
  BY <1>2, <1>3, <1>4
<1>6. /\ n % M = r
      /\ MoreRecent((n + k) % M, n % M, M) <=>
            \/ (n + k) % M > r /\ ((n + k) % M) - r <= h
            \/ r > (n + k) % M /\ r - ((n + k) % M) > h
      /\ MoreRecent(n % M, (n + k) % M, M) <=>
            \/ r > (n + k) % M /\ r - ((n + k) % M) <= h
            \/ (n + k) % M > r /\ ((n + k) % M) - r > h
  BY DEF MoreRecent
<1> HIDE DEF r, h
<1>7. CASE r + k < M
  BY <1>1, <1>5, <1>6, <1>7
<1>8. CASE ~(r + k < M)
  BY <1>1, <1>5, <1>6, <1>8
<1> QED BY <1>7, <1>8
=============================================================================
