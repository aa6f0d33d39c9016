---------------------------- MODULE SequenceLemmas ----------------------------
(***************************************************************************)
(* Induction over the natural numbers, by the least counterexample, and    *)
(* what follows from it for recursive functions on sequences.              *)
(***************************************************************************)
EXTENDS Filters, WellFoundedInduction, TLAPS

\* Every non-empty set of natural numbers has a least element.
LEMMA Least ==
    ASSUME NEW S \in SUBSET Nat, S # {}
    PROVE  \E m \in S : \A n \in S : m <= n
  <1> DEFINE R == OpToRel(<, Nat)
  <1>1. IsWellFoundedOn(R, Nat)
    BY NatLessThanWellFounded
  <1> HIDE DEF R
  <1>2. PICK x \in S : \A y \in S : ~ (<<y, x>> \in R)
    BY <1>1, WFMin
  <1>3. \A y \in S : ~ (y < x)
    BY <1>2 DEF R, OpToRel
  <1>4. \A y \in S : x <= y
    BY <1>3
  <1> QED
    BY <1>4

\* Every bounded one has a greatest element.
LEMMA Greatest ==
    ASSUME NEW S \in SUBSET Nat, S # {}, NEW b \in Nat, \A n \in S : n <= b
    PROVE  \E m \in S : \A n \in S : n <= m
  <1> DEFINE gaps == {b - n : n \in S}
  <1>1. gaps \in SUBSET Nat /\ gaps # {}
    <2>1. \A n \in S : n \in Nat /\ n <= b /\ b - n \in Nat
      OBVIOUS
    <2> QED
      BY <2>1
  <1>2. PICK g \in gaps : \A h \in gaps : g <= h
    <2> HIDE DEF gaps
    <2> QED
      BY <1>1, Least
  <1>3. PICK m \in S : g = b - m
    OBVIOUS
  <1>4. \A n \in S : b - m <= b - n
    BY <1>2, <1>3
  <1> HIDE DEF gaps
  <1>5. \A n \in S : n <= m
    <2>1. S \subseteq Int /\ m \in Int /\ b \in Int
      OBVIOUS
    <2> QED
      BY <1>4, <2>1
  <1> QED
    BY <1>5

\* A set with 0 and with every successor of a member is that of all naturals.
LEMMA Induction ==
    ASSUME NEW T \in SUBSET Nat, 0 \in T, \A n \in T : n + 1 \in T
    PROVE  T = Nat
  <1> SUFFICES ASSUME Nat \ T # {} PROVE FALSE
    OBVIOUS
  <1>1. PICK m \in Nat \ T : \A n \in Nat \ T : m <= n
    BY Least
  <1>2. m # 0 /\ m - 1 \in Nat
    OBVIOUS
  <1>3. m - 1 \in T
    BY <1>1, <1>2
  <1> QED
    BY <1>3

\* A filter leaves a sequence, and elements of the set only.
LEMMA FilteredType ==
    ASSUME NEW T, NEW s \in Seq(T), NEW S
    PROVE  Filtered(s, S) \in Seq(T \cap S)
  <1> DEFINE Body(g, n) ==
        [i \in 0..n |-> IF i = 0 THEN <<>>
                        ELSE IF s[i] \in S THEN Append(g[i - 1], s[i]) ELSE g[i - 1]]
             Solvable == {n \in Nat : \E g : g = Body(g, n)}
             upTo == CHOOSE g : g = Body(g, Len(s))
             Typed == {n \in Nat : n <= Len(s) => upTo[n] \in Seq(T \cap S)}
  <1>1. 0 \in Solvable
    <2>1. [i \in 0..0 |-> <<>>] = Body([i \in 0..0 |-> <<>>], 0)
      OBVIOUS
    <2> QED
      BY <2>1
  <1>2. ASSUME NEW n \in Solvable
        PROVE  n + 1 \in Solvable
    <2>1. PICK g : g = Body(g, n)
      OBVIOUS
    <2> DEFINE h == [i \in 0..n + 1 |-> IF i <= n THEN g[i]
                        ELSE IF s[n + 1] \in S THEN Append(g[n], s[n + 1]) ELSE g[n]]
    <2>2. \A i \in 0..n : g[i] = Body(g, n)[i]
      BY <2>1
    <2>3. ASSUME NEW i \in 0..n + 1
          PROVE  h[i] = Body(h, n + 1)[i]
      <3>1. CASE i = n + 1
        BY <3>1
      <3>2. CASE i # n + 1
        <4>1. i \in 0..n
          BY <3>2
        <4>2. h[i] = g[i] /\ (i # 0 => h[i - 1] = g[i - 1])
          BY <4>1
        <4>3. h[i] = Body(g, n)[i]
          BY <2>2, <4>1, <4>2
        <4> QED
          BY <4>1, <4>2, <4>3
      <3> QED
        BY <3>1, <3>2
    <2>4. h = Body(h, n + 1)
      BY <2>3
    <2> HIDE DEF h, Body
    <2>5. n + 1 \in Nat
      OBVIOUS
    <2> QED
      BY <2>4, <2>5
  <1>3. Solvable = Nat
    <2> HIDE DEF Solvable
    <2>1. Solvable \in SUBSET Nat
      BY DEF Solvable
    <2> QED
      BY <1>1, <1>2, <2>1, Induction
  <1>4. Len(s) \in Nat
    OBVIOUS
  <1>5. upTo = Body(upTo, Len(s))
    BY <1>3, <1>4
  <1>6. Filtered(s, S) = upTo[Len(s)]
    BY DEF Filtered
  <1> HIDE DEF upTo
  <1>7. 0 \in Typed
    BY <1>4, <1>5
  <1>8. ASSUME NEW n \in Typed, n + 1 <= Len(s)
        PROVE  upTo[n + 1] \in Seq(T \cap S)
    <2>1. upTo[n + 1] = IF s[n + 1] \in S THEN Append(upTo[n], s[n + 1]) ELSE upTo[n]
      <3>1. n \in Nat /\ n + 1 \in 0..Len(s) /\ n + 1 # 0 /\ (n + 1) - 1 = n
        BY <1>4, <1>8
      <3>2. upTo[n + 1] = Body(upTo, Len(s))[n + 1]
        BY <1>5
      <3> HIDE <1>5
      <3> QED
        BY <3>1, <3>2
    <2>2. upTo[n] \in Seq(T \cap S) /\ s[n + 1] \in T
      BY <1>4, <1>8
    <2> QED
      BY <2>1, <2>2
  <1>9. Typed = Nat
    <2>1. \A n \in Typed : n + 1 \in Typed
      BY <1>8
    <2> HIDE DEF Typed
    <2>2. Typed \in SUBSET Nat
      BY DEF Typed
    <2> QED
      BY <1>7, <2>1, <2>2, Induction
  <1> QED
    BY <1>4, <1>6, <1>9
=============================================================================
