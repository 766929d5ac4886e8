--------------------------- MODULE SequenceLemmas ---------------------------
(***************************************************************************)
(* Facts about sequences that the proofs about queues of events need: what  *)
(* FlattenSeq of SequencesExt returns, by induction over the length, that   *)
(* SetToSeq lists a set, and where the elements of a concatenation are.     *)
(***************************************************************************)
EXTENDS Naturals, Sequences, SequencesExt, TLAPS, WellFoundedInduction, SequenceTheorems,
        FiniteSetTheorems

\* Induction over the naturals, with a set for the property: a set that holds 0
\* and the successor of each of its members holds every natural.
LEMMA SetInduction ==
    ASSUME NEW S \in SUBSET Nat, 0 \in S, \A n \in S : n + 1 \in S
    PROVE  \A n \in Nat : n \in S
<1> DEFINE R == {ss \in Nat \X Nat : ss[1] < ss[2]}
           T == Nat \ S
<1>1. SUFFICES ASSUME T # {} PROVE FALSE
  OBVIOUS
<1>2. IsWellFoundedOn(R, Nat)
  <2>1. OpToRel(<, Nat) = R
    BY Zenon DEF OpToRel
  <2>2. QED
    BY <2>1, NatLessThanWellFounded, Zenon
<1>3. PICK x \in T : \A y \in T : ~ (<<y, x>> \in R)
  <2> HIDE DEF R, T
  <2>1. T \subseteq Nat
    BY DEF T
  <2>2. QED
    BY WFMin, <1>1, <1>2, <2>1
<1>4. x # 0 /\ x \in Nat /\ x - 1 \in Nat
  OBVIOUS
<1>5. <<x - 1, x>> \in R
  BY <1>4
<1>6. x - 1 \in S
  BY <1>3, <1>4, <1>5
<1>7. x - 1 + 1 = x
  BY <1>4
<1>8. QED
  BY <1>3, <1>6, <1>7

\* The two halves of a concatenation.
LEMMA ConcatHalves ==
    ASSUME NEW X, NEW P \in Seq(X), NEW Q \in Seq(X)
    PROVE  /\ P \o Q \in Seq(X)
           /\ Len(P) \in Nat /\ Len(Q) \in Nat /\ Len(P \o Q) = Len(P) + Len(Q)
           /\ \A i \in 1 .. Len(P) : (P \o Q)[i] = P[i]
           /\ \A i \in 1 .. Len(Q) : (P \o Q)[Len(P) + i] = Q[i]
BY ConcatProperties

\* Concatenation, kept folded where only its arguments matter.
Joined(s, t) == s \o t

\* g is the recursive function in FlattenSeq(ss), up to n.
Flattens(g, ss, n) ==
    g = [i \in 1 .. n |-> IF i = 1 THEN ss[i] ELSE Joined(g[i - 1], ss[i])]

\* The recursive function by which FlattenSeq is defined exists, for every length.
LEMMA FlattenExists ==
    ASSUME NEW ss
    PROVE  \A n \in Nat : \E g : Flattens(g, ss, n)
<1> DEFINE S == {n \in Nat : \E g : Flattens(g, ss, n)}
<1>1. 0 \in S
  <2> DEFINE g == [i \in 1 .. 0 |-> ss]
  <2>1. Flattens(g, ss, 0)
    BY DEF Flattens
  <2>2. QED
    BY <2>1
<1>2. ASSUME NEW n \in S PROVE n + 1 \in S
  <2>1. PICK g : Flattens(g, ss, n)
    BY <1>2
  <2> DEFINE h == [i \in 1 .. n + 1 |-> IF i <= n THEN g[i]
                     ELSE IF i = 1 THEN ss[i] ELSE Joined(g[i - 1], ss[i])]
  <2>2. \A i \in 1 .. n : h[i] = g[i]
    OBVIOUS
  <2>3. \A i \in 1 .. n + 1 : h[i] = IF i = 1 THEN ss[i] ELSE Joined(h[i - 1], ss[i])
    <3>1. TAKE i \in 1 .. n + 1
    <3>2. CASE i <= n
      <4>1. g[i] = IF i = 1 THEN ss[i] ELSE Joined(g[i - 1], ss[i])
        BY <2>1, <3>2 DEF Flattens
      <4>2. h[i] = g[i] /\ (i # 1 => h[i - 1] = g[i - 1])
        BY <2>2, <3>2
      <4>3. QED
        BY <4>1, <4>2
    <3>3. CASE i = n + 1
      BY <2>2, <3>3
    <3>4. QED
      BY <3>2, <3>3
  <2>4. Flattens(h, ss, n + 1)
    <3> HIDE DEF h
    <3>1. h = [i \in 1 .. n + 1 |-> h[i]]
      BY DEF h
    <3>2. QED
      BY <2>3, <3>1 DEF Flattens
  <2>5. QED
    BY <2>4
<1>3. QED
  <2> HIDE DEF S
  <2>1. \A n \in Nat : n \in S
    BY <1>1, <1>2, SetInduction DEF S
  <2>2. QED
    BY <2>1 DEF S

\* What FlattenSeq computes, step by step.
LEMMA FlattenSteps ==
    ASSUME NEW X, NEW ss \in Seq(Seq(X)), ss # << >>
    PROVE  \E g \in [1 .. Len(ss) -> Seq(X)] :
              /\ g[1] = ss[1]
              /\ \A i \in 2 .. Len(ss) : g[i] = Joined(g[i - 1], ss[i])
              /\ FlattenSeq(ss) = g[Len(ss)]
<1> DEFINE N == Len(ss)
           flatten == CHOOSE g : Flattens(g, ss, N)
<1>1. N \in Nat /\ N # 0
  OBVIOUS
<1>2. Flattens(flatten, ss, N)
  BY FlattenExists, <1>1
<1>3. FlattenSeq(ss) = flatten[N]
  BY <1>1 DEF FlattenSeq, Flattens, Joined
<1> HIDE DEF flatten
<1>4. \A i \in 1 .. N : flatten[i] = IF i = 1 THEN ss[i] ELSE Joined(flatten[i - 1], ss[i])
  BY <1>2 DEF Flattens
<1>5. \A n \in Nat : n \in 1 .. N => flatten[n] \in Seq(X)
  <2> DEFINE S == {n \in Nat : n \in 1 .. N => flatten[n] \in Seq(X)}
  <2>1. 0 \in S
    OBVIOUS
  <2>2. ASSUME NEW n \in S PROVE n + 1 \in S
    <3>1. SUFFICES ASSUME n + 1 \in 1 .. N PROVE flatten[n + 1] \in Seq(X)
      OBVIOUS
    <3>2. ss[n + 1] \in Seq(X)
      BY <3>1
    <3>3. CASE n = 0
      BY <1>4, <3>2, <3>1, <3>3
    <3>4. CASE n # 0
      <4>1. flatten[n] \in Seq(X)
        BY <2>2, <3>1, <3>4
      <4>2. flatten[n + 1] = Joined(flatten[n], ss[n + 1])
        BY <1>4, <3>1, <3>4
      <4>3. QED
        BY <3>2, <4>1, <4>2, ConcatProperties DEF Joined
    <3>5. QED
      BY <3>3, <3>4
  <2> HIDE DEF S
  <2>3. \A n \in Nat : n \in S
    BY <2>1, <2>2, SetInduction DEF S
  <2>4. QED
    BY <2>3 DEF S
<1>6. flatten \in [1 .. N -> Seq(X)]
  <2>1. \A n \in 1 .. N : flatten[n] \in Seq(X)
    BY <1>1, <1>5
  <2>2. DOMAIN flatten = 1 .. N /\ flatten = [n \in DOMAIN flatten |-> flatten[n]]
    BY <1>2 DEF Flattens
  <2> HIDE DEF N
  <2>3. QED
    BY <2>1, <2>2
<1>7. flatten[1] = ss[1]
  BY <1>1, <1>4
<1>8. \A i \in 2 .. N : flatten[i] = Joined(flatten[i - 1], ss[i])
  BY <1>1, <1>4
<1>9. QED
  BY <1>3, <1>6, <1>7, <1>8

\* SetToSeq lists every element of a finite set once.
LEMMA SetToSeqLists ==
    ASSUME NEW S, IsFiniteSet(S)
    PROVE  /\ SetToSeq(S) \in Seq(S)
           /\ \A x \in S : \E i \in DOMAIN SetToSeq(S) : SetToSeq(S)[i] = x
           /\ \A i, j \in DOMAIN SetToSeq(S) : SetToSeq(S)[i] = SetToSeq(S)[j] => i = j
<1> DEFINE N == Cardinality(S)
           f == SetToSeq(S)
<1>1. N \in Nat /\ ExistsBijection(1 .. N, S)
  BY FS_CardinalityType
<1>2. PICK g \in Bijection(1 .. N, S) : TRUE
  BY <1>1 DEF ExistsBijection
<1>3. g \in [1 .. N -> S] /\ IsInjective(g)
  BY <1>2 DEF Bijection, Injection, IsInjective
<1>4. f \in [1 .. N -> S] /\ IsInjective(f)
  BY <1>3 DEF SetToSeq
<1>5. f \in Injection(1 .. N, S)
  BY <1>4 DEF Injection, IsInjective
<1>6. IsFiniteSet(1 .. N) /\ Cardinality(1 .. N) = N
  BY <1>1, FS_Interval
<1>7. f \in Surjection(1 .. N, S)
  BY <1>5, <1>6, FS_Injection
<1>8. QED
  BY <1>1, <1>4, <1>7 DEF Surjection, IsInjective

-----------------------------------------------------------------------------
(* A sequence, element by element.                                         *)

\* A sequence made of the elements of A and then those of B.
LEMMA ConcatIs ==
    ASSUME NEW X, NEW A \in Seq(X), NEW B \in Seq(X), NEW L \in Seq(X),
           Len(L) = Len(A) + Len(B),
           \A i \in 1 .. Len(A) : L[i] = A[i],
           \A i \in 1 .. Len(B) : L[Len(A) + i] = B[i]
    PROVE  L = A \o B
<1>1. /\ A \o B \in Seq(X) /\ Len(A) \in Nat /\ Len(B) \in Nat
      /\ Len(A \o B) = Len(A) + Len(B)
      /\ \A i \in 1 .. Len(A) : (A \o B)[i] = A[i]
      /\ \A i \in 1 .. Len(B) : (A \o B)[Len(A) + i] = B[i]
  BY ConcatHalves
<1>2. PICK C : C = A \o B
  OBVIOUS
<1>3. /\ C \in Seq(X) /\ Len(C) = Len(A) + Len(B)
      /\ \A i \in 1 .. Len(A) : C[i] = A[i]
      /\ \A i \in 1 .. Len(B) : C[Len(A) + i] = B[i]
  BY <1>1, <1>2, Zenon
<1>4. ASSUME NEW i \in 1 .. Len(A) + Len(B) PROVE L[i] = C[i]
  <2>1. CASE i <= Len(A)
    BY <1>1, <1>3, <2>1
  <2>2. CASE i > Len(A)
    <3>1. PICK j \in 1 .. Len(B) : i = Len(A) + j
      <4>1. i - Len(A) \in 1 .. Len(B) /\ i = Len(A) + (i - Len(A))
        BY <1>1, <2>2
      <4>2. QED
        BY <4>1
    <3>2. C[i] = B[j] /\ L[i] = B[j]
      BY <1>3, <3>1, Zenon
    <3>3. QED
      BY <3>2, Zenon
  <2>3. QED
    BY <1>1, <2>1, <2>2
<1>5. L = C
  <2>1. Len(L) \in Nat /\ L \in [1 .. Len(L) -> X] /\ C \in [1 .. Len(L) -> X]
    BY <1>3
  <2>2. \A i \in 1 .. Len(L) : L[i] = C[i]
    BY <1>4
  <2>3. QED
    BY <2>1, <2>2
<1>6. QED
  BY <1>2, <1>5, Zenon

\* A sequence is its first n elements and the others.
LEMMA CutAt ==
    ASSUME NEW X, NEW w \in Seq(X), NEW n \in 0 .. Len(w)
    PROVE  /\ SubSeq(w, 1, n) \in Seq(X) /\ SubSeq(w, n + 1, Len(w)) \in Seq(X)
           /\ Len(SubSeq(w, 1, n)) = n
           /\ SubSeq(w, 1, n) \o SubSeq(w, n + 1, Len(w)) = w
<1>1. Len(w) \in Nat /\ n \in Nat /\ n <= Len(w)
  OBVIOUS
<1>2. PICK A : A = SubSeq(w, 1, n)
  OBVIOUS
<1>3. PICK B : B = SubSeq(w, n + 1, Len(w))
  OBVIOUS
<1>4. A \in Seq(X) /\ Len(A) = n /\ \A i \in 1 .. n : A[i] = w[i]
  BY <1>1, <1>2, SubSeqProperties
<1>5. B \in Seq(X) /\ Len(B) = Len(w) - n /\ \A i \in 1 .. Len(B) : w[Len(A) + i] = B[i]
  BY <1>1, <1>3, <1>4, SubSeqProperties
<1>6. Len(w) = Len(A) + Len(B) /\ (\A i \in 1 .. Len(A) : w[i] = A[i])
  BY <1>1, <1>4, <1>5
<1>7. w = A \o B
  BY ONLY <1>4, <1>5, <1>6, w \in Seq(X), ConcatIs
<1> QED
  BY <1>2, <1>3, <1>4, <1>5, <1>7

\* A has the elements of e as far as both go; the rest of a longer A is, with
\* z, the sequence Y.
Reads(X, A, z, e, Y) ==
    /\ \A i \in 1 .. Len(A) : i <= Len(e) => A[i] = e[i]
    /\ Len(e) <= Len(A) => /\ SubSeq(A, Len(e) + 1, Len(A)) \in Seq(X)
                           /\ SubSeq(A, Len(e) + 1, Len(A)) \o z = Y

\* So it is where A and z make up e and Y.
LEMMA ReadsInOrder ==
    ASSUME NEW X, NEW A \in Seq(X), NEW z \in Seq(X), NEW e \in Seq(X), NEW Y \in Seq(X),
           A \o z = e \o Y
    PROVE  Reads(X, A, z, e, Y)
<1>1. PICK C : C = A \o z
  OBVIOUS
<1>2. /\ C \in Seq(X) /\ Len(A) \in Nat /\ Len(z) \in Nat /\ Len(C) = Len(A) + Len(z)
      /\ \A i \in 1 .. Len(A) : C[i] = A[i]
      /\ \A i \in 1 .. Len(z) : C[Len(A) + i] = z[i]
  <2>1. /\ A \o z \in Seq(X) /\ Len(A) \in Nat /\ Len(z) \in Nat
        /\ Len(A \o z) = Len(A) + Len(z)
        /\ \A i \in 1 .. Len(A) : (A \o z)[i] = A[i]
        /\ \A i \in 1 .. Len(z) : (A \o z)[Len(A) + i] = z[i]
    BY ONLY A \in Seq(X), z \in Seq(X), ConcatHalves
  <2> QED
    BY ONLY <1>1, <2>1, Zenon
<1>3. /\ Len(e) \in Nat /\ Len(Y) \in Nat /\ Len(C) = Len(e) + Len(Y)
      /\ \A i \in 1 .. Len(e) : C[i] = e[i]
      /\ \A i \in 1 .. Len(Y) : C[Len(e) + i] = Y[i]
  <2>1. /\ e \o Y \in Seq(X) /\ Len(e) \in Nat /\ Len(Y) \in Nat
        /\ Len(e \o Y) = Len(e) + Len(Y)
        /\ \A i \in 1 .. Len(e) : (e \o Y)[i] = e[i]
        /\ \A i \in 1 .. Len(Y) : (e \o Y)[Len(e) + i] = Y[i]
    BY ONLY e \in Seq(X), Y \in Seq(X), ConcatHalves
  <2>2. C = e \o Y
    BY ONLY <1>1, A \o z = e \o Y, Zenon
  <2> QED
    BY ONLY <2>2, <2>1, Zenon
<1>4. \A i \in 1 .. Len(A) : i <= Len(e) => A[i] = e[i]
  BY <1>2, <1>3
<1>5. ASSUME Len(e) <= Len(A)
      PROVE  /\ SubSeq(A, Len(e) + 1, Len(A)) \in Seq(X)
             /\ SubSeq(A, Len(e) + 1, Len(A)) \o z = Y
  <2>1. PICK B : B = SubSeq(A, Len(e) + 1, Len(A))
    OBVIOUS
  <2>2. B \in Seq(X) /\ Len(B) = Len(A) - Len(e) /\ \A i \in 1 .. Len(B) : B[i] = A[Len(e) + i]
    BY <1>2, <1>3, <1>5, <2>1, SubSeqProperties
  <2>3. Len(Y) = Len(B) + Len(z)
    BY <1>2, <1>3, <2>2
  <2>4. \A i \in 1 .. Len(B) : Y[i] = B[i]
    <3> TAKE i \in 1 .. Len(B)
    <3>1. i \in 1 .. Len(Y) /\ Len(e) + i \in 1 .. Len(A)
      BY <1>2, <1>3, <2>2, <2>3
    <3> QED
      BY <1>2, <1>3, <2>2, <3>1
  <2>5. \A i \in 1 .. Len(z) : Y[Len(B) + i] = z[i]
    <3> TAKE i \in 1 .. Len(z)
    <3>1. Len(B) + i \in 1 .. Len(Y) /\ Len(e) + (Len(B) + i) = Len(A) + i
      BY <1>2, <1>3, <2>2, <2>3
    <3>2. C[Len(e) + (Len(B) + i)] = Y[Len(B) + i] /\ C[Len(A) + i] = z[i]
      BY <1>2, <1>3, <3>1
    <3> QED
      BY <3>1, <3>2
  <2>6. Y = B \o z
    BY ONLY <2>2, <2>3, <2>4, <2>5, Y \in Seq(X), z \in Seq(X), ConcatIs
  <2> QED
    BY <2>1, <2>2, <2>6
<1> QED
  BY <1>4, <1>5 DEF Reads
=============================================================================
