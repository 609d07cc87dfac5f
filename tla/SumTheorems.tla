---------------------------- MODULE SumTheorems ----------------------------
(***************************************************************************)
(* What the models need to know of SumFunctionOnSet of the community       *)
(* modules: the sum of a function over a finite set does not depend on the *)
(* order in which the elements are taken.                                  *)
(*                                                                         *)
(* Induction over finite sets is done with sets alone: the set of the      *)
(* subsets a claim fails for has, if it is not empty, a minimal element.   *)
(***************************************************************************)
EXTENDS Functions, FiniteSetTheorems, TLAPS

LEMMA MinimalSubset ==
    ASSUME NEW S, IsFiniteSet(S), NEW T, T \subseteq SUBSET S, T # {}
    PROVE  \E A \in T : \A B \in T : B \subseteq A => B = A
  <1> DEFINE R == StrictSubsetOrdering(S)
  <1>1. IsWellFoundedOn(R, FiniteSubsetsOf(S)) /\ FiniteSubsetsOf(S) = SUBSET S
    BY FS_StrictSubsetOrderingWellFounded, FS_FiniteSubsetsOfFinite
  <1>2. IsWellFoundedOn(R, SUBSET S)
    BY <1>1
  <1> HIDE DEF R
  <1>3. PICK A \in T : \A B \in T : ~(<<B, A>> \in R)
    BY <1>2, WFMin
  <1>4. ASSUME NEW B \in T, B \subseteq A, B # A
        PROVE  FALSE
    <2>1. <<B, A>> \in (SUBSET S) \X (SUBSET S)
      OBVIOUS
    <2>2. <<B, A>> \in R
      BY <1>4, <2>1 DEF R, StrictSubsetOrdering
    <2> QED
      BY <1>3, <2>2
  <1> QED
    BY <1>4

(* The image of a finite set is finite. *)
LEMMA FiniteImage ==
    ASSUME NEW S, IsFiniteSet(S), NEW f
    PROVE  IsFiniteSet({f[x] : x \in S})
  <1> DEFINE I == {f[x] : x \in S}
             g == [x \in S |-> f[x]]
  <1>1. g \in Surjection(S, I)
    BY DEF Surjection
  <1> HIDE DEF I, g
  <1>2. IsFiniteSet(I)
    BY <1>1, FS_Surjection
  <1> QED
    BY <1>2 DEF I

-----------------------------------------------------------------------------
(* The recursive function behind the sum.                                  *)

Pick(s) == CHOOSE x \in s : TRUE

LEMMA PickIn ==
    ASSUME NEW s, s # {}
    PROVE  Pick(s) \in s
  BY DEF Pick

Iter(f, S) ==
    CHOOSE g : g = [s \in SUBSET S |->
                       IF s = {} THEN 0 ELSE f[Pick(s)] + g[s \ {Pick(s)}]]

LEMMA SumIsIter ==
    ASSUME NEW f, NEW S
    PROVE  SumFunctionOnSet(f, S) = Iter(f, S)[S]
  BY Zenon DEF SumFunctionOnSet, FoldFunctionOnSet, MapThenFoldSet, Pick, Iter

Sums(f, S, g) ==
    g = [s \in SUBSET S |->
            IF s = {} THEN 0 ELSE f[Pick(s)] + g[s \ {Pick(s)}]]

LEMMA SumsAt ==
    ASSUME NEW f, NEW S, NEW g, Sums(f, S, g), NEW s, s \subseteq S
    PROVE  /\ s = {} => g[s] = 0
           /\ s # {} => g[s] = f[Pick(s)] + g[s \ {Pick(s)}]
  <1>1. g[s] = IF s = {} THEN 0 ELSE f[Pick(s)] + g[s \ {Pick(s)}]
    <2> DEFINE e(x) == IF x = {} THEN 0 ELSE f[Pick(x)] + g[x \ {Pick(x)}]
    <2>1. g = [x \in SUBSET S |-> e(x)]
      BY Zenon DEF Sums
    <2>2. g[s] = e(s)
      <3> HIDE DEF e
      <3> QED
        BY <2>1
    <2> QED
      BY <2>2
  <1> QED
    BY <1>1

LEMMA SumsAgree ==
    ASSUME NEW f, NEW A, NEW B, NEW g, NEW h, Sums(f, A, g), Sums(f, B, h),
           NEW C, IsFiniteSet(C), C \subseteq A, C \subseteq B
    PROVE  g[C] = h[C]
  <1> DEFINE T == {D \in SUBSET C : g[D] # h[D]}
  <1>1. SUFFICES ASSUME T # {} PROVE FALSE
    OBVIOUS
  <1>2. PICK D \in T : \A E \in T : E \subseteq D => E = D
    <2>1. T \subseteq SUBSET C
      OBVIOUS
    <2> HIDE DEF T
    <2> QED
      BY <1>1, <2>1, MinimalSubset
  <1>3. D \subseteq C /\ g[D] # h[D] /\ D \subseteq A /\ D \subseteq B
    BY <1>2
  <1>4. D # {}
    BY <1>3, SumsAt
  <1> DEFINE p == Pick(D)
  <1>5. p \in D
    BY <1>4, PickIn
  <1>6. g[D \ {p}] = h[D \ {p}]
    BY <1>2, <1>3, <1>5
  <1>7. g[D] = f[p] + g[D \ {p}] /\ h[D] = f[p] + h[D \ {p}]
    BY <1>3, <1>4, SumsAt
  <1> QED
    BY <1>3, <1>6, <1>7

LEMMA SumsExist ==
    ASSUME NEW f, NEW S, IsFiniteSet(S)
    PROVE  \E g : Sums(f, S, g)
  <1> DEFINE T == {A \in SUBSET S : ~ \E g : Sums(f, A, g)}
  <1>1. SUFFICES ASSUME T # {} PROVE FALSE
    OBVIOUS
  <1>2. PICK A \in T : \A B \in T : B \subseteq A => B = A
    <2>1. T \subseteq SUBSET S
      OBVIOUS
    <2> HIDE DEF T
    <2> QED
      BY <1>1, <2>1, MinimalSubset
  <1> DEFINE H(s) == CHOOSE h : Sums(f, s, h)
             p == Pick(A)
             top == IF A = {} THEN 0 ELSE f[p] + H(A \ {p})[A \ {p}]
             g == [s \in SUBSET A |-> IF s = A THEN top ELSE H(s)[s]]
  <1>3. A \subseteq S /\ IsFiniteSet(A) /\ ~ \E h : Sums(f, A, h)
    BY <1>2, FS_Subset
  <1>4. ASSUME NEW s, s \subseteq A, s # A
        PROVE  Sums(f, s, H(s)) /\ IsFiniteSet(s)
    <2>1. s \notin T /\ s \in SUBSET S
      BY <1>2, <1>3, <1>4
    <2>2. \E h : Sums(f, s, h)
      BY <2>1
    <2> QED
      BY <1>3, <1>4, <2>2, FS_Subset
  <1>5. A # {} => p \in A
    BY PickIn
  <1> DEFINE e(s) == IF s = {} THEN 0 ELSE f[Pick(s)] + g[s \ {Pick(s)}]
  <1>6. ASSUME NEW s \in SUBSET A
        PROVE  (IF s = A THEN top ELSE H(s)[s]) = e(s)
    <2>1. CASE s = A
      <3>1. CASE A = {}
        BY <2>1, <3>1
      <3>2. CASE A # {}
        <4>1. A \ {p} \in SUBSET A /\ A \ {p} # A
          BY <1>5, <3>2
        <4>2. g[A \ {p}] = H(A \ {p})[A \ {p}]
          <5> HIDE DEF H, p, top
          <5> QED
            BY <4>1
        <4> QED
          BY <2>1, <3>2, <4>2
      <3> QED
        BY <3>1, <3>2
    <2>2. CASE s # A
      <3>1. Sums(f, s, H(s)) /\ IsFiniteSet(s)
        BY <1>4, <2>2
      <3>2. CASE s = {}
        <4>1. H(s)[s] = 0
          BY <3>1, <3>2, SumsAt
        <4> QED
          BY <2>2, <3>2, <4>1
      <3>3. CASE s # {}
        <4> DEFINE q == Pick(s)
                   t == s \ {q}
        <4>1. q \in s
          BY <3>3, PickIn
        <4>2. t \subseteq s /\ t \in SUBSET A /\ t # A
          BY <2>2, <4>1
        <4>3. Sums(f, t, H(t)) /\ IsFiniteSet(t)
          <5> HIDE DEF H, t
          <5> QED
            BY <1>4, <4>2
        <4>4. H(t)[t] = H(s)[t]
          <5> HIDE DEF H, t
          <5> QED
            BY <3>1, <4>2, <4>3, SumsAgree
        <4>5. g[t] = H(t)[t]
          <5> HIDE DEF H, t, top
          <5> QED
            BY <4>2
        <4>6. H(s)[s] = f[q] + H(s)[t]
          <5> HIDE DEF H
          <5> QED
            BY <3>1, <3>3, SumsAt
        <4>7. H(s)[s] = f[q] + g[t]
          <5> HIDE DEF H, t, q, g
          <5> QED
            BY <4>4, <4>5, <4>6
        <4> HIDE DEF H, top, g
        <4> QED
          BY <2>2, <3>3, <4>7
      <3> QED
        BY <3>2, <3>3
    <2> QED
      BY <2>1, <2>2
  <1>7. g = [s \in SUBSET A |-> e(s)]
    <2> HIDE DEF H, top, e
    <2> QED
      BY <1>6
  <1>8. Sums(f, A, g)
    <2> HIDE DEF g
    <2> QED
      BY <1>7, Zenon DEF Sums
  <1> QED
    BY <1>3, <1>8
-----------------------------------------------------------------------------
(* Sums.                                                                   *)

LEMMA SumEmpty ==
    ASSUME NEW f
    PROVE  SumFunctionOnSet(f, {}) = 0
  <1>1. PICK g : Sums(f, {}, g)
    BY SumsExist, FS_EmptySet
  <1>2. Sums(f, {}, Iter(f, {}))
    BY <1>1, Zenon DEF Sums, Iter
  <1> QED
    BY <1>2, SumsAt, SumIsIter

LEMMA IterSums ==
    ASSUME NEW f, NEW S, IsFiniteSet(S)
    PROVE  Sums(f, S, Iter(f, S))
  <1>1. PICK g : Sums(f, S, g)
    BY SumsExist
  <1> QED
    BY <1>1, Zenon DEF Sums, Iter

(* The sum takes the elements one at a time. *)
LEMMA SumUnfold ==
    ASSUME NEW f, NEW S, IsFiniteSet(S), S # {}
    PROVE  /\ Pick(S) \in S
           /\ SumFunctionOnSet(f, S)
                = f[Pick(S)] + SumFunctionOnSet(f, S \ {Pick(S)})
  <1> DEFINE R == S \ {Pick(S)}
  <1>1. Pick(S) \in S
    BY PickIn
  <1>2. IsFiniteSet(R) /\ R \subseteq S
    BY FS_Subset
  <1> HIDE DEF R
  <1>3. Sums(f, S, Iter(f, S)) /\ Sums(f, R, Iter(f, R))
    BY <1>2, IterSums
  <1>4. Iter(f, S)[R] = Iter(f, R)[R]
    BY <1>2, <1>3, SumsAgree
  <1>5. Iter(f, S)[S] = f[Pick(S)] + Iter(f, S)[S \ {Pick(S)}]
    BY <1>3, SumsAt
  <1>6. Iter(f, S)[S] = f[Pick(S)] + Iter(f, R)[R]
    BY <1>4, <1>5 DEF R
  <1>7. SumFunctionOnSet(f, S) = Iter(f, S)[S]
        /\ SumFunctionOnSet(f, R) = Iter(f, R)[R]
    BY SumIsIter
  <1>8. SumFunctionOnSet(f, S) = f[Pick(S)] + SumFunctionOnSet(f, R)
    BY <1>6, <1>7
  <1> QED
    BY <1>1, <1>8 DEF R

(* A sum of naturals is a natural. *)
LEMMA SumType ==
    ASSUME NEW f, NEW S, IsFiniteSet(S), \A x \in S : f[x] \in Nat
    PROVE  SumFunctionOnSet(f, S) \in Nat
  <1> DEFINE T == {A \in SUBSET S : SumFunctionOnSet(f, A) \notin Nat}
  <1>1. SUFFICES ASSUME T # {} PROVE FALSE
    BY <1>1
  <1>2. PICK A \in T : \A B \in T : B \subseteq A => B = A
    <2>1. T \subseteq SUBSET S
      OBVIOUS
    <2> HIDE DEF T
    <2> QED
      BY <1>1, <2>1, MinimalSubset
  <1>3. A \subseteq S /\ SumFunctionOnSet(f, A) \notin Nat
    BY <1>2
  <1>4. A # {} /\ IsFiniteSet(A)
    <2>1. SumFunctionOnSet(f, {}) \in Nat
      BY SumEmpty
    <2> QED
      BY <1>3, <2>1, FS_Subset
  <1>5. PICK p : p \in A /\ SumFunctionOnSet(f, A)
                              = f[p] + SumFunctionOnSet(f, A \ {p})
    BY <1>4, SumUnfold
  <1>6. SumFunctionOnSet(f, A \ {p}) \in Nat
    BY <1>2, <1>3, <1>5
  <1>7. f[p] \in Nat
    BY <1>3, <1>5
  <1> QED
    BY <1>3, <1>5, <1>6, <1>7

(* Two functions that agree on a set have the same sum over it. *)
LEMMA SumSame ==
    ASSUME NEW f, NEW g, NEW S, IsFiniteSet(S), \A x \in S : f[x] = g[x]
    PROVE  SumFunctionOnSet(f, S) = SumFunctionOnSet(g, S)
  <1> DEFINE T == {A \in SUBSET S :
                     SumFunctionOnSet(f, A) # SumFunctionOnSet(g, A)}
  <1>1. SUFFICES ASSUME T # {} PROVE FALSE
    BY <1>1
  <1>2. PICK A \in T : \A B \in T : B \subseteq A => B = A
    <2>1. T \subseteq SUBSET S
      OBVIOUS
    <2> HIDE DEF T
    <2> QED
      BY <1>1, <2>1, MinimalSubset
  <1>3. A \subseteq S /\ SumFunctionOnSet(f, A) # SumFunctionOnSet(g, A)
    BY <1>2
  <1>4. A # {} /\ IsFiniteSet(A)
    BY <1>3, SumEmpty, FS_Subset
  <1> DEFINE p == Pick(A)
  <1>5. p \in A /\ SumFunctionOnSet(f, A) = f[p] + SumFunctionOnSet(f, A \ {p})
               /\ SumFunctionOnSet(g, A) = g[p] + SumFunctionOnSet(g, A \ {p})
    BY <1>4, SumUnfold
  <1>6. SumFunctionOnSet(f, A \ {p}) = SumFunctionOnSet(g, A \ {p})
    BY <1>2, <1>3, <1>5
  <1>7. f[p] = g[p]
    BY <1>3, <1>5
  <1> QED
    BY <1>3, <1>5, <1>6, <1>7

(* Any element may be taken first. *)
LEMMA SumRemove ==
    ASSUME NEW f, NEW S, IsFiniteSet(S), \A x \in S : f[x] \in Nat,
           NEW e \in S
    PROVE  SumFunctionOnSet(f, S) = f[e] + SumFunctionOnSet(f, S \ {e})
  <1> DEFINE Fails(A, x) == SumFunctionOnSet(f, A)
                              # f[x] + SumFunctionOnSet(f, A \ {x})
             T == {A \in SUBSET S : \E x \in A : Fails(A, x)}
  <1>1. SUFFICES ASSUME T # {} PROVE FALSE
    <2>1. S \notin T
      BY <1>1
    <2> QED
      BY <2>1
  <1>2. PICK A \in T : \A B \in T : B \subseteq A => B = A
    <2>1. T \subseteq SUBSET S
      OBVIOUS
    <2> HIDE DEF T
    <2> QED
      BY <1>1, <2>1, MinimalSubset
  <1>3. PICK x \in A : Fails(A, x)
    BY <1>2
  <1>4. A \subseteq S /\ A # {} /\ IsFiniteSet(A)
    BY <1>2, <1>3, FS_Subset
  <1>5. PICK p : p \in A /\ SumFunctionOnSet(f, A)
                              = f[p] + SumFunctionOnSet(f, A \ {p})
    BY <1>4, SumUnfold
  <1>6. p # x
    BY <1>3, <1>5
  <1>7. ASSUME NEW y \in A, NEW z \in A, y # z
        PROVE  SumFunctionOnSet(f, A \ {y})
                 = f[z] + SumFunctionOnSet(f, (A \ {y}) \ {z})
    <2> DEFINE B == A \ {y}
    <2>1. B \subseteq A /\ B # A /\ z \in B /\ B \subseteq S
      BY <1>4, <1>7
    <2>2. B \notin T
      <3> HIDE DEF T, B
      <3> QED
        BY <1>2, <2>1
    <2>3. ~ Fails(B, z)
      <3> HIDE DEF Fails, B
      <3> QED
        BY <2>1, <2>2 DEF T
    <2> QED
      BY <2>3
  <1> DEFINE D == (A \ {p}) \ {x}
  <1>8. SumFunctionOnSet(f, A \ {p}) = f[x] + SumFunctionOnSet(f, D)
    BY <1>5, <1>6, <1>7
  <1>9. SumFunctionOnSet(f, A \ {x}) = f[p] + SumFunctionOnSet(f, D)
    <2>1. (A \ {x}) \ {p} = D
      OBVIOUS
    <2> HIDE DEF D
    <2> QED
      BY <1>3, <1>5, <1>6, <1>7, <2>1
  <1>10. f[p] \in Nat /\ f[x] \in Nat /\ SumFunctionOnSet(f, D) \in Nat
    <2>1. IsFiniteSet(D) /\ D \subseteq S
      BY <1>4, FS_Subset
    <2>2. SumFunctionOnSet(f, D) \in Nat
      <3> HIDE DEF D
      <3> QED
        BY <2>1, SumType
    <2> QED
      BY <1>4, <1>5, <2>2
  <1>11. SumFunctionOnSet(f, A) # f[x] + SumFunctionOnSet(f, A \ {x})
    BY <1>3
  <1> HIDE DEF D, T
  <1> QED
    BY ONLY <1>5, <1>8, <1>9, <1>10, <1>11

(* A sum changes with one of its terms. *)
LEMMA SumChange ==
    ASSUME NEW f, NEW g, NEW S, IsFiniteSet(S), NEW e \in S,
           \A x \in S : f[x] \in Nat /\ g[x] \in Nat,
           \A x \in S \ {e} : f[x] = g[x]
    PROVE  \E rest \in Nat : /\ SumFunctionOnSet(f, S) = f[e] + rest
                            /\ SumFunctionOnSet(g, S) = g[e] + rest
  <1> DEFINE R == S \ {e}
  <1>1. IsFiniteSet(R) /\ R \subseteq S
    BY FS_Subset
  <1>2. SumFunctionOnSet(f, S) = f[e] + SumFunctionOnSet(f, R)
    BY SumRemove
  <1>3. SumFunctionOnSet(g, S) = g[e] + SumFunctionOnSet(g, R)
    BY SumRemove
  <1>4. \A x \in R : f[x] = g[x] /\ f[x] \in Nat
    OBVIOUS
  <1> HIDE DEF R
  <1>5. SumFunctionOnSet(f, R) = SumFunctionOnSet(g, R)
    BY <1>1, <1>4, SumSame
  <1>6. SumFunctionOnSet(f, R) \in Nat
    BY <1>1, <1>4, SumType
  <1> QED
    BY <1>2, <1>3, <1>5, <1>6

(* Setting the terms of a part of the set to zero takes its sum away. *)
LEMMA SumSplit ==
    ASSUME NEW f, NEW S, IsFiniteSet(S), \A x \in S : f[x] \in Nat,
           NEW A, A \subseteq S
    PROVE  SumFunctionOnSet([x \in S |-> IF x \in A THEN 0 ELSE f[x]], S)
             + SumFunctionOnSet(f, A) = SumFunctionOnSet(f, S)
  <1> DEFINE cut(B) == [x \in S |-> IF x \in B THEN 0 ELSE f[x]]
             Fails(B) == SumFunctionOnSet(cut(B), S)
                           + SumFunctionOnSet(f, B) # SumFunctionOnSet(f, S)
             T == {B \in SUBSET S : Fails(B)}
  <1>0. \A B : B \subseteq S =>
             SumFunctionOnSet(cut(B), S) \in Nat /\ SumFunctionOnSet(f, B) \in Nat
    <2> TAKE B
    <2> HAVE B \subseteq S
    <2>1. \A x \in S : cut(B)[x] \in Nat
      OBVIOUS
    <2>2. IsFiniteSet(B) /\ \A x \in B : f[x] \in Nat
      BY FS_Subset
    <2>3. SumFunctionOnSet(f, B) \in Nat
      BY <2>2, SumType
    <2> HIDE DEF cut
    <2> QED
      BY <2>1, <2>3, SumType
  <1>1. SUFFICES ASSUME T # {} PROVE FALSE
    <2>1. A \notin T
      BY <1>1
    <2> QED
      BY <2>1
  <1>2. PICK B \in T : \A C \in T : C \subseteq B => C = B
    <2>1. T \subseteq SUBSET S
      OBVIOUS
    <2> HIDE DEF T
    <2> QED
      BY <1>1, <2>1, MinimalSubset
  <1>3. B \subseteq S /\ Fails(B)
    BY <1>2
  <1>4. B # {}
    <2>1. SUFFICES ASSUME B = {} PROVE FALSE
      OBVIOUS
    <2>2. \A x \in S : cut({})[x] = f[x]
      OBVIOUS
    <2>3. SumFunctionOnSet(cut({}), S) = SumFunctionOnSet(f, S)
      <3> HIDE DEF cut
      <3> QED
        BY <2>2, SumSame
    <2>4. SumFunctionOnSet(f, S) \in Nat
      BY SumType
    <2>5. SumFunctionOnSet(f, {}) = 0
      BY SumEmpty
    <2> HIDE DEF cut
    <2> QED
      BY <1>3, <2>1, <2>3, <2>4, <2>5
  <1>5. PICK e : e \in B
    BY <1>4
  <1> DEFINE C == B \ {e}
  <1>6. C \subseteq S /\ C # B /\ C \subseteq B
    BY <1>3, <1>5
  <1>7. ~Fails(C)
    <2>1. C \notin T
      <3> HIDE DEF T, C
      <3> QED
        BY <1>2, <1>6
    <2> HIDE DEF Fails, C
    <2> QED
      BY <1>6, <2>1 DEF T
  <1>8. PICK rest \in Nat : /\ SumFunctionOnSet(cut(B), S) = 0 + rest
                            /\ SumFunctionOnSet(cut(C), S) = f[e] + rest
    <2>1. /\ \A x \in S : cut(B)[x] \in Nat /\ cut(C)[x] \in Nat
          /\ \A x \in S \ {e} : cut(B)[x] = cut(C)[x]
          /\ e \in S /\ cut(B)[e] = 0 /\ cut(C)[e] = f[e]
      BY <1>3, <1>5
    <2> DEFINE cb == cut(B)
               cc == cut(C)
    <2> HIDE DEF cut, C
    <2>2. \E rest \in Nat : /\ SumFunctionOnSet(cb, S) = cb[e] + rest
                             /\ SumFunctionOnSet(cc, S) = cc[e] + rest
      <3>1. /\ \A x \in S : cb[x] \in Nat /\ cc[x] \in Nat
            /\ \A x \in S \ {e} : cb[x] = cc[x] /\ e \in S
        BY <2>1
      <3> HIDE DEF cb, cc
      <3> QED
        BY <3>1, <2>1, SumChange
    <2> QED
      BY <2>1, <2>2
  <1>9. SumFunctionOnSet(f, B) = f[e] + SumFunctionOnSet(f, C)
    <2>1. IsFiniteSet(B) /\ \A x \in B : f[x] \in Nat
      BY <1>3, FS_Subset
    <2> QED
      BY <1>5, <2>1, SumRemove
  <1>10. /\ f[e] \in Nat /\ SumFunctionOnSet(f, C) \in Nat
         /\ SumFunctionOnSet(f, S) \in Nat
    BY <1>0, <1>3, <1>5, <1>6
  <1>11. /\ SumFunctionOnSet(cut(B), S) + SumFunctionOnSet(f, B)
              # SumFunctionOnSet(f, S)
         /\ SumFunctionOnSet(cut(C), S) + SumFunctionOnSet(f, C)
              = SumFunctionOnSet(f, S)
    BY <1>3, <1>7
  <1> HIDE DEF cut, C
  <1> QED
    BY ONLY <1>8, <1>9, <1>10, <1>11

(* Nothing adds up to nothing. *)
LEMMA SumZeros ==
    ASSUME NEW f, NEW S, IsFiniteSet(S), \A x \in S : f[x] = 0
    PROVE  SumFunctionOnSet(f, S) = 0
  <1>1. SumFunctionOnSet(f, S) \in Nat
    BY SumType
  <1>2. PICK g : g = [x \in S |-> IF x \in S THEN 0 ELSE f[x]]
    OBVIOUS
  <1>3. SumFunctionOnSet(g, S) + SumFunctionOnSet(f, S)
            = SumFunctionOnSet(f, S)
    BY <1>2, SumSplit
  <1>4. \A x \in S : g[x] = f[x]
    BY <1>2
  <1>5. SumFunctionOnSet(g, S) = SumFunctionOnSet(f, S)
    BY <1>4, SumSame
  <1> DEFINE sum == SumFunctionOnSet(f, S)
  <1>6. sum \in Nat /\ sum + sum = sum
    BY <1>1, <1>3, <1>5
  <1>7. \A n \in Nat : n + n = n => n = 0
    OBVIOUS
  <1> HIDE DEF sum
  <1>8. sum = 0
    BY ONLY <1>6, <1>7
  <1> QED
    BY <1>8 DEF sum

(* A sum may be taken over names for the terms: names no two of which name *)
(* the same term, of terms that are all there is but zeros.                *)
LEMMA SumRenamed ==
    ASSUME NEW f, NEW S, IsFiniteSet(S), \A x \in S : f[x] \in Nat,
           NEW g, NEW L, IsFiniteSet(L), NEW name,
           \A o \in L : name[o] \in S /\ g[o] = f[name[o]],
           \A o, x \in L : name[o] = name[x] => o = x,
           \A x \in S : (\A o \in L : name[o] # x) => f[x] = 0
    PROVE  SumFunctionOnSet(g, L) = SumFunctionOnSet(f, S)
  <1> DEFINE Named(B) == {name[o] : o \in B}
             Fails(B) == SumFunctionOnSet(g, B)
                           # SumFunctionOnSet(f, Named(B))
             T == {B \in SUBSET L : Fails(B)}
  <1>1. ASSUME T # {} PROVE FALSE
    <2>1. PICK B \in T : \A C \in T : C \subseteq B => C = B
      <3>1. T \subseteq SUBSET L
        OBVIOUS
      <3> HIDE DEF T
      <3> QED
        BY <1>1, <3>1, MinimalSubset
    <2>2. B \subseteq L /\ Fails(B)
      BY <2>1
    <2>3. B # {}
      <3>1. SUFFICES ASSUME B = {} PROVE FALSE
        OBVIOUS
      <3>2. Named(B) = {}
        BY <3>1
      <3> QED
        BY <2>2, <3>1, <3>2, SumEmpty
    <2>4. PICK e : e \in B
      BY <2>3
    <2> DEFINE C == B \ {e}
               N == Named(B)
    <2>5. C \subseteq L /\ C # B /\ C \subseteq B
      BY <2>2, <2>4
    <2>6. SumFunctionOnSet(g, C) = SumFunctionOnSet(f, Named(C))
      <3>1. C \notin T
        <4> HIDE DEF T, C
        <4> QED
          BY <2>1, <2>5
      <3>2. ~Fails(C)
        <4> HIDE DEF Fails, C
        <4> QED
          BY <2>5, <3>1 DEF T
      <3> QED
        BY <3>2
    <2>7. Named(C) = N \ {name[e]} /\ name[e] \in N /\ N \subseteq S
      BY <2>2, <2>4
    <2>8. SumFunctionOnSet(g, B) = g[e] + SumFunctionOnSet(g, C)
      <3>1. IsFiniteSet(B) /\ \A o \in B : g[o] \in Nat
        BY <2>2, FS_Subset
      <3> QED
        BY <2>4, <3>1, SumRemove
    <2>9. SumFunctionOnSet(f, N)
            = f[name[e]] + SumFunctionOnSet(f, N \ {name[e]})
      <3> HIDE DEF N
      <3>1. IsFiniteSet(N) /\ \A x \in N : f[x] \in Nat
        BY <2>7, FS_Subset
      <3> QED
        BY <2>7, <3>1, SumRemove
    <2>10. g[e] = f[name[e]]
      BY <2>2, <2>4
    <2>11. SumFunctionOnSet(g, B) = SumFunctionOnSet(f, N)
      <3> HIDE DEF C, N, Named
      <3> QED
        BY <2>6, <2>7, <2>8, <2>9, <2>10
    <2> QED
      BY <2>2, <2>11
  <1>2. SumFunctionOnSet(g, L) = SumFunctionOnSet(f, Named(L))
    <2>1. L \notin T
      BY <1>1
    <2> QED
      BY <2>1
  <1> DEFINE A == Named(L)
             rest == [x \in S |-> IF x \in A THEN 0 ELSE f[x]]
  <1>3. A \subseteq S /\ IsFiniteSet(A) /\ \A x \in A : f[x] \in Nat
    <2>1. A \subseteq S
      OBVIOUS
    <2> HIDE DEF A
    <2> QED
      BY <2>1, FS_Subset
  <1>4. SumFunctionOnSet(rest, S) = 0
    <2>1. \A x \in S : rest[x] = 0
      OBVIOUS
    <2> HIDE DEF rest
    <2> QED
      BY <2>1, SumZeros
  <1>5. SumFunctionOnSet(rest, S) + SumFunctionOnSet(f, A)
            = SumFunctionOnSet(f, S)
    <2> HIDE DEF A
    <2> QED
      BY <1>3, SumSplit
  <1>6. SumFunctionOnSet(f, A) \in Nat
    <2> HIDE DEF A
    <2> QED
      BY <1>3, SumType
  <1>7. SumFunctionOnSet(f, A) = SumFunctionOnSet(f, S)
    <2> HIDE DEF A, rest
    <2> QED
      BY ONLY <1>4, <1>5, <1>6
  <1> QED
    BY <1>2, <1>7
=============================================================================
