--------------------------------- MODULE Sums --------------------------------
(***************************************************************************)
(* Sums of a function over a finite set: what the fold of the community    *)
(* modules computes, proved from its definition.  Induction over finite    *)
(* sets is used as the existence of a smallest counterexample.             *)
(***************************************************************************)
EXTENDS Integers, FiniteSets, FiniteSetsExt, FiniteSetTheorems, TLAPS

(* The sum of the values f gives to the elements of S.                     *)
SumOver(f, S) == MapThenSumSet(LAMBDA t : f[t], S)

-----------------------------------------------------------------------------
(* The fold.                                                               *)

(* Among sets of subsets of a finite set there is one that is smallest.    *)
LEMMA SmallestSubset ==
  ASSUME NEW S, IsFiniteSet(S), NEW C \in SUBSET SUBSET S, C # {}
  PROVE  \E A \in C : \A B \in C : B \subseteq A => B = A
<1>1. IsWellFoundedOn(StrictSubsetOrdering(S), SUBSET S)
  BY FS_StrictSubsetOrderingWellFounded, FS_FiniteSubsetsOfFinite
<1>2. PICK A \in C : \A B \in C : ~(<<B, A>> \in StrictSubsetOrdering(S))
  BY <1>1, WFMin
<1>3. ASSUME NEW B \in C, B \subseteq A, B # A
      PROVE  <<B, A>> \in StrictSubsetOrdering(S)
  BY <1>3 DEF StrictSubsetOrdering
<1>4. \A B \in C : B \subseteq A => B = A
  BY <1>2, <1>3
<1>. QED
  BY <1>4

(* The equation of the fold, and the elements it takes first.              *)
First(s) == CHOOSE x \in s : TRUE
Folded(g, f, S) ==
  g = [s \in SUBSET S |-> IF s = {} THEN 0 ELSE f[First(s)] + g[s \ {First(s)}]]

(* The element taken first is one of the set.                              *)
LEMMA FirstIsElement == ASSUME NEW s, s # {} PROVE First(s) \in s
BY DEF First

(* The sum of the community modules is such a fold.                        *)
LEMMA SumIsFold ==
  ASSUME NEW f, NEW S
  PROVE  SumOver(f, S) = (CHOOSE g : Folded(g, f, S))[S]
BY DEF SumOver, MapThenSumSet, MapThenFoldSet, Folded, First

(* Two folds agree on a set where their functions do.                      *)
LEMMA FoldsAgree ==
  ASSUME NEW f, NEW e, NEW S, IsFiniteSet(S), NEW T, NEW A \in SUBSET S, A \subseteq T,
         NEW g, NEW h, Folded(g, f, S), Folded(h, e, T), \A t \in A : f[t] = e[t]
  PROVE  g[A] = h[A]
<1>. DEFINE C == {B \in SUBSET S : B \subseteq A /\ g[B] # h[B]}
<1>1. SUFFICES ASSUME C # {} PROVE FALSE
  OBVIOUS
<1>2. PICK B \in C : \A D \in C : D \subseteq B => D = B
  <2>. C \in SUBSET SUBSET S
    OBVIOUS
  <2>. HIDE DEF C
  <2>. QED
    BY <1>1, SmallestSubset
<1>3. B # {}
  BY DEF Folded
<1>4. First(B) \in B /\ B \ {First(B)} \in SUBSET S /\ B \ {First(B)} # B
  BY <1>3, FirstIsElement
<1>5. g[B \ {First(B)}] = h[B \ {First(B)}]
  BY <1>2, <1>4
<1>6. g[B] = f[First(B)] + g[B \ {First(B)}]
  BY <1>3 DEF Folded
<1>7. h[B] = e[First(B)] + h[B \ {First(B)}]
  BY <1>3 DEF Folded
<1>. QED
  BY <1>4, <1>5, <1>6, <1>7

(* There is a fold: one that is right for the sets of at most n elements,  *)
(* for every n.                                                            *)
FoldedUpTo(n, g, f, S) ==
  \A s \in SUBSET S : Cardinality(s) <= n =>
    g[s] = IF s = {} THEN 0 ELSE f[First(s)] + g[s \ {First(s)}]

(* One that is right up to n gives one that is right up to n + 1.          *)
LEMMA FoldExtends ==
  ASSUME NEW f, NEW S, IsFiniteSet(S), NEW n \in Nat, NEW g, FoldedUpTo(n, g, f, S)
  PROVE  \E h : FoldedUpTo(n + 1, h, f, S)
<1>. DEFINE h == [s \in SUBSET S |->
                    IF s = {} THEN 0 ELSE f[First(s)] + g[s \ {First(s)}]]
<1>1. SUFFICES ASSUME NEW s \in SUBSET S, Cardinality(s) <= n + 1, s # {}
               PROVE  h[s \ {First(s)}] = g[s \ {First(s)}]
  BY DEF FoldedUpTo
<1>. DEFINE r == s \ {First(s)}
<1>2. First(s) \in s /\ IsFiniteSet(s) /\ r \in SUBSET S
  BY <1>1, FirstIsElement, FS_Subset
<1>3. Cardinality(s) \in Nat /\ Cardinality(r) = Cardinality(s) - 1
  BY <1>2, FS_RemoveElement, FS_CardinalityType
<1>4. Cardinality(r) <= n
  BY <1>1, <1>3
<1>. QED
  BY <1>2, <1>4 DEF FoldedUpTo

(* Hence every finite set has its fold.                                    *)
LEMMA FoldExists ==
  ASSUME NEW f, NEW S, IsFiniteSet(S)
  PROVE  \E g : Folded(g, f, S)
<1>. DEFINE C == {n \in Nat : ~\E g : FoldedUpTo(n, g, f, S)}
<1>1. C = {}
  <2>1. SUFFICES ASSUME C # {} PROVE FALSE
    OBVIOUS
  <2>2. PICK n \in C : \A m \in C : ~(<<m, n>> \in OpToRel(<, Nat))
    BY <2>1, NatLessThanWellFounded, WFMin
  <2>3. \A m \in C : ~(m < n)
    BY <2>2 DEF OpToRel
  <2>4. n # 0
    <3>1. FoldedUpTo(0, [s \in SUBSET S |-> 0], f, S)
      <4>1. ASSUME NEW s \in SUBSET S, Cardinality(s) <= 0
            PROVE  s = {}
        BY <4>1, FS_Subset, FS_CardinalityType, FS_EmptySet
      <4>. QED
        BY <4>1 DEF FoldedUpTo
    <3>. QED
      BY <3>1
  <2>5. n - 1 \in Nat /\ n - 1 < n /\ (n - 1) + 1 = n
    BY <2>4
  <2>6. PICK g : FoldedUpTo(n - 1, g, f, S)
    BY <2>3, <2>5
  <2>. QED
    BY <2>5, <2>6, FoldExtends
<1>2. Cardinality(S) \in Nat
  BY FS_CardinalityType
<1>3. PICK g : FoldedUpTo(Cardinality(S), g, f, S)
  BY <1>1, <1>2
<1>. DEFINE h == [s \in SUBSET S |-> g[s]]
<1>4. ASSUME NEW s \in SUBSET S
      PROVE  h[s] = IF s = {} THEN 0 ELSE f[First(s)] + h[s \ {First(s)}]
  <2>1. Cardinality(s) <= Cardinality(S)
    BY FS_Subset
  <2>. QED
    BY <1>3, <2>1 DEF FoldedUpTo
<1>5. Folded(h, f, S)
  BY <1>4 DEF Folded
<1>. QED
  BY <1>5

(* One fold gives the sums over all the subsets.                           *)
LEMMA SumByFold ==
  ASSUME NEW f, NEW S, IsFiniteSet(S)
  PROVE  \E g : Folded(g, f, S) /\ \A A \in SUBSET S : SumOver(f, A) = g[A]
<1>1. PICK g : Folded(g, f, S)
  BY FoldExists
<1>2. ASSUME NEW A \in SUBSET S
      PROVE  SumOver(f, A) = g[A]
  <2>1. IsFiniteSet(A)
    BY FS_Subset
  <2>. DEFINE h == CHOOSE h : Folded(h, f, A)
  <2>2. Folded(h, f, A)
    BY <2>1, FoldExists
  <2>3. SumOver(f, A) = h[A]
    BY SumIsFold
  <2>. HIDE DEF h
  <2>. QED
    BY <2>2, <2>3, <1>1, FoldsAgree
<1>. QED
  BY <1>1, <1>2

-----------------------------------------------------------------------------
(* Sums.                                                                   *)

(* Nothing sums up to zero.                                                *)
LEMMA SumEmpty == ASSUME NEW f PROVE SumOver(f, {}) = 0
<1>1. PICK g : Folded(g, f, {}) /\ SumOver(f, {}) = g[{}]
  BY SumByFold, FS_EmptySet
<1>. QED
  BY <1>1 DEF Folded

(* The sum depends on the values in the set only.                          *)
LEMMA SumSame ==
  ASSUME NEW f, NEW e, NEW S, IsFiniteSet(S), \A t \in S : f[t] = e[t]
  PROVE  SumOver(f, S) = SumOver(e, S)
<1>1. PICK g : Folded(g, f, S) /\ SumOver(f, S) = g[S]
  BY SumByFold
<1>2. PICK h : Folded(h, e, S) /\ SumOver(e, S) = h[S]
  BY SumByFold
<1>. QED
  BY <1>1, <1>2, FoldsAgree

(* The element the fold begins with may be taken off.                      *)
LEMMA SumFirst ==
  ASSUME NEW f, NEW S, IsFiniteSet(S), S # {}
  PROVE  SumOver(f, S) = f[First(S)] + SumOver(f, S \ {First(S)})
<1>1. PICK g : Folded(g, f, S) /\ \A A \in SUBSET S : SumOver(f, A) = g[A]
  BY SumByFold
<1>2. g[S] = f[First(S)] + g[S \ {First(S)}]
  BY <1>1 DEF Folded
<1>. QED
  BY <1>1, <1>2

(* A sum of integers is an integer.                                        *)
LEMMA SumTyped ==
  ASSUME NEW S, IsFiniteSet(S), NEW f, \A t \in S : f[t] \in Int
  PROVE  SumOver(f, S) \in Int
<1>. DEFINE C == {A \in SUBSET S : SumOver(f, A) \notin Int}
<1>1. SUFFICES ASSUME C # {} PROVE FALSE
  OBVIOUS
<1>2. PICK A \in C : \A B \in C : B \subseteq A => B = A
  <2>. C \in SUBSET SUBSET S
    OBVIOUS
  <2>. HIDE DEF C
  <2>. QED
    BY <1>1, SmallestSubset
<1>3. A # {}
  BY SumEmpty
<1>4. First(A) \in A /\ IsFiniteSet(A)
  BY <1>3, FirstIsElement, FS_Subset
<1>5. SumOver(f, A \ {First(A)}) \in Int
  BY <1>2, <1>4
<1>6. SumOver(f, A) = f[First(A)] + SumOver(f, A \ {First(A)})
  BY <1>3, <1>4, SumFirst
<1>. HIDE DEF C
<1>7. f[First(A)] \in Int
  BY <1>4 DEF C
<1>8. SumOver(f, A) \in Int
  BY <1>5, <1>6, <1>7
<1>. QED
  BY <1>8 DEF C

(* And a sum of naturals is a natural.                                     *)
LEMMA SumNat ==
  ASSUME NEW S, IsFiniteSet(S), NEW f, \A t \in S : f[t] \in Nat
  PROVE  SumOver(f, S) \in Nat
<1>. DEFINE C == {A \in SUBSET S : SumOver(f, A) \notin Nat}
<1>1. SUFFICES ASSUME C # {} PROVE FALSE
  OBVIOUS
<1>2. PICK A \in C : \A B \in C : B \subseteq A => B = A
  <2>. C \in SUBSET SUBSET S
    OBVIOUS
  <2>. HIDE DEF C
  <2>. QED
    BY <1>1, SmallestSubset
<1>3. A # {}
  BY SumEmpty
<1>4. First(A) \in A /\ IsFiniteSet(A)
  BY <1>3, FirstIsElement, FS_Subset
<1>5. SumOver(f, A \ {First(A)}) \in Nat
  BY <1>2, <1>4
<1>6. SumOver(f, A) = f[First(A)] + SumOver(f, A \ {First(A)})
  BY <1>3, <1>4, SumFirst
<1>. HIDE DEF C
<1>7. f[First(A)] \in Nat
  BY <1>4 DEF C
<1>8. SumOver(f, A) \in Nat
  BY <1>5, <1>6, <1>7
<1>. QED
  BY <1>8 DEF C

(* Any element may be taken off, not only the one the fold begins with.    *)
LEMMA SumRemove ==
  ASSUME NEW S, IsFiniteSet(S), NEW f, \A t \in S : f[t] \in Int, NEW x \in S
  PROVE  SumOver(f, S) = f[x] + SumOver(f, S \ {x})
<1>. DEFINE C == {A \in SUBSET S :
                   \E z \in A : SumOver(f, A) # f[z] + SumOver(f, A \ {z})}
<1>1. SUFFICES ASSUME C # {} PROVE FALSE
  OBVIOUS
<1>2. PICK A \in C : \A B \in C : B \subseteq A => B = A
  <2>. C \in SUBSET SUBSET S
    OBVIOUS
  <2>. HIDE DEF C
  <2>. QED
    BY <1>1, SmallestSubset
<1>3. PICK z \in A : SumOver(f, A) # f[z] + SumOver(f, A \ {z})
  OBVIOUS
<1>4. A # {} /\ IsFiniteSet(A) /\ A \subseteq S
  BY FS_Subset
<1>. DEFINE y == First(A)
<1>5. SumOver(f, A) = f[y] + SumOver(f, A \ {y})
  BY <1>4, SumFirst
<1>6. y \in A
  BY <1>4, FirstIsElement
<1>. HIDE DEF y
<1>7. y # z
  BY <1>3, <1>5
<1>8. \A B \in SUBSET A : B # A =>
        \A w \in B : SumOver(f, B) = f[w] + SumOver(f, B \ {w})
  BY <1>2, <1>4
<1>9. SumOver(f, A \ {y}) = f[z] + SumOver(f, (A \ {y}) \ {z})
  BY <1>6, <1>7, <1>8
<1>10. SumOver(f, A \ {z}) = f[y] + SumOver(f, (A \ {z}) \ {y})
  BY <1>6, <1>7, <1>8
<1>11. (A \ {y}) \ {z} = (A \ {z}) \ {y}
  OBVIOUS
<1>. DEFINE r == SumOver(f, (A \ {z}) \ {y})
<1>12. r \in Int /\ f[z] \in Int /\ f[y] \in Int
  <2>1. IsFiniteSet((A \ {z}) \ {y})
    BY <1>4, FS_Subset
  <2>. QED
    BY <2>1, <1>4, <1>6, SumTyped
<1>. HIDE DEF C, r
<1>13. SumOver(f, A) = f[y] + (f[z] + r) /\ SumOver(f, A \ {z}) = f[y] + r
  BY <1>5, <1>9, <1>10, <1>11 DEF r
<1>14. f[y] + (f[z] + r) = f[z] + (f[y] + r)
  BY <1>12
<1>. QED
  BY <1>3, <1>13, <1>14

(* A value that grows by a makes the sum grow by a.                        *)
LEMMA SumChanged ==
  ASSUME NEW S, IsFiniteSet(S), NEW f, \A t \in S : f[t] \in Int,
         NEW x \in S, NEW a \in Int,
         NEW e, e[x] = f[x] + a, \A t \in S \ {x} : e[t] = f[t]
  PROVE  SumOver(e, S) = SumOver(f, S) + a
<1>1. IsFiniteSet(S \ {x})
  BY FS_Subset
<1>2. SumOver(e, S \ {x}) = SumOver(f, S \ {x})
  BY <1>1, SumSame
<1>. DEFINE r == SumOver(f, S \ {x})
<1>3. r \in Int /\ f[x] \in Int /\ f[x] + a \in Int
  BY <1>1, SumTyped
<1>4. \A t \in S : e[t] \in Int
  BY <1>3
<1>5. SumOver(f, S) = f[x] + r
  BY SumRemove
<1>6. SumOver(e, S) = (f[x] + a) + r
  BY <1>2, <1>4, SumRemove
<1>. HIDE DEF r
<1>7. (f[x] + a) + r = (f[x] + r) + a
  BY <1>3
<1>. QED
  BY <1>5, <1>6, <1>7

(* What is zero does not count.                                            *)
LEMMA SumWithZeros ==
  ASSUME NEW T, IsFiniteSet(T), NEW S \in SUBSET T,
         NEW f, \A t \in T : f[t] \in Int, \A t \in T \ S : f[t] = 0
  PROVE  SumOver(f, T) = SumOver(f, S)
<1>. DEFINE C == {A \in SUBSET T : S \subseteq A /\ SumOver(f, A) # SumOver(f, S)}
<1>1. SUFFICES ASSUME C # {} PROVE FALSE
  OBVIOUS
<1>2. PICK A \in C : \A B \in C : B \subseteq A => B = A
  <2>. C \in SUBSET SUBSET T
    OBVIOUS
  <2>. HIDE DEF C
  <2>. QED
    BY <1>1, SmallestSubset
<1>3. PICK z \in A : z \notin S
  OBVIOUS
<1>4. IsFiniteSet(A) /\ IsFiniteSet(A \ {z}) /\ A \subseteq T
  BY FS_Subset
<1>5. SumOver(f, A) = f[z] + SumOver(f, A \ {z})
  BY <1>4, SumRemove
<1>6. SumOver(f, A \ {z}) \in Int
  BY <1>4, SumTyped
<1>7. f[z] = 0
  BY <1>3, <1>4
<1>8. SumOver(f, A) = SumOver(f, A \ {z})
  BY <1>5, <1>6, <1>7
<1>. QED
  BY <1>2, <1>3, <1>8
=============================================================================
