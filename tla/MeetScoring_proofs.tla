------------------------- MODULE MeetScoring_proofs -------------------------
(***************************************************************************)
(* Proofs about MeetScoring.  The library's induction theorems cannot be   *)
(* instantiated by the provers, so that induction is stated here over sets *)
(* of numbers, of subsets and of pairs.                                    *)
(***************************************************************************)
EXTENDS MeetScoring, FiniteSetTheorems, WellFoundedInduction, TLAPS

(* Any set of numbers that is not empty has a least one. *)
LEMMA LeastNumber == ASSUME NEW S \in SUBSET Nat, S # {} PROVE \E n \in S : \A m \in S : n <= m
<1>1. PICK n \in S : \A m \in S : ~(<<m, n>> \in OpToRel(<, Nat))
  BY NatLessThanWellFounded, WFMin
<1>2. ASSUME NEW m \in S PROVE n <= m
  <2>1. ~(m < n)
    BY <1>1 DEF OpToRel
  <2> QED BY <2>1
<1> QED BY <1>2

(* Induction over numbers. *)
LEMMA NumberInduction ==
  ASSUME NEW S \in SUBSET Nat, 0 \in S, \A n \in S : n + 1 \in S
  PROVE  S = Nat
<1> SUFFICES ASSUME Nat \ S # {} PROVE FALSE
  OBVIOUS
<1>1. PICK n \in Nat \ S : \A m \in Nat \ S : n <= m
  BY LeastNumber
<1>2. n # 0 /\ n - 1 \in Nat
  OBVIOUS
<1>3. n - 1 \in S
  BY <1>1, <1>2
<1> QED BY <1>2, <1>3

LEMMA FilledByCount == ASSUME NEW s, NEW n \in Nat, Cardinality(s) = n + 1 PROVE s # {}
<1> SUFFICES ASSUME s = {} PROVE FALSE
  OBVIOUS
<1>1. Cardinality({}) = 0
  BY FS_EmptySet
<1>2. Cardinality(s) = 0
  BY <1>1
<1> QED BY <1>2

LEMMA CountWithout ==
  ASSUME NEW s, IsFiniteSet(s), NEW x \in s, NEW n \in Nat, Cardinality(s) = n + 1
  PROVE  IsFiniteSet(s \ {x}) /\ Cardinality(s \ {x}) = n
<1>1. IsFiniteSet(s \ {x}) /\ Cardinality(s \ {x}) = Cardinality(s) - 1
  BY FS_RemoveElement
<1> QED BY <1>1

(* Induction over the subsets of a finite set. *)
LEMMA SubsetInduction ==
  ASSUME NEW S, IsFiniteSet(S), NEW C \in SUBSET SUBSET S,
         {} \in C, \A T \in C : \A x \in S \ T : T \cup {x} \in C
  PROVE  \A T \in SUBSET S : T \in C
<1> DEFINE D == {n \in Nat : \A T \in SUBSET S : Cardinality(T) = n => T \in C}
<1>1. \A T \in SUBSET S : IsFiniteSet(T) /\ Cardinality(T) \in Nat
  BY FS_Subset, FS_CardinalityType
<1>2. 0 \in D
  BY <1>1, FS_EmptySet
<1>3. ASSUME NEW n \in D PROVE n + 1 \in D
  <2> SUFFICES ASSUME NEW T \in SUBSET S, Cardinality(T) = n + 1 PROVE T \in C
    OBVIOUS
  <2>1. T # {}
    <3>1. n \in Nat
      OBVIOUS
    <3> QED BY <3>1, FilledByCount
  <2>2. PICK x \in T : TRUE
    BY <2>1
  <2>3. Cardinality(T \ {x}) = n
    BY <1>1, <2>2, CountWithout
  <2>4. T \ {x} \in C
    BY <2>3
  <2>5. T = (T \ {x}) \cup {x} /\ x \in S \ (T \ {x})
    BY <2>2
  <2> QED BY <2>4, <2>5
<1>4. D = Nat
  <2> HIDE DEF D
  <2>1. D \in SUBSET Nat
    BY DEF D
  <2> QED BY <1>2, <1>3, <2>1, NumberInduction
<1> QED BY <1>1, <1>4
-----------------------------------------------------------------------------
(* Sums over finite sets, of a function on them. *)

Picked(s) == CHOOSE x \in s : TRUE
Total(f, S) == MapThenSumSet(LAMBDA x : f[x], S)
Sums(g, f, S) == g = [s \in SUBSET S |-> IF s = {} THEN 0 ELSE f[Picked(s)] + g[s \ {Picked(s)}]]

LEMMA PickedIsIn == ASSUME NEW s, s # {} PROVE Picked(s) \in s
BY DEF Picked

LEMMA SumsExist == ASSUME NEW S, IsFiniteSet(S), NEW f PROVE \E g : Sums(g, f, S)
<1> DEFINE Small(n) == {s \in SUBSET S : Cardinality(s) <= n}
           Upto(g, n) == g = [s \in Small(n) |-> IF s = {} THEN 0 ELSE f[Picked(s)] + g[s \ {Picked(s)}]]
           D == {n \in Nat : \E g : Upto(g, n)}
<1>1. \A s \in SUBSET S : IsFiniteSet(s) /\ Cardinality(s) \in Nat
  BY FS_Subset, FS_CardinalityType
<1>2. 0 \in D
  <2>1. \A s \in Small(0) : s = {}
    BY <1>1, FS_EmptySet
  <2>2. Upto([s \in Small(0) |-> 0], 0)
    BY <2>1
  <2> QED BY <2>2
<1>3. ASSUME NEW n \in D PROVE n + 1 \in D
  <2>0. n \in Nat
    OBVIOUS
  <2>1. PICK g : Upto(g, n)
    OBVIOUS
  <2> DEFINE h == [s \in Small(n + 1) |-> IF s \in Small(n) THEN g[s] ELSE f[Picked(s)] + g[s \ {Picked(s)}]]
  <2>2. ASSUME NEW s \in Small(n + 1), s # {}
        PROVE  s \ {Picked(s)} \in Small(n)
    <3>1. Cardinality(s \ {Picked(s)}) = Cardinality(s) - 1
      BY <1>1, <2>2, PickedIsIn, FS_RemoveElement
    <3> QED BY <1>1, <2>0, <3>1
  <2>3. ASSUME NEW s \in Small(n + 1)
        PROVE  h[s] = IF s = {} THEN 0 ELSE f[Picked(s)] + h[s \ {Picked(s)}]
    <3>1. CASE s = {}
      <4>1. s \in Small(n)
        BY <2>0, <3>1, FS_EmptySet
      <4> QED BY <2>1, <3>1, <4>1
    <3>2. CASE s # {}
      <4>1. s \ {Picked(s)} \in Small(n) /\ s \ {Picked(s)} \in Small(n + 1)
        <5>1. Small(n) \subseteq Small(n + 1)
          BY <1>1, <2>0
        <5> HIDE DEF Small
        <5> QED BY <2>2, <3>2, <5>1
      <4> HIDE DEF Small
      <4>2. h[s \ {Picked(s)}] = g[s \ {Picked(s)}]
        BY <4>1
      <4>3. h[s] = f[Picked(s)] + g[s \ {Picked(s)}]
        <5>1. CASE s \in Small(n)
          BY <2>1, <3>2, <5>1
        <5>2. CASE s \notin Small(n)
          BY <5>2
        <5> QED BY <5>1, <5>2
      <4> QED BY <3>2, <4>2, <4>3
    <3> QED BY <3>1, <3>2
  <2>4. Upto(h, n + 1)
    <3> HIDE DEF Small
    <3>1. h = [s \in Small(n + 1) |-> h[s]]
      OBVIOUS
    <3> HIDE DEF h
    <3> QED BY <2>3, <3>1
  <2> HIDE DEF Upto
  <2> QED BY <2>0, <2>4
<1>4. D = Nat
  <2> HIDE DEF D
  <2>1. D \in SUBSET Nat
    BY DEF D
  <2> QED BY <1>2, <1>3, <2>1, NumberInduction
<1>5. PICK g : Upto(g, Cardinality(S))
  <2>1. Cardinality(S) \in D
    BY <1>4, FS_CardinalityType
  <2> HIDE DEF Upto
  <2> QED BY <2>1
<1>6. Small(Cardinality(S)) = SUBSET S
  BY FS_Subset
<1> QED BY <1>5, <1>6 DEF Sums

(* Two such sums agree where what they add does. *)
LEMMA SumsAgree ==
  ASSUME NEW S, NEW T, NEW f, NEW e, NEW g, NEW h, Sums(g, f, S), Sums(h, e, T),
         NEW U, IsFiniteSet(U), U \subseteq S, U \subseteq T, \A x \in U : f[x] = e[x]
  PROVE  g[U] = h[U]
<1> DEFINE D == {n \in Nat : \A s \in SUBSET U : Cardinality(s) = n => g[s] = h[s]}
<1>1. \A s \in SUBSET U : IsFiniteSet(s) /\ Cardinality(s) \in Nat
  BY FS_Subset, FS_CardinalityType
<1>2. 0 \in D
  <2>1. \A s \in SUBSET U : Cardinality(s) = 0 => s = {}
    BY <1>1, FS_EmptySet
  <2> QED BY <2>1 DEF Sums
<1>3. ASSUME NEW n \in D PROVE n + 1 \in D
  <2>0. n \in Nat
    OBVIOUS
  <2> SUFFICES ASSUME NEW s \in SUBSET U, Cardinality(s) = n + 1 PROVE g[s] = h[s]
    OBVIOUS
  <2>1. s # {}
    BY <2>0, FilledByCount
  <2>2. Picked(s) \in s
    BY <2>1, PickedIsIn
  <2>3. Cardinality(s \ {Picked(s)}) = n
    BY <1>1, <2>0, <2>2, CountWithout
  <2>4. g[s \ {Picked(s)}] = h[s \ {Picked(s)}]
    BY <2>3
  <2>5. g[s] = f[Picked(s)] + g[s \ {Picked(s)}]
    BY <2>1 DEF Sums
  <2>6. h[s] = e[Picked(s)] + h[s \ {Picked(s)}]
    BY <2>1 DEF Sums
  <2> QED BY <2>2, <2>4, <2>5, <2>6
<1>4. D = Nat
  <2> HIDE DEF D
  <2>1. D \in SUBSET Nat
    BY DEF D
  <2> QED BY <1>2, <1>3, <2>1, NumberInduction
<1> QED BY <1>1, <1>4

LEMMA SumIsOfSums == ASSUME NEW S, IsFiniteSet(S), NEW f PROVE \E g : Sums(g, f, S) /\ Total(f, S) = g[S]
<1> DEFINE it == CHOOSE iter : Sums(iter, f, S)
<1>1. Sums(it, f, S)
  BY SumsExist
<1>2. Total(f, S) = it[S]
  BY DEF Total, MapThenSumSet, MapThenFoldSet, Sums, Picked
<1> QED BY <1>1, <1>2

LEMMA SumOfNothing == ASSUME NEW f PROVE Total(f, {}) = 0
<1>1. PICK g : Sums(g, f, {}) /\ Total(f, {}) = g[{}]
  BY SumIsOfSums, FS_EmptySet
<1> QED BY <1>1 DEF Sums

LEMMA SumsAlike ==
  ASSUME NEW S, IsFiniteSet(S), NEW f, NEW e, \A x \in S : f[x] = e[x]
  PROVE  Total(f, S) = Total(e, S)
<1>1. PICK g : Sums(g, f, S) /\ Total(f, S) = g[S]
  BY SumIsOfSums
<1>2. PICK h : Sums(h, e, S) /\ Total(e, S) = h[S]
  BY SumIsOfSums
<1>3. g[S] = h[S]
  BY <1>1, <1>2, SumsAgree
<1> QED BY <1>1, <1>2, <1>3

LEMMA SumTakesPicked ==
  ASSUME NEW S, IsFiniteSet(S), S # {}, NEW f
  PROVE  Total(f, S) = f[Picked(S)] + Total(f, S \ {Picked(S)})
<1> DEFINE R == S \ {Picked(S)}
<1>1. IsFiniteSet(R)
  BY FS_Subset
<1>2. PICK g : Sums(g, f, S) /\ Total(f, S) = g[S]
  BY SumIsOfSums
<1>3. PICK h : Sums(h, f, R) /\ Total(f, R) = h[R]
  BY <1>1, SumIsOfSums
<1>4. g[R] = h[R]
  BY <1>1, <1>2, <1>3, SumsAgree
<1>5. g[S] = f[Picked(S)] + g[R]
  BY <1>2 DEF Sums
<1> QED BY <1>2, <1>3, <1>4, <1>5

(* A sum of numbers is a number, and any of them may be taken first. *)
LEMMA SumIsNat ==
  ASSUME NEW S, IsFiniteSet(S), NEW f, \A x \in S : f[x] \in Nat
  PROVE  Total(f, S) \in Nat
<1> DEFINE D == {n \in Nat : \A s \in SUBSET S : Cardinality(s) = n => Total(f, s) \in Nat}
<1>1. \A s \in SUBSET S : IsFiniteSet(s) /\ Cardinality(s) \in Nat
  BY FS_Subset, FS_CardinalityType
<1>2. 0 \in D
  BY <1>1, FS_EmptySet, SumOfNothing
<1>3. ASSUME NEW n \in D PROVE n + 1 \in D
  <2>0. n \in Nat
    OBVIOUS
  <2> SUFFICES ASSUME NEW s \in SUBSET S, Cardinality(s) = n + 1 PROVE Total(f, s) \in Nat
    OBVIOUS
  <2>1. s # {}
    BY <2>0, FilledByCount
  <2>2. Picked(s) \in s
    BY <2>1, PickedIsIn
  <2>3. Cardinality(s \ {Picked(s)}) = n
    BY <1>1, <2>0, <2>2, CountWithout
  <2>4. Total(f, s \ {Picked(s)}) \in Nat
    BY <2>3
  <2>5. f[Picked(s)] \in Nat
    BY <2>2
  <2>6. Total(f, s) = f[Picked(s)] + Total(f, s \ {Picked(s)})
    BY <1>1, <2>1, SumTakesPicked
  <2> QED BY <2>4, <2>5, <2>6
<1>4. D = Nat
  <2> HIDE DEF D
  <2>1. D \in SUBSET Nat
    BY DEF D
  <2> QED BY <1>2, <1>3, <2>1, NumberInduction
<1> QED BY <1>1, <1>4

LEMMA SumTakesAny ==
  ASSUME NEW S, IsFiniteSet(S), NEW f, \A x \in S : f[x] \in Nat, NEW x \in S
  PROVE  Total(f, S) = f[x] + Total(f, S \ {x})
<1> DEFINE D == {n \in Nat : \A s \in SUBSET S : Cardinality(s) = n =>
                               \A y \in s : Total(f, s) = f[y] + Total(f, s \ {y})}
<1>1. \A s \in SUBSET S : IsFiniteSet(s) /\ Cardinality(s) \in Nat
  BY FS_Subset, FS_CardinalityType
<1>2. 0 \in D
  BY <1>1, FS_EmptySet
<1>3. ASSUME NEW n \in D PROVE n + 1 \in D
  <2>0. n \in Nat
    OBVIOUS
  <2> SUFFICES ASSUME NEW s \in SUBSET S, Cardinality(s) = n + 1, NEW y \in s
               PROVE  Total(f, s) = f[y] + Total(f, s \ {y})
    OBVIOUS
  <2> DEFINE z == Picked(s)
  <2>1. z \in s /\ Total(f, s) = f[z] + Total(f, s \ {z})
    BY <1>1, PickedIsIn, SumTakesPicked
  <2> HIDE DEF z
  <2>2. CASE y = z
    BY <2>1, <2>2
  <2>3. CASE y # z
    <3>1. Cardinality(s \ {z}) = n /\ Cardinality(s \ {y}) = n
      BY <1>1, <2>0, <2>1, CountWithout
    <3>2. Total(f, s \ {z}) = f[y] + Total(f, (s \ {z}) \ {y})
      BY <2>3, <3>1
    <3>3. Total(f, s \ {y}) = f[z] + Total(f, (s \ {y}) \ {z})
      BY <2>1, <2>3, <3>1
    <3>4. (s \ {z}) \ {y} = (s \ {y}) \ {z}
      OBVIOUS
    <3>5. IsFiniteSet((s \ {y}) \ {z}) /\ \A u \in (s \ {y}) \ {z} : f[u] \in Nat
      BY FS_Subset
    <3>6. Total(f, (s \ {y}) \ {z}) \in Nat
      BY <3>5, SumIsNat
    <3>7. f[y] \in Nat /\ f[z] \in Nat
      BY <2>1
    <3>8. Total(f, s) = f[z] + (f[y] + Total(f, (s \ {y}) \ {z}))
      BY <2>1, <3>2, <3>4
    <3> QED BY <3>3, <3>6, <3>7, <3>8
  <2> QED BY <2>2, <2>3
<1>4. D = Nat
  <2> HIDE DEF D
  <2>1. D \in SUBSET Nat
    BY DEF D
  <2> QED BY <1>2, <1>3, <2>1, NumberInduction
<1> QED BY <1>1, <1>4

LEMMA TotalWith ==
  ASSUME NEW S, IsFiniteSet(S), NEW x, x \notin S, NEW f, \A y \in S \cup {x} : f[y] \in Nat
  PROVE  Total(f, S \cup {x}) = f[x] + Total(f, S)
<1>1. IsFiniteSet(S \cup {x}) /\ (S \cup {x}) \ {x} = S
  BY FS_AddElement
<1>2. Total(f, S \cup {x}) = f[x] + Total(f, (S \cup {x}) \ {x})
  BY <1>1, SumTakesAny
<1> QED BY <1>1, <1>2

LEMMA TotalOfUnion ==
  ASSUME NEW S, NEW T, IsFiniteSet(S), IsFiniteSet(T), S \cap T = {},
         NEW f, \A x \in S \cup T : f[x] \in Nat
  PROVE  Total(f, S \cup T) = Total(f, S) + Total(f, T)
<1> DEFINE C == {U \in SUBSET T : Total(f, S \cup U) = Total(f, S) + Total(f, U)}
<1>1. \A U \in SUBSET T : IsFiniteSet(U) /\ IsFiniteSet(S \cup U) /\ Total(f, U) \in Nat
  BY FS_Subset, FS_Union, SumIsNat
<1>2. Total(f, S) \in Nat
  BY SumIsNat
<1>3. {} \in C
  BY <1>2, SumOfNothing
<1>4. ASSUME NEW U \in C, NEW x \in T \ U PROVE U \cup {x} \in C
  <2>1. Total(f, U \cup {x}) = f[x] + Total(f, U)
    BY <1>1, TotalWith
  <2>2. x \notin S \cup U /\ (S \cup U) \cup {x} = S \cup (U \cup {x})
    OBVIOUS
  <2>3. Total(f, (S \cup U) \cup {x}) = f[x] + Total(f, S \cup U)
    BY <1>1, <2>2, TotalWith
  <2>4. Total(f, S \cup U) = Total(f, S) + Total(f, U) /\ f[x] \in Nat /\ Total(f, U) \in Nat
    BY <1>1
  <2>5. Total(f, S \cup (U \cup {x})) = f[x] + (Total(f, S) + Total(f, U))
    BY <2>2, <2>3, <2>4
  <2>6. Total(f, S \cup (U \cup {x})) = Total(f, S) + Total(f, U \cup {x})
    BY <1>2, <2>1, <2>4, <2>5
  <2> QED BY <2>6
<1>5. T \in C
  <2> HIDE DEF C
  <2>1. C \in SUBSET SUBSET T
    BY DEF C
  <2> QED BY <1>3, <1>4, <2>1, SubsetInduction
<1> QED BY <1>5

LEMMA TotalOfZeros ==
  ASSUME NEW S, IsFiniteSet(S), NEW f, \A x \in S : f[x] = 0
  PROVE  Total(f, S) = 0
<1> DEFINE C == {U \in SUBSET S : Total(f, U) = 0}
<1>1. {} \in C
  BY SumOfNothing
<1>2. ASSUME NEW U \in C, NEW x \in S \ U PROVE U \cup {x} \in C
  <2>1. IsFiniteSet(U)
    BY FS_Subset
  <2>2. \A y \in U \cup {x} : f[y] \in Nat
    OBVIOUS
  <2>3. Total(f, U \cup {x}) = f[x] + Total(f, U)
    BY <2>1, <2>2, TotalWith
  <2> QED BY <2>3
<1>3. S \in C
  <2> HIDE DEF C
  <2>1. C \in SUBSET SUBSET S
    BY DEF C
  <2> QED BY <1>1, <1>2, <2>1, SubsetInduction
<1> QED BY <1>3

(* What is zero outside T adds up over T. *)
LEMMA TotalOfSupport ==
  ASSUME NEW S, IsFiniteSet(S), NEW T \in SUBSET S, NEW f,
         \A x \in T : f[x] \in Nat, \A x \in S \ T : f[x] = 0
  PROVE  Total(f, S) = Total(f, T)
<1>1. IsFiniteSet(T) /\ IsFiniteSet(S \ T)
  BY FS_Subset
<1>2. T \cup (S \ T) = S /\ T \cap (S \ T) = {}
  OBVIOUS
<1>3. Total(f, S) = Total(f, T) + Total(f, S \ T)
  <2>1. \A x \in T \cup (S \ T) : f[x] \in Nat
    BY <1>2
  <2>2. Total(f, T \cup (S \ T)) = Total(f, T) + Total(f, S \ T)
    BY <1>1, <1>2, <2>1, TotalOfUnion
  <2> QED BY ONLY <1>2, <2>2
<1>4. Total(f, S \ T) = 0 /\ Total(f, T) \in Nat
  BY <1>1, TotalOfZeros, SumIsNat
<1> QED BY <1>3, <1>4

LEMMA TotalOfSubset ==
  ASSUME NEW S, IsFiniteSet(S), NEW T \in SUBSET S, NEW f, \A x \in S : f[x] \in Nat
  PROVE  Total(f, T) <= Total(f, S)
<1>1. IsFiniteSet(T) /\ IsFiniteSet(S \ T)
  BY FS_Subset
<1>2. T \cup (S \ T) = S /\ T \cap (S \ T) = {}
  OBVIOUS
<1>3. Total(f, S) = Total(f, T) + Total(f, S \ T)
  <2>1. \A x \in T \cup (S \ T) : f[x] \in Nat
    BY <1>2
  <2>2. Total(f, T \cup (S \ T)) = Total(f, T) + Total(f, S \ T)
    BY <1>1, <1>2, <2>1, TotalOfUnion
  <2> QED BY ONLY <1>2, <2>2
<1>4. Total(f, S \ T) \in Nat /\ Total(f, T) \in Nat
  BY <1>1, SumIsNat
<1> QED BY <1>3, <1>4

LEMMA Successor == ASSUME NEW k \in Nat, NEW n \in Nat PROVE k * (n + 1) = k * n + k
OBVIOUS

(* Each member of A is worth k more. *)
LEMMA TotalRaised ==
  ASSUME NEW S, IsFiniteSet(S), NEW A \in SUBSET S, NEW k \in Nat, NEW f, NEW e,
         \A x \in S : f[x] \in Nat, \A x \in A : e[x] = f[x] + k, \A x \in S \ A : e[x] = f[x]
  PROVE  Total(e, S) = Total(f, S) + k * Cardinality(A)
<1> DEFINE C == {U \in SUBSET S : Total(e, U) = Total(f, U) + k * Cardinality(A \cap U)}
<1>0. \A x \in S : e[x] \in Nat
  OBVIOUS
<1>1. \A U \in SUBSET S : IsFiniteSet(U) /\ Total(f, U) \in Nat /\ IsFiniteSet(A \cap U) /\ Cardinality(A \cap U) \in Nat
  BY FS_Subset, SumIsNat, FS_CardinalityType
<1>2. {} \in C
  <2>1. A \cap {} = {} /\ Cardinality({}) = 0
    BY FS_EmptySet
  <2>2. k * 0 = 0
    OBVIOUS
  <2>3. Total(e, {}) = 0 /\ Total(f, {}) = 0
    BY SumOfNothing
  <2> QED BY <2>1, <2>2, <2>3
<1>3. ASSUME NEW U \in C, NEW x \in S \ U PROVE U \cup {x} \in C
  <2>1. Total(f, U \cup {x}) = f[x] + Total(f, U)
    BY <1>1, TotalWith
  <2>2. Total(e, U \cup {x}) = e[x] + Total(e, U)
    BY <1>0, <1>1, TotalWith
  <2>3. f[x] \in Nat /\ Total(f, U) \in Nat /\ Cardinality(A \cap U) \in Nat
    BY <1>1
  <2>4. k * Cardinality(A \cap U) \in Nat
    BY <2>3
  <2>5. Total(e, U) = Total(f, U) + k * Cardinality(A \cap U)
    OBVIOUS
  <2>6. CASE x \in A
    <3>1. A \cap (U \cup {x}) = (A \cap U) \cup {x} /\ x \notin A \cap U
      BY <2>6
    <3>2. Cardinality(A \cap (U \cup {x})) = Cardinality(A \cap U) + 1
      BY <1>1, <3>1, FS_AddElement
    <3>3. k * Cardinality(A \cap (U \cup {x})) = k * Cardinality(A \cap U) + k
      BY <2>3, <3>2, Successor
    <3>4. e[x] = f[x] + k
      BY <2>6
    <3>5. Total(e, U \cup {x}) = Total(f, U \cup {x}) + k * Cardinality(A \cap (U \cup {x}))
      BY <2>1, <2>2, <2>3, <2>4, <2>5, <3>3, <3>4
    <3> QED BY <3>5
  <2>7. CASE x \notin A
    <3>1. A \cap (U \cup {x}) = A \cap U
      BY <2>7
    <3>2. e[x] = f[x]
      BY <2>7
    <3>3. Cardinality(A \cap (U \cup {x})) = Cardinality(A \cap U)
      BY ONLY <3>1
    <3>4. Total(e, U \cup {x}) = Total(f, U \cup {x}) + k * Cardinality(A \cap (U \cup {x}))
      BY <2>1, <2>2, <2>3, <2>4, <2>5, <3>2, <3>3
    <3> QED BY <3>4
  <2> QED BY <2>6, <2>7
<1>4. S \in C
  <2> HIDE DEF C
  <2>1. C \in SUBSET SUBSET S
    BY DEF C
  <2> QED BY <1>2, <1>3, <2>1, SubsetInduction
<1>5. A \cap S = A
  OBVIOUS
<1> QED BY <1>4, <1>5
-----------------------------------------------------------------------------
(* The rows of one event, one an athlete, in the rounds it has. *)
Row == [who : Athlete, tier : {"A", "B", "FIN"}, rank : Nat \ {0}, kind : {"legal", "exhibition", "disqualified"}]
Rounds(f) == (\A r \in f : r.tier = "FIN") \/ (\A r \in f : r.tier # "FIN")
IsField(f) ==
  /\ f \subseteq Row /\ IsFiniteSet(f)
  /\ \A q, r \in f : q.who = r.who => q = r
  /\ Rounds(f)

LEMMA FieldPart == ASSUME NEW f, IsField(f), NEW g \in SUBSET f PROVE IsField(g)
<1>1. IsFiniteSet(g)
  BY FS_Subset DEF IsField
<1> QED BY <1>1 DEF IsField, Rounds

LEMMA TierOrderFacts == TierOrder["A"] = 1 /\ TierOrder["FIN"] = 1 /\ TierOrder["B"] = 2
BY DEF TierOrder

LEMMA RankedIsPair ==
  ASSUME NEW r \in Row PROVE TierOrder[r.tier] \in {1, 2} /\ r.rank \in Int
BY TierOrderFacts DEF Row

(* The order of the rounds and ranks. *)
LEMMA AboveIsOrder ==
  ASSUME NEW p \in Row, NEW q \in Row, NEW r \in Row
  PROVE  /\ RankedAbove(p, q) /\ RankedAbove(q, r) => RankedAbove(p, r)
         /\ ~RankedAbove(p, p)
         /\ RankedAbove(p, q) \/ RankedAbove(q, p) \/ Ranked(p) = Ranked(q)
         /\ Ranked(p) = Ranked(q) => (RankedAbove(p, r) <=> RankedAbove(q, r)) /\ (RankedAbove(r, p) <=> RankedAbove(r, q))
BY RankedIsPair DEF RankedAbove, Ranked

Above(f, r) == {Ranked(q) : q \in {p \in f : RankedAbove(p, r)}}
Nth(f, r) == Cardinality(Above(f, r)) + 1

LEMMA RanksAreFinite ==
  ASSUME NEW f, IsFiniteSet(f) PROVE IsFiniteSet({Ranked(r) : r \in f})
<1> DEFINE R == {Ranked(r) : r \in f}
           m == [r \in f |-> Ranked(r)]
<1>1. m \in Surjection(f, R)
  BY DEF Surjection
<1> QED BY <1>1, FS_Surjection

LEMMA GroupsAre ==
  ASSUME NEW f, IsField(f)
  PROVE  /\ Len(Groups(f)) = Cardinality({Ranked(r) : r \in f}) /\ Len(Groups(f)) \in Nat
         /\ \A i \in 1 .. Len(Groups(f)) : Groups(f)[i] = {r \in f : Nth(f, r) = i}
<1> DEFINE n == Cardinality({Ranked(r) : r \in f})
<1>1. n \in Nat
  BY RanksAreFinite, FS_CardinalityType DEF IsField
<1>2. Groups(f) = [i \in 1 .. n |-> {r \in f : Cardinality(Above(f, r)) = i - 1}]
  BY DEF Groups, Above
<1>3. Len(Groups(f)) = n
  BY <1>1, <1>2
<1>4. ASSUME NEW i \in 1 .. n PROVE Groups(f)[i] = {r \in f : Nth(f, r) = i}
  <2>1. ASSUME NEW r \in f PROVE Cardinality(Above(f, r)) \in Nat
    <3>1. Above(f, r) \subseteq {Ranked(q) : q \in f}
      BY DEF Above
    <3> QED BY <3>1, RanksAreFinite, FS_Subset, FS_CardinalityType DEF IsField
  <2>2. \A r \in f : Cardinality(Above(f, r)) = i - 1 <=> Nth(f, r) = i
    BY <2>1 DEF Nth
  <2> QED BY <1>2, <2>2
<1> QED BY <1>1, <1>3, <1>4

LEMMA NthIsOrder ==
  ASSUME NEW f, IsField(f), NEW q \in f, NEW r \in f
  PROVE  /\ Nth(f, r) \in 1 .. Len(Groups(f))
         /\ RankedAbove(q, r) => Nth(f, q) < Nth(f, r)
         /\ Ranked(q) = Ranked(r) => Nth(f, q) = Nth(f, r)
<1> DEFINE R == {Ranked(p) : p \in f}
<1>0. f \subseteq Row /\ IsFiniteSet(R)
  BY RanksAreFinite DEF IsField
<1>1. \A s \in f : /\ Above(f, s) \subseteq R
                   /\ IsFiniteSet(Above(f, s)) /\ Cardinality(Above(f, s)) \in Nat
  <2>1. \A s \in f : Above(f, s) \subseteq R
    BY DEF Above
  <2> QED BY <1>0, <2>1, FS_Subset, FS_CardinalityType
<1>2. ASSUME NEW s \in f PROVE Ranked(s) \notin Above(f, s)
  <2> SUFFICES ASSUME NEW p \in f, RankedAbove(p, s), Ranked(p) = Ranked(s) PROVE FALSE
    BY DEF Above
  <2> QED BY <1>0, AboveIsOrder
<1>3. Nth(f, r) \in 1 .. Len(Groups(f))
  <2>1. Ranked(r) \in R
    OBVIOUS
  <2>2. Above(f, r) # R
    BY <1>2, <2>1
  <2>3. Cardinality(Above(f, r)) <= Cardinality(R) /\ Cardinality(Above(f, r)) # Cardinality(R)
    BY <1>0, <1>1, <2>2, FS_Subset
  <2>4. Cardinality(R) \in Nat
    BY <1>0, FS_CardinalityType
  <2>5. Len(Groups(f)) = Cardinality(R)
    BY GroupsAre
  <2> QED BY <1>1, <2>3, <2>4, <2>5 DEF Nth
<1>4. ASSUME RankedAbove(q, r) PROVE Nth(f, q) < Nth(f, r)
  <2>1. Above(f, q) \subseteq Above(f, r)
    BY <1>0, <1>4, AboveIsOrder DEF Above
  <2>2. Ranked(q) \in Above(f, r) /\ Ranked(q) \notin Above(f, q)
    BY <1>2, <1>4 DEF Above
  <2>3. Cardinality(Above(f, q)) <= Cardinality(Above(f, r)) /\ Cardinality(Above(f, q)) # Cardinality(Above(f, r))
    BY <1>1, <2>1, <2>2, FS_Subset
  <2> QED BY <1>1, <2>3 DEF Nth
<1>5. ASSUME Ranked(q) = Ranked(r) PROVE Nth(f, q) = Nth(f, r)
  <2>1. Above(f, q) = Above(f, r)
    BY <1>0, <1>5, AboveIsOrder DEF Above
  <2> QED BY <2>1 DEF Nth
<1> QED BY <1>3, <1>4, <1>5

(* Groups of a field do not overlap, cover it, and are in order. *)
LEMMA SameGroup ==
  ASSUME NEW f, IsField(f), NEW q \in f, NEW r \in f
  PROVE  /\ Nth(f, q) = Nth(f, r) <=> Ranked(q) = Ranked(r)
         /\ Nth(f, q) < Nth(f, r) <=> RankedAbove(q, r)
<1>1. q \in Row /\ r \in Row
  BY DEF IsField
<1>2. RankedAbove(q, r) \/ RankedAbove(r, q) \/ Ranked(q) = Ranked(r)
  BY <1>1, AboveIsOrder
<1>3. Nth(f, r) \in Int /\ Nth(f, q) \in Int
  BY NthIsOrder
<1> QED BY <1>2, <1>3, NthIsOrder
-----------------------------------------------------------------------------
(* The standings after each group follow one from the other. *)

LEMMA StandingsFollow ==
  ASSUME NEW rule, NEW ev, NEW f, NEW p, Len(Groups(f)) \in Nat
  PROVE  LET S == Standings(rule, ev, f, p)
         IN  /\ S[0] = Nothing(f, p)
             /\ \A i \in 1 .. Len(Groups(f)) : S[i] = GroupScored(rule, ev, S[i - 1], Groups(f)[i])
<1> DEFINE N == Len(Groups(f))
           Follows(s, n) == s = [i \in 0 .. n |-> IF i = 0 THEN Nothing(f, p)
                                                  ELSE GroupScored(rule, ev, s[i - 1], Groups(f)[i])]
           D == {n \in Nat : \E s : Follows(s, n)}
<1>1. 0 \in D
  <2>1. Follows([i \in 0 .. 0 |-> Nothing(f, p)], 0)
    OBVIOUS
  <2> HIDE DEF Follows
  <2> QED BY <2>1
<1>2. ASSUME NEW n \in D PROVE n + 1 \in D
  <2>0. n \in Nat
    OBVIOUS
  <2>1. PICK s : Follows(s, n)
    OBVIOUS
  <2> DEFINE t == [i \in 0 .. n + 1 |-> IF i <= n THEN s[i] ELSE GroupScored(rule, ev, s[n], Groups(f)[n + 1])]
  <2>2. ASSUME NEW i \in 0 .. n + 1
        PROVE  t[i] = IF i = 0 THEN Nothing(f, p) ELSE GroupScored(rule, ev, t[i - 1], Groups(f)[i])
    <3>1. CASE i = 0
      BY <2>0, <2>1, <3>1
    <3>2. CASE i # 0 /\ i <= n
      <4>1. t[i] = s[i] /\ t[i - 1] = s[i - 1]
        BY <2>0, <3>2
      <4>2. s[i] = GroupScored(rule, ev, s[i - 1], Groups(f)[i])
        BY <2>0, <2>1, <3>2
      <4> QED BY <3>2, <4>1, <4>2
    <3>3. CASE i = n + 1
      <4>1. t[i] = GroupScored(rule, ev, s[n], Groups(f)[n + 1]) /\ t[i - 1] = s[n] /\ i # 0
        BY <2>0, <3>3
      <4> QED BY <3>3, <4>1
    <3> QED BY <2>0, <3>1, <3>2, <3>3
  <2>3. Follows(t, n + 1)
    <3>1. t = [i \in 0 .. n + 1 |-> t[i]]
      OBVIOUS
    <3> HIDE DEF t
    <3> QED BY <2>2, <3>1
  <2> HIDE DEF Follows
  <2> QED BY <2>0, <2>3
<1>3. D = Nat
  <2> HIDE DEF D
  <2>1. D \in SUBSET Nat
    BY DEF D
  <2> QED BY <1>1, <1>2, <2>1, NumberInduction
<1>4. \E s : Follows(s, N)
  <2> HIDE DEF Follows
  <2> QED BY <1>3
<1>5. Standings(rule, ev, f, p) = CHOOSE s : Follows(s, N)
  BY DEF Standings
<1>6. Follows(Standings(rule, ev, f, p), N)
  <2> HIDE DEF Follows
  <2> QED BY <1>4, <1>5
<1> QED BY <1>6
-----------------------------------------------------------------------------
(* What a place pays. *)

Values == [p \in Int |-> Value(p)]

LEMMA ValueIsNat == \A p \in Int : Values[p] \in Nat
BY MeetSizes DEF Values, Value, InTable

LEMMA ValuesAdd == ASSUME NEW S, IsFiniteSet(S), S \subseteq Int PROVE MapThenSumSet(Value, S) = Total(Values, S)
<1> DEFINE it == CHOOSE iter : iter = [s \in SUBSET S |-> IF s = {} THEN 0 ELSE Value(Picked(s)) + iter[s \ {Picked(s)}]]
<1>1. PICK g : Sums(g, Values, S)
  BY SumsExist
<1>2. ASSUME NEW s \in SUBSET S, s # {} PROVE Values[Picked(s)] = Value(Picked(s))
  BY <1>2, PickedIsIn DEF Values
<1>3. g = [s \in SUBSET S |-> IF s = {} THEN 0 ELSE Value(Picked(s)) + g[s \ {Picked(s)}]]
  <2>1. ASSUME NEW s \in SUBSET S PROVE g[s] = IF s = {} THEN 0 ELSE Value(Picked(s)) + g[s \ {Picked(s)}]
    BY <1>1, <1>2 DEF Sums
  <2>2. g = [s \in SUBSET S |-> g[s]]
    BY <1>1 DEF Sums
  <2> QED BY <2>1, <2>2
<1>4. it = [s \in SUBSET S |-> IF s = {} THEN 0 ELSE Value(Picked(s)) + it[s \ {Picked(s)}]]
  BY <1>3
<1>5. Sums(it, Values, S)
  <2> HIDE DEF it
  <2>1. ASSUME NEW s \in SUBSET S PROVE it[s] = IF s = {} THEN 0 ELSE Values[Picked(s)] + it[s \ {Picked(s)}]
    BY <1>2, <1>4
  <2>2. it = [s \in SUBSET S |-> it[s]]
    BY <1>4
  <2> QED BY <2>1, <2>2 DEF Sums
<1>6. MapThenSumSet(Value, S) = it[S]
  BY DEF MapThenSumSet, MapThenFoldSet, Picked
<1>7. PICK h : Sums(h, Values, S) /\ Total(Values, S) = h[S]
  BY SumIsOfSums
<1>8. it[S] = h[S]
  <2> HIDE DEF it
  <2> QED BY <1>5, <1>7, SumsAgree
<1> QED BY <1>6, <1>7, <1>8

LEMMA ShareIs ==
  ASSUME NEW place \in Nat, NEW k \in Nat \ {0}
  PROVE  /\ Share(place, k) = Total(Values, place .. place + k - 1) \div k
         /\ Total(Values, place .. place + k - 1) \in Nat
<1>1. place .. place + k - 1 \subseteq Int /\ IsFiniteSet(place .. place + k - 1)
  BY FS_Interval
<1>2. MapThenSumSet(Value, place .. place + k - 1) = Total(Values, place .. place + k - 1)
  BY <1>1, ValuesAdd
<1>3. Total(Values, place .. place + k - 1) \in Nat
  BY <1>1, SumIsNat, ValueIsNat
<1> QED BY <1>2, <1>3 DEF Share

LEMMA Quotient ==
  ASSUME NEW s \in Nat, NEW k \in Nat \ {0} PROVE s \div k \in Nat /\ k * (s \div k) <= s
OBVIOUS

(* A tie is paid no more than its places are worth. *)
LEMMA ShareIsCovered ==
  ASSUME NEW place \in Nat, NEW k \in Nat \ {0}
  PROVE  /\ Share(place, k) \in Nat
         /\ k * Share(place, k) <= Total(Values, place .. place + k - 1)
BY ShareIs, Quotient
-----------------------------------------------------------------------------
(* What scoring one group does, field by field. *)

Standing(f) == [place : Nat, pool : [Athlete -> Nat], used : [Club -> Nat], points : [Names(f) -> Nat]]

Limit(rule, ev) == IF ev = "relay" THEN [rule EXCEPT !.scope = "event", !.cap = rule.relayCap] ELSE rule
Entered(rule, ev, g) == IF ev = "timed final" THEN Names(Eligible(g)) ELSE Names(Eligible(g)) \cap rule.roster
Taken(rule, ev, acc, g) == Admitted(Limit(rule, ev), ev, acc, Entered(rule, ev, g))
Reached(ev, acc, g) == InTable(FirstPlace(ev, acc, g))
Each(ev, acc, g) ==
  LET share == Share(FirstPlace(ev, acc, g), Cardinality(Eligible(g)))
  IN IF ~Reached(ev, acc, g) THEN 0 ELSE IF ev = "relay" THEN 2 * share ELSE share
(* The ladder of a timed final goes on. *)
Advances(rule, ev, acc, g) ==
  /\ ev = "timed final" /\ Reached(ev, acc, g) /\ Taken(rule, ev, acc, g) # {}
  /\ rule.scope = "none" \/ Each(ev, acc, g) > 0

LEMMA ReachedIs ==
  ASSUME NEW ev, NEW acc, NEW g, Reached(ev, acc, g)
  PROVE  /\ Eligible(g) # {} /\ FirstPlace(ev, acc, g) \in 1 .. Len(Table)
         /\ FirstPlace(ev, acc, g) = IF ev = "timed final" THEN acc.place + 1 ELSE Place(CHOOSE r \in Eligible(g) : TRUE)
<1>1. FirstPlace(ev, acc, g) \in 1 .. Len(Table)
  BY DEF Reached, InTable
<1>2. FirstPlace(ev, acc, g) # 0
  BY <1>1
<1>3. Eligible(g) # {}
  BY <1>2 DEF FirstPlace
<1> QED BY <1>1, <1>3 DEF FirstPlace

LEMMA LimitIsRule == ASSUME NEW rule \in Rule, NEW ev PROVE Limit(rule, ev) \in Rule
BY DEF Limit, Rule

LEMMA EligiblePart == ASSUME NEW f, IsField(f), NEW g \in SUBSET f
  PROVE  /\ Eligible(g) \subseteq g /\ IsFiniteSet(Eligible(g)) /\ Eligible(g) \subseteq Row
         /\ Cardinality(Eligible(g)) \in Nat /\ (Eligible(g) # {} => Cardinality(Eligible(g)) # 0)
<1>1. Eligible(g) \subseteq g
  BY DEF Eligible
<1>2. IsFiniteSet(Eligible(g))
  BY <1>1, FS_Subset DEF IsField
<1>3. Cardinality(Eligible(g)) \in Nat
  BY <1>2, FS_CardinalityType
<1>4. Eligible(g) # {} => Cardinality(Eligible(g)) # 0
  BY <1>2, FS_EmptySet
<1> QED BY <1>1, <1>2, <1>3, <1>4 DEF IsField

LEMMA PlaceIsNat == ASSUME NEW r \in Row PROVE Place(r) \in Nat
BY MeetSizes DEF Place, Row

(* Who takes the places of a group, be they worth 0. *)
Paid(rule, ev, acc, g) == IF Reached(ev, acc, g) THEN Taken(rule, ev, acc, g) ELSE {}
Of(names, t) == {a \in names : a[1] = t}
ByPool(rule, ev) == rule.scope = "meet" /\ ev # "relay"

(* What the caps let through is part of what came in. *)
LEMMA TakenIs ==
  ASSUME NEW rule \in Rule, NEW ev \in Kind, NEW acc, NEW g
  PROVE  LET in == Entered(rule, ev, g)
             limit == Limit(rule, ev)
             taken == Taken(rule, ev, acc, g)
         IN  /\ taken \subseteq in /\ in \subseteq Names(Eligible(g)) /\ (ev # "timed final" => in \subseteq rule.roster)
             /\ limit.scope = "none" => taken = in
             /\ limit.scope = "event" => taken = {a \in in : acc.used[a[1]] + Cardinality(Earlier(in, a)) <= limit.cap}
             /\ limit.scope = "meet" => taken =
                  {a \in in : \/ acc.pool[a] > 0
                              \/ TeamWeight(acc.pool, a[1])
                                   + Weight(ev) * Cardinality({b \in Earlier(in, a) : acc.pool[b] = 0}) <= limit.cap}
<1> DEFINE limit == Limit(rule, ev)
<1>1. limit.scope \in {"none", "event", "meet"}
  BY LimitIsRule DEF Rule
<1>2. Entered(rule, ev, g) \subseteq Names(Eligible(g)) /\ (ev # "timed final" => Entered(rule, ev, g) \subseteq rule.roster)
  BY DEF Entered
<1>3. CASE limit.scope = "none"
  <2>1. Taken(rule, ev, acc, g) = Entered(rule, ev, g)
    BY <1>3 DEF Taken, Admitted
  <2> QED BY <1>2, <1>3, <2>1
<1>4. CASE limit.scope = "event"
  <2>1. Taken(rule, ev, acc, g) = {a \in Entered(rule, ev, g) :
          acc.used[a[1]] + Cardinality(Earlier(Entered(rule, ev, g), a)) <= limit.cap}
    BY <1>4 DEF Taken, Admitted
  <2> QED BY <1>2, <1>4, <2>1
<1>5. CASE limit.scope = "meet"
  <2>1. Taken(rule, ev, acc, g) = {a \in Entered(rule, ev, g) :
          \/ acc.pool[a] > 0
          \/ TeamWeight(acc.pool, a[1])
               + Weight(ev) * Cardinality({b \in Earlier(Entered(rule, ev, g), a) : acc.pool[b] = 0}) <= limit.cap}
    BY <1>5 DEF Taken, Admitted
  <2> QED BY <1>2, <1>5, <2>1
<1> QED BY <1>1, <1>3, <1>4, <1>5

LEMMA NamesPart ==
  ASSUME NEW f, IsField(f), NEW g \in SUBSET f
  PROVE  /\ Names(Eligible(g)) \subseteq Names(f) /\ Names(f) \subseteq Athlete
         /\ IsFiniteSet(Names(g)) /\ IsFiniteSet(Names(Eligible(g)))
         /\ Cardinality(Names(Eligible(g))) = Cardinality(Eligible(g))
<1>1. Eligible(g) \subseteq g /\ f \subseteq Row
  BY DEF Eligible, IsField
<1>2. Names(Eligible(g)) \subseteq Names(f) /\ Names(f) \subseteq Athlete
  BY <1>1 DEF Names, Row
<1>3. IsFiniteSet(g) /\ IsFiniteSet(Eligible(g))
  BY EligiblePart, FS_Subset DEF IsField
<1>4. ASSUME NEW h \in SUBSET f, IsFiniteSet(h)
      PROVE  IsFiniteSet(Names(h)) /\ Cardinality(Names(h)) = Cardinality(h)
  <2> DEFINE m == [r \in h |-> r.who]
  <2>1. m \in Bijection(h, Names(h))
    <3>1. m \in Surjection(h, Names(h))
      BY DEF Surjection, Names
    <3>2. m \in Injection(h, Names(h))
      BY DEF Injection, IsInjective, Names, IsField
    <3> QED BY <3>1, <3>2 DEF Bijection
  <2> QED BY <1>4, <2>1, FS_Bijection, FS_Surjection DEF Bijection
<1> QED BY <1>1, <1>2, <1>3, <1>4

LEMMA EachIsNat ==
  ASSUME NEW f, IsField(f), NEW g \in SUBSET f, NEW ev, NEW acc \in Standing(f)
  PROVE  /\ Each(ev, acc, g) \in Nat
         /\ FirstPlace(ev, acc, g) \in Nat
<1>1. CASE Eligible(g) = {}
  BY <1>1, ReachedIs DEF Each, FirstPlace
<1>2. CASE Eligible(g) # {}
  <2>1. (CHOOSE r \in Eligible(g) : TRUE) \in Row
    BY <1>2, EligiblePart
  <2>2. FirstPlace(ev, acc, g) \in Nat
    <3>1. acc.place + 1 \in Nat
      BY DEF Standing
    <3>2. Place(CHOOSE r \in Eligible(g) : TRUE) \in Nat
      BY <2>1, PlaceIsNat
    <3> QED BY <3>1, <3>2 DEF FirstPlace
  <2>3. Cardinality(Eligible(g)) \in Nat \ {0}
    BY <1>2, EligiblePart
  <2>4. Share(FirstPlace(ev, acc, g), Cardinality(Eligible(g))) \in Nat
    BY <2>2, <2>3, ShareIsCovered
  <2> QED BY <2>2, <2>4 DEF Each
<1> QED BY <1>1, <1>2

LEMMA WeightIs == \A ev \in Kind : Weight(ev) \in {1, 3}
BY DEF Weight

Gives(s, f, rule, ev, acc, names, each) ==
  /\ s \in Standing(f) /\ s.place = acc.place
  /\ \A a \in Names(f) : s.points[a] = IF a \in names THEN each ELSE acc.points[a]
  /\ \A a \in Athlete : s.pool[a] = IF rule.scope = "meet" /\ a \in names /\ acc.pool[a] = 0
                                   THEN Weight(ev) ELSE acc.pool[a]
  /\ \A t \in Club : s.used[t] = acc.used[t] + Cardinality(Of(names, t))

LEMMA AwardedGives ==
  ASSUME NEW f, IsField(f), NEW rule \in Rule, NEW ev \in Kind, NEW acc \in Standing(f),
         NEW names \in SUBSET Names(f), NEW each \in Nat
  PROVE  Gives(Awarded(rule, ev, acc, names, each), f, rule, ev, acc, names, each)
<1> DEFINE earned == [a \in Names(f) |-> IF a \in names THEN each ELSE acc.points[a]]
           p == [a \in Athlete |-> IF rule.scope = "meet" /\ a \in names /\ acc.pool[a] = 0
                                   THEN Weight(ev) ELSE acc.pool[a]]
           used == [t \in Club |-> acc.used[t] + Cardinality(Of(names, t))]
           s == Awarded(rule, ev, acc, names, each)
<1>1. acc.points \in [Names(f) -> Nat] /\ acc.pool \in [Athlete -> Nat] /\ acc.used \in [Club -> Nat] /\ acc.place \in Nat
  BY DEF Standing
<1>2. s = [acc EXCEPT !.points = earned, !.pool = p, !.used = used]
  <2>1. DOMAIN acc.points = Names(f)
    BY <1>1
  <2> QED BY <2>1 DEF Awarded, Of
<1>3. earned \in [Names(f) -> Nat]
  BY <1>1
<1>4. p \in [Athlete -> Nat]
  BY <1>1, WeightIs
<1>5. used \in [Club -> Nat]
  <2>1. IsFiniteSet(Names(f))
    BY NamesPart
  <2>2. \A t \in Club : Cardinality(Of(names, t)) \in Nat
    BY <2>1, FS_Subset, FS_CardinalityType DEF Of
  <2> QED BY <1>1, <2>2
<1>6. s = [place |-> acc.place, pool |-> p, used |-> used, points |-> earned]
  <2> HIDE DEF s, p, earned, used
  <2> QED BY <1>2 DEF Standing
<1>7. s.points = earned /\ s.pool = p /\ s.used = used /\ s.place = acc.place
  <2> HIDE DEF s, p, earned, used
  <2> QED BY <1>6
<1>8. s \in Standing(f)
  <2> HIDE DEF s, p, earned, used
  <2> QED BY <1>1, <1>3, <1>4, <1>5, <1>6 DEF Standing
<1> HIDE DEF s
<1> QED BY <1>7, <1>8 DEF s, Gives

(* What scoring one group leaves behind, field by field. *)
Leaves(s, f, rule, ev, acc, g) ==
  LET paid == Paid(rule, ev, acc, g)
      next == acc.place + Cardinality(Eligible(g))
  IN  /\ s \in Standing(f)
      /\ \A a \in Names(f) : s.points[a] = IF a \in paid THEN Each(ev, acc, g) ELSE acc.points[a]
      /\ \A a \in Athlete : s.pool[a] = IF ByPool(rule, ev) /\ a \in paid /\ acc.pool[a] = 0
                                       THEN Weight(ev) ELSE acc.pool[a]
      /\ \A t \in Club : s.used[t] = acc.used[t] + Cardinality(Of(paid, t))
      /\ s.place = IF Advances(rule, ev, acc, g)
                   THEN (IF next < Len(Table) THEN next ELSE Len(Table)) ELSE acc.place

LEMMA GroupGives ==
  ASSUME NEW f, IsField(f), NEW rule \in Rule, NEW ev \in Kind, NEW acc \in Standing(f), NEW g \in SUBSET f
  PROVE  Leaves(GroupScored(rule, ev, acc, g), f, rule, ev, acc, g)
<1> DEFINE s == GroupScored(rule, ev, acc, g)
           limit == Limit(rule, ev)
           taken == Taken(rule, ev, acc, g)
           each == Each(ev, acc, g)
           next == acc.place + Cardinality(Eligible(g))
           reached == Reached(ev, acc, g)
           first == FirstPlace(ev, acc, g)
           won == Awarded(limit, ev, acc, taken, each)
<1>1. each \in Nat /\ limit \in Rule /\ taken \in SUBSET Names(f) /\ taken \subseteq Names(Eligible(g))
  BY EachIsNat, LimitIsRule, TakenIs, NamesPart
<1>2. acc.place \in Nat /\ \A t \in Club : acc.used[t] \in Nat
  BY DEF Standing
<1>3. (limit.scope = "meet") <=> ByPool(rule, ev)
  BY DEF Limit, ByPool, Rule
<1>4. reached <=> InTable(first)
  BY DEF Reached
<1>5. ev # "relay" => limit = rule
  BY DEF Limit
<1>6. /\ won \in Standing(f) /\ won.place = acc.place
      /\ \A a \in Names(f) : won.points[a] = IF a \in taken THEN each ELSE acc.points[a]
      /\ \A a \in Athlete : won.pool[a] = IF limit.scope = "meet" /\ a \in taken /\ acc.pool[a] = 0
                                         THEN Weight(ev) ELSE acc.pool[a]
      /\ \A t \in Club : won.used[t] = acc.used[t] + Cardinality(Of(taken, t))
  <2>1. limit \in Rule /\ taken \in SUBSET Names(f) /\ each \in Nat
    BY <1>1
  <2> HIDE DEF each, limit, taken, reached
  <2>2. Gives(won, f, limit, ev, acc, taken, each)
    BY <2>1, AwardedGives
  <2> HIDE DEF won
  <2> QED BY <2>2 DEF Gives
<1>7. s = IF ~reached THEN acc
          ELSE IF Advances(rule, ev, acc, g) THEN [won EXCEPT !.place = IF next < Len(Table) THEN next ELSE Len(Table)] ELSE won
  <2>1. CASE ev = "relay"
    <3>1. s = RelayGroup(rule, ev, acc, g)
      BY <2>1 DEF GroupScored
    <3>2. reached => each = 2 * Share(first, Cardinality(Eligible(g)))
      BY <2>1 DEF Each
    <3>3. limit = [rule EXCEPT !.scope = "event", !.cap = rule.relayCap]
      BY <2>1 DEF Limit
    <3>4. taken = Admitted(limit, ev, acc, Names(Eligible(g)) \cap rule.roster)
      BY <2>1 DEF Taken, Entered
    <3>5. ~Advances(rule, ev, acc, g)
      BY <2>1 DEF Advances
    <3> HIDE DEF each, limit, taken, reached, first
    <3> QED BY <1>4, <3>1, <3>2, <3>3, <3>4, <3>5 DEF RelayGroup, first
  <2>2. CASE ev = "timed final"
    <3>1. s = TimedGroup(rule, ev, acc, g)
      BY <2>2 DEF GroupScored
    <3>2. reached => each = Share(first, Cardinality(Eligible(g)))
      BY <2>2 DEF Each
    <3>3. taken = Admitted(rule, ev, acc, Names(Eligible(g))) /\ limit = rule
      BY <1>5, <2>2 DEF Taken, Entered
    <3>4. reached => (Advances(rule, ev, acc, g) <=> taken # {} /\ (rule.scope = "none" \/ each > 0))
      BY <2>2 DEF Advances
    <3>5. won = [won EXCEPT !.place = won.place] /\ won.place = acc.place
      <4> HIDE DEF won
      <4> QED BY <1>6 DEF Standing
    <3> HIDE DEF each, limit, taken, reached, first
    <3>6. CASE ~reached
      BY <1>4, <3>1, <3>6 DEF TimedGroup, first
    <3>7. CASE reached
      <4>1. s = [won EXCEPT !.place = IF ~(taken # {} /\ (rule.scope = "none" \/ each > 0)) THEN won.place
                                      ELSE IF next < Len(Table) THEN next ELSE Len(Table)]
        BY <1>4, <3>1, <3>2, <3>3, <3>7 DEF TimedGroup, first
      <4> HIDE DEF won, next, s
      <4> QED BY <3>4, <3>5, <3>7, <4>1
    <3> QED BY <3>6, <3>7
  <2>3. CASE ev # "relay" /\ ev # "timed final"
    <3>1. s = FinalsGroup(rule, ev, acc, g)
      BY <2>3 DEF GroupScored
    <3>2. reached => each = Share(first, Cardinality(Eligible(g)))
      BY <2>3 DEF Each
    <3>3. taken = Admitted(rule, ev, acc, Names(Eligible(g)) \cap rule.roster) /\ limit = rule
      BY <1>5, <2>3 DEF Taken, Entered
    <3>5. ~Advances(rule, ev, acc, g)
      BY <2>3 DEF Advances
    <3> HIDE DEF each, limit, taken, reached, first
    <3> QED BY <1>4, <3>1, <3>2, <3>3, <3>5 DEF FinalsGroup, first
  <2> QED BY <2>1, <2>2, <2>3
<1>8. Paid(rule, ev, acc, g) = IF reached THEN taken ELSE {}
  BY DEF Paid
<1> DEFINE advances == Advances(rule, ev, acc, g)
<1>9. advances => reached
  BY DEF Advances
<1> HIDE DEF each, limit, taken, reached, advances, won, s
<1>10. CASE ~reached
  <2>1. \A t \in Club : acc.used[t] = acc.used[t] + Cardinality(Of({}, t))
    <3>1. \A t : Of({}, t) = {}
      BY DEF Of
    <3> QED BY <1>2, <3>1, FS_EmptySet
  <2>2. s = acc /\ ~advances
    BY <1>7, <1>9, <1>10 DEF advances
  <2>3. Paid(rule, ev, acc, g) = {}
    BY <1>8, <1>10
  <2> QED BY <1>10, <2>1, <2>2, <2>3 DEF s, advances, Leaves
<1>11. CASE advances
  <2> DEFINE to == IF next < Len(Table) THEN next ELSE Len(Table)
  <2>1. s = [won EXCEPT !.place = to]
    BY <1>7, <1>9, <1>11 DEF advances
  <2>2. to \in Nat
    <3>1. Len(Table) \in Nat
      BY MeetSizes
    <3>2. Cardinality(Eligible(g)) \in Nat
      BY EligiblePart
    <3> QED BY <1>2, <3>1, <3>2
  <2>3. s \in Standing(f) /\ s.place = to /\ s.points = won.points /\ s.pool = won.pool /\ s.used = won.used
    <3> HIDE DEF to
    <3> QED BY <1>6, <2>1, <2>2 DEF Standing
  <2>4. Paid(rule, ev, acc, g) = taken
    BY <1>8, <1>9, <1>11
  <2> QED BY <1>3, <1>6, <1>11, <2>3, <2>4 DEF s, advances, each, Leaves
<1>12. CASE reached /\ ~advances
  <2>1. s = won /\ Paid(rule, ev, acc, g) = taken
    BY <1>7, <1>8, <1>12 DEF advances
  <2> QED BY <1>3, <1>6, <1>12, <2>1 DEF s, advances, each, Leaves
<1> QED BY <1>10, <1>11, <1>12
-----------------------------------------------------------------------------
(* Ranks as they are printed: one more than the rows of the round ahead.   *)

PrintAs(h, r) == [r EXCEPT !.rank = Base(r.tier) + 1 + Cardinality(Ahead(h, r))]
Printed(f) == \A r \in f : r.rank = Base(r.tier) + 1 + Cardinality(Ahead(f, r))

LEMMA BaseIsNat == \A t : Base(t) \in Nat
BY MeetSizes DEF Base

LEMMA AheadFacts ==
  ASSUME NEW f, IsField(f), NEW h \in SUBSET f, NEW q \in f, NEW r \in f
  PROVE  /\ Ahead(h, r) \subseteq h /\ IsFiniteSet(Ahead(h, r)) /\ Cardinality(Ahead(h, r)) \in Nat
         /\ q \in Ahead(h, r) => Cardinality(Ahead(h, q)) < Cardinality(Ahead(h, r))
         /\ q.tier = r.tier /\ q.rank <= r.rank => Cardinality(Ahead(h, q)) <= Cardinality(Ahead(h, r))
         /\ q.tier = r.tier /\ q.rank = r.rank => Ahead(h, q) = Ahead(h, r)
<1>1. f \subseteq Row
  BY DEF IsField
<1>2. \A p \in f : Ahead(h, p) \subseteq h /\ IsFiniteSet(Ahead(h, p)) /\ Cardinality(Ahead(h, p)) \in Nat
  <2>1. \A p \in f : Ahead(h, p) \subseteq h
    BY DEF Ahead
  <2> QED BY <2>1, FS_Subset, FS_CardinalityType DEF IsField
<1>3. ASSUME q.tier = r.tier, q.rank <= r.rank
      PROVE  Ahead(h, q) \subseteq Ahead(h, r) /\ Cardinality(Ahead(h, q)) <= Cardinality(Ahead(h, r))
  <2>1. Ahead(h, q) \subseteq Ahead(h, r)
    BY <1>1, <1>3 DEF Ahead, Row
  <2> QED BY <1>2, <2>1, FS_Subset
<1>4. ASSUME q \in Ahead(h, r) PROVE Cardinality(Ahead(h, q)) < Cardinality(Ahead(h, r))
  <2>1. q.tier = r.tier /\ q.rank < r.rank /\ q.rank \in Int /\ r.rank \in Int
    BY <1>1, <1>4 DEF Ahead, Row
  <2>2. Ahead(h, q) \subseteq Ahead(h, r) /\ q \notin Ahead(h, q)
    BY <1>3, <2>1 DEF Ahead
  <2>3. Cardinality(Ahead(h, q)) <= Cardinality(Ahead(h, r)) /\ Cardinality(Ahead(h, q)) # Cardinality(Ahead(h, r))
    BY <1>2, <1>4, <2>2, FS_Subset
  <2> QED BY <1>2, <2>3
<1>5. q.tier = r.tier /\ q.rank = r.rank => Ahead(h, q) = Ahead(h, r)
  BY DEF Ahead
<1> QED BY <1>2, <1>3, <1>4, <1>5

LEMMA ImageCount ==
  ASSUME NEW S, IsFiniteSet(S), NEW m, \A x \in S, y \in S : m[x] = m[y] => x = y
  PROVE  IsFiniteSet({m[x] : x \in S}) /\ Cardinality({m[x] : x \in S}) = Cardinality(S)
<1> DEFINE e == [x \in S |-> m[x]]
           T == {m[x] : x \in S}
<1>1. e \in Bijection(S, T)
  <2>1. e \in Surjection(S, T)
    BY DEF Surjection
  <2>2. e \in Injection(S, T)
    BY DEF Injection, IsInjective
  <2> QED BY <2>1, <2>2 DEF Bijection
<1>2. e \in Surjection(S, T)
  BY <1>1 DEF Bijection
<1> HIDE DEF T, e
<1>3. IsFiniteSet(T)
  BY <1>2, FS_Surjection
<1>4. Cardinality(T) = Cardinality(S)
  BY <1>1, <1>2, FS_Surjection DEF Bijection
<1> QED BY <1>3, <1>4 DEF T

(* Printing rows anew keeps who they are and their order. *)
LEMMA PrintKeeps ==
  ASSUME NEW f, IsField(f), NEW h \in SUBSET f, NEW r \in f
  PROVE  /\ PrintAs(h, r) \in Row
         /\ PrintAs(h, r).who = r.who /\ PrintAs(h, r).tier = r.tier /\ PrintAs(h, r).kind = r.kind
         /\ PrintAs(h, r).rank = Base(r.tier) + 1 + Cardinality(Ahead(h, r))
<1>1. r \in Row
  BY DEF IsField
<1>2. Base(r.tier) + 1 + Cardinality(Ahead(h, r)) \in Nat \ {0}
  BY AheadFacts, BaseIsNat
<1> HIDE DEF Base
<1> QED BY <1>1, <1>2 DEF PrintAs, Row

LEMMA PrintIsOrder ==
  ASSUME NEW f, IsField(f), NEW h \in SUBSET f, NEW q \in h, NEW r \in h
  PROVE  /\ PrintAs(h, q).tier = PrintAs(h, r).tier /\ PrintAs(h, q).rank < PrintAs(h, r).rank <=> q.tier = r.tier /\ q.rank < r.rank
         /\ RankedAbove(PrintAs(h, q), PrintAs(h, r)) <=> RankedAbove(q, r)
         /\ Ranked(PrintAs(h, q)) = Ranked(PrintAs(h, r)) <=> Ranked(q) = Ranked(r)
<1>0. q \in f /\ r \in f /\ q \in Row /\ r \in Row
  BY DEF IsField
<1>1. /\ PrintAs(h, q).tier = q.tier /\ PrintAs(h, r).tier = r.tier
      /\ PrintAs(h, q).rank = Base(q.tier) + 1 + Cardinality(Ahead(h, q))
      /\ PrintAs(h, r).rank = Base(r.tier) + 1 + Cardinality(Ahead(h, r))
  BY <1>0, PrintKeeps
<1>2. Cardinality(Ahead(h, q)) \in Nat /\ Cardinality(Ahead(h, r)) \in Nat /\ Base(q.tier) \in Nat
  BY <1>0, AheadFacts, BaseIsNat
<1>3. q.rank \in Int /\ r.rank \in Int
  BY <1>0 DEF Row
<1>4. ASSUME q.tier = r.tier
      PROVE  /\ PrintAs(h, q).rank < PrintAs(h, r).rank <=> q.rank < r.rank
             /\ PrintAs(h, q).rank = PrintAs(h, r).rank <=> q.rank = r.rank
  <2>1. ASSUME q.rank < r.rank PROVE Cardinality(Ahead(h, q)) < Cardinality(Ahead(h, r))
    BY <1>0, <1>4, <2>1, AheadFacts DEF Ahead
  <2>2. ASSUME r.rank < q.rank PROVE Cardinality(Ahead(h, r)) < Cardinality(Ahead(h, q))
    BY <1>0, <1>4, <2>2, AheadFacts DEF Ahead
  <2>3. ASSUME r.rank = q.rank PROVE Cardinality(Ahead(h, r)) = Cardinality(Ahead(h, q))
    BY <1>0, <1>4, <2>3, AheadFacts
  <2>4. PrintAs(h, q).rank = Base(q.tier) + 1 + Cardinality(Ahead(h, q)) /\ PrintAs(h, r).rank = Base(q.tier) + 1 + Cardinality(Ahead(h, r))
    BY <1>1, <1>4
  <2> QED BY <1>2, <1>3, <2>1, <2>2, <2>3, <2>4
<1>5. ASSUME Rounds(f), TierOrder[q.tier] = TierOrder[r.tier] PROVE q.tier = r.tier
  BY <1>0, <1>5, TierOrderFacts DEF Rounds, Row
<1>6. Rounds(f)
  BY DEF IsField
<1>7. RankedAbove(PrintAs(h, q), PrintAs(h, r)) <=> RankedAbove(q, r)
  BY <1>1, <1>4, <1>5, <1>6 DEF RankedAbove
<1>8. Ranked(PrintAs(h, q)) = Ranked(PrintAs(h, r)) <=> Ranked(q) = Ranked(r)
  BY <1>1, <1>4, <1>5, <1>6 DEF Ranked
<1> QED BY <1>1, <1>4, <1>7, <1>8

(* The rows of k as they are printed for h. *)
RowsFor(h, k) == {PrintAs(h, r) : r \in k}

(* Rows printed for h, and any part of them: k of h. *)
LEMMA PrintAgain ==
  ASSUME NEW f, IsField(f), NEW h \in SUBSET f, NEW k \in SUBSET h
  PROVE  /\ IsField(RowsFor(h, k))
         /\ \A r \in h : Cardinality(Ahead(RowsFor(h, k), PrintAs(h, r))) = Cardinality(Ahead(k, r))
         /\ Reprinted(RowsFor(h, k)) = Reprinted(k)
<1> DEFINE g == {PrintAs(h, r) : r \in k}
<1>0. IsField(h) /\ IsField(k) /\ h \subseteq f /\ k \subseteq f
  BY FieldPart
<1>1. \A r \in h : /\ PrintAs(h, r) \in Row
                   /\ PrintAs(h, r).who = r.who /\ PrintAs(h, r).tier = r.tier /\ PrintAs(h, r).kind = r.kind
  BY PrintKeeps
<1>2. \A q \in h, r \in h : PrintAs(h, q).who = PrintAs(h, r).who => q = r
  BY <1>0, <1>1 DEF IsField
<1>3. IsField(g)
  <2>1. g \subseteq Row
    BY <1>1
  <2>2. IsFiniteSet(g)
    <3> DEFINE m == [r \in k |-> PrintAs(h, r)]
    <3>1. \A x \in k, y \in k : m[x] = m[y] => x = y
      BY <1>2
    <3>2. IsFiniteSet({m[x] : x \in k})
      <4> HIDE DEF m
      <4> QED BY <1>0, <3>1, ImageCount DEF IsField
    <3>3. {m[x] : x \in k} = g
      OBVIOUS
    <3> QED BY <3>2, <3>3
  <2>3. \A q, r \in g : q.who = r.who => q = r
    BY <1>2
  <2>4. Rounds(g)
    <3>1. Rounds(k)
      BY <1>0 DEF IsField
    <3> QED BY <1>1, <3>1 DEF Rounds
  <2> QED BY <2>1, <2>2, <2>3, <2>4 DEF IsField
<1>4. ASSUME NEW r \in h PROVE Cardinality(Ahead(g, PrintAs(h, r))) = Cardinality(Ahead(k, r))
  <2> DEFINE m == [q \in h |-> PrintAs(h, q)]
  <2>1. Ahead(g, PrintAs(h, r)) = {m[q] : q \in Ahead(k, r)}
    <3>1. \A q \in k : PrintAs(h, q).tier = PrintAs(h, r).tier /\ PrintAs(h, q).rank < PrintAs(h, r).rank
                         <=> q.tier = r.tier /\ q.rank < r.rank
      BY PrintIsOrder
    <3> QED BY <3>1 DEF Ahead
  <2>2. IsFiniteSet(Ahead(k, r)) /\ Ahead(k, r) \subseteq h
    BY <1>0, AheadFacts
  <2>3. \A x \in Ahead(k, r), y \in Ahead(k, r) : m[x] = m[y] => x = y
    BY <1>2, <2>2
  <2> HIDE DEF m
  <2>4. Cardinality({m[q] : q \in Ahead(k, r)}) = Cardinality(Ahead(k, r))
    BY <2>2, <2>3, ImageCount
  <2> QED BY <2>1, <2>4
<1>5. Reprinted(g) = Reprinted(k)
  <2>1. \A r \in k : PrintAs(g, PrintAs(h, r)) = PrintAs(k, r)
    <3> SUFFICES ASSUME NEW r \in k PROVE PrintAs(g, PrintAs(h, r)) = PrintAs(k, r)
      OBVIOUS
    <3>1. PrintAs(g, PrintAs(h, r)) = [PrintAs(h, r) EXCEPT !.rank = Base(r.tier) + 1 + Cardinality(Ahead(k, r))]
      BY <1>1, <1>4 DEF PrintAs
    <3>2. PrintAs(k, r) = [r EXCEPT !.rank = Base(r.tier) + 1 + Cardinality(Ahead(k, r))]
      BY DEF PrintAs
    <3>3. PrintAs(h, r) = [r EXCEPT !.rank = Base(r.tier) + 1 + Cardinality(Ahead(h, r))]
      BY DEF PrintAs
    <3>4. r \in Row
      BY <1>0 DEF IsField
    <3> QED BY <3>1, <3>2, <3>3, <3>4 DEF Row
  <2>2. Reprinted(g) = {PrintAs(g, q) : q \in g} /\ Reprinted(k) = {PrintAs(k, r) : r \in k}
    BY DEF Reprinted, PrintAs
  <2>3. PICK G : G = g
    OBVIOUS
  <2>4. {PrintAs(G, q) : q \in g} = {PrintAs(k, r) : r \in k}
    <3>1. \A r \in k : PrintAs(G, PrintAs(h, r)) = PrintAs(k, r)
      <4> HIDE DEF g
      <4> QED BY <2>1, <2>3
    <3>2. {PrintAs(G, q) : q \in g} = {PrintAs(G, PrintAs(h, r)) : r \in k}
      OBVIOUS
    <3>3. {PrintAs(G, PrintAs(h, r)) : r \in k} = {PrintAs(k, r) : r \in k}
      BY <3>1
    <3> QED BY ONLY <3>2, <3>3
  <2> HIDE DEF g
  <2> QED BY <2>2, <2>3, <2>4
<1>6. RowsFor(h, k) = g
  BY DEF RowsFor
<1> HIDE DEF g
<1> QED BY ONLY <1>3, <1>4, <1>5, <1>6

(* What is printed for h has the ranks of a meet of h alone. *)
LEMMA ReprintedFacts ==
  ASSUME NEW f, IsField(f), NEW h \in SUBSET f
  PROVE  /\ Reprinted(h) = {PrintAs(h, r) : r \in h}
         /\ IsField(Reprinted(h)) /\ Printed(Reprinted(h)) /\ Names(Reprinted(h)) = Names(h)
         /\ Eligible(Reprinted(h)) = {PrintAs(h, r) : r \in Eligible(h)}
         /\ Exhibitions(Reprinted(h)) = {PrintAs(h, r) : r \in Exhibitions(h)}
<1>1. Reprinted(h) = {PrintAs(h, r) : r \in h}
  BY DEF Reprinted, PrintAs
<1>2. \A r \in h : PrintAs(h, r).who = r.who /\ PrintAs(h, r).kind = r.kind /\ PrintAs(h, r).tier = r.tier
                   /\ PrintAs(h, r).rank = Base(r.tier) + 1 + Cardinality(Ahead(h, r))
  BY PrintKeeps
<1>3. h \in SUBSET h
  OBVIOUS
<1>4. IsField(Reprinted(h)) /\ \A r \in h : Cardinality(Ahead(Reprinted(h), PrintAs(h, r))) = Cardinality(Ahead(h, r))
  <2>1. Reprinted(h) = RowsFor(h, h)
    BY <1>1 DEF RowsFor
  <2> QED BY <1>3, <2>1, PrintAgain
<1>5. Printed(Reprinted(h))
  BY <1>1, <1>2, <1>4 DEF Printed
<1> QED BY <1>1, <1>2, <1>4, <1>5 DEF Names, Eligible, Exhibitions

LEMMA PrintedStays == ASSUME NEW f, IsField(f), Printed(f) PROVE Reprinted(f) = f
<1>1. \A r \in f : PrintAs(f, r) = r
  BY DEF PrintAs, Printed, IsField, Row
<1> QED BY <1>1 DEF Reprinted, PrintAs

LEMMA AheadSplits ==
  ASSUME NEW f, IsField(f), NEW g \in SUBSET f, NEW r \in f
  PROVE  Cardinality(Ahead(f, r)) = Cardinality(Ahead(g, r)) + Cardinality(Ahead(f \ g, r))
<1>1. Ahead(f, r) = Ahead(g, r) \cup Ahead(f \ g, r) /\ Ahead(g, r) \cap Ahead(f \ g, r) = {}
  BY DEF Ahead
<1>2. f \ g \in SUBSET f
  OBVIOUS
<1>3. IsFiniteSet(Ahead(g, r)) /\ IsFiniteSet(Ahead(f \ g, r))
  BY <1>2, AheadFacts
<1>4. Cardinality(Ahead(g, r) \cup Ahead(f \ g, r)) = Cardinality(Ahead(g, r)) + Cardinality(Ahead(f \ g, r))
  <2>1. Cardinality(Ahead(g, r) \cup Ahead(f \ g, r))
          = Cardinality(Ahead(g, r)) + Cardinality(Ahead(f \ g, r)) - Cardinality(Ahead(g, r) \cap Ahead(f \ g, r))
    BY <1>3, FS_Union
  <2>2. Cardinality(Ahead(g, r) \cap Ahead(f \ g, r)) = 0
    BY <1>1, FS_EmptySet
  <2>3. Cardinality(Ahead(g, r)) \in Nat /\ Cardinality(Ahead(f \ g, r)) \in Nat
    BY <1>3, FS_CardinalityType
  <2> QED BY <2>1, <2>2, <2>3
<1> QED BY ONLY <1>1, <1>4

(* Striking rows leaves the others with the ranks of a meet without them. *)
LEMMA ShiftedIsPrinted ==
  ASSUME NEW f, IsField(f), Printed(f), NEW gone \in SUBSET f
  PROVE  Shifted(f \ gone, gone) = Reprinted(f \ gone)
<1>1. ASSUME NEW r \in f \ gone
      PROVE  [r EXCEPT !.rank = @ - Cardinality(Ahead(gone, r))] = PrintAs(f \ gone, r)
  <2>1. Cardinality(Ahead(f, r)) = Cardinality(Ahead(gone, r)) + Cardinality(Ahead(f \ gone, r))
    BY AheadSplits
  <2>2. Cardinality(Ahead(gone, r)) \in Nat /\ Cardinality(Ahead(f \ gone, r)) \in Nat /\ Base(r.tier) \in Nat
    BY AheadFacts, BaseIsNat
  <2>3. r.rank = Base(r.tier) + 1 + Cardinality(Ahead(f, r))
    BY DEF Printed
  <2>4. r.rank - Cardinality(Ahead(gone, r)) = Base(r.tier) + 1 + Cardinality(Ahead(f \ gone, r))
    BY <2>1, <2>2, <2>3
  <2> QED BY <2>4 DEF PrintAs
<1>2. Shifted(f \ gone, gone) = {[r EXCEPT !.rank = @ - Cardinality(Ahead(gone, r))] : r \in f \ gone}
  BY DEF Shifted
<1>3. Reprinted(f \ gone) = {PrintAs(f \ gone, r) : r \in f \ gone}
  BY DEF Reprinted, PrintAs
<1>4. {[r EXCEPT !.rank = @ - Cardinality(Ahead(gone, r))] : r \in f \ gone} = {PrintAs(f \ gone, r) : r \in f \ gone}
  BY ONLY <1>1
<1> QED BY ONLY <1>2, <1>3, <1>4

(* Moving the others up past the exhibition swims does so too. *)
LEMMA MovedUpIsPrinted ==
  ASSUME NEW f, IsField(f), Printed(f)
  PROVE  MovedUp(f) = Exhibitions(f) \cup Reprinted(f \ Exhibitions(f))
<1> DEFINE out == Exhibitions(f)
           least(r) == 1 + Cardinality(Ahead(f \ out, r))
           gone(r) == r.rank - Cardinality(Ahead(out, r))
           Moved(r) == [r EXCEPT !.rank = IF gone(r) > least(r) THEN gone(r) ELSE least(r)]
           New(r) == IF r \in out \/ \A x \in out : x.tier # r.tier THEN r ELSE Moved(r)
<1>0. out \in SUBSET f
  BY DEF Exhibitions
<1>1. ASSUME NEW r \in f \ out PROVE New(r) = PrintAs(f \ out, r)
  <2>1. Cardinality(Ahead(f, r)) = Cardinality(Ahead(out, r)) + Cardinality(Ahead(f \ out, r))
    BY <1>0, AheadSplits
  <2>2. Cardinality(Ahead(out, r)) \in Nat /\ Cardinality(Ahead(f \ out, r)) \in Nat /\ Base(r.tier) \in Nat
    BY <1>0, AheadFacts, BaseIsNat
  <2>3. r.rank = Base(r.tier) + 1 + Cardinality(Ahead(f, r))
    BY DEF Printed
  <2>4. gone(r) = Base(r.tier) + 1 + Cardinality(Ahead(f \ out, r)) /\ gone(r) >= least(r)
    BY <2>1, <2>2, <2>3
  <2>5. CASE \A x \in out : x.tier # r.tier
    <3>1. Ahead(out, r) = {}
      BY <2>5 DEF Ahead
    <3>2. Cardinality(Ahead(out, r)) = 0
      BY <3>1, FS_EmptySet
    <3>3. r.rank = Base(r.tier) + 1 + Cardinality(Ahead(f \ out, r))
      BY <2>1, <2>2, <2>3, <3>2
    <3>4. r \in Row
      BY DEF IsField
    <3>5. PrintAs(f \ out, r) = r
      BY <3>3, <3>4 DEF PrintAs, Row
    <3> QED BY <2>5, <3>5
  <2>6. CASE ~\A x \in out : x.tier # r.tier
    <3>1. New(r) = Moved(r)
      BY <2>6
    <3>2. (IF gone(r) > least(r) THEN gone(r) ELSE least(r)) = Base(r.tier) + 1 + Cardinality(Ahead(f \ out, r))
      <4>1. gone(r) \in Int /\ least(r) \in Int
        BY <2>2, <2>4
      <4> HIDE DEF gone, least
      <4> QED BY <2>4, <4>1
    <3> HIDE DEF gone, least, New
    <3> QED BY <3>1, <3>2 DEF PrintAs
  <2> QED BY <2>5, <2>6
<1>2. MovedUp(f) = {New(r) : r \in f}
  BY DEF MovedUp
<1>3. Reprinted(f \ out) = {PrintAs(f \ out, r) : r \in f \ out}
  BY DEF Reprinted, PrintAs
<1>4. \A r \in out : New(r) = r
  OBVIOUS
<1>5. {New(r) : r \in f} = out \cup {PrintAs(f \ out, r) : r \in f \ out}
  <2> HIDE DEF New, out
  <2> QED BY <1>0, <1>1, <1>4
<1> QED BY <1>2, <1>3, <1>5

(* Who races after the place cap, and who of them holds a place. *)
Racing(rule, ev, f) == IF rule.behavior = "removed" THEN f \ OverPlaceCap(rule, ev, f) ELSE f
Holding(rule, ev, f) ==
  IF ev \in {"relay", "timed final"} THEN Racing(rule, ev, f) ELSE Racing(rule, ev, f) \ Exhibitions(f)
Lines(rule, ev, f) == Lined(ev, Remaining(rule, ev, f))

LEMMA OverIsPart == ASSUME NEW rule, NEW ev, NEW f PROVE OverPlaceCap(rule, ev, f) \subseteq Eligible(f) /\ Eligible(f) \subseteq f
BY DEF OverPlaceCap, OverCap, Eligible

(* What is scored are the rows of those who race, and whoever can earn     *)
(* points in it has the rank of a meet of those who hold a place.          *)
LEMMA LinesAre ==
  ASSUME NEW f, IsField(f), Printed(f), NEW rule \in Rule
  PROVE  /\ IsField(Lines(rule, event, f))
         /\ Names(Lines(rule, event, f)) = Names(Racing(rule, event, f))
         /\ Eligible(Lines(rule, event, f)) = Eligible(Reprinted(Holding(rule, event, f)))
         /\ Holding(rule, event, f) \subseteq Racing(rule, event, f) /\ Racing(rule, event, f) \subseteq f
<1> DEFINE over == OverPlaceCap(rule, event, f)
           race == Racing(rule, event, f)
           hold == Holding(rule, event, f)
<1>1. over \subseteq f /\ race \in SUBSET f /\ hold \in SUBSET race /\ hold \in SUBSET f
  BY OverIsPart DEF Racing, Holding
<1>2. Remaining(rule, event, f) = Reprinted(race)
  <2>1. CASE rule.behavior = "removed"
    <3>1. Remaining(rule, event, f) = Shifted(f \ over, over) /\ race = f \ over
      BY <2>1 DEF Remaining, Racing
    <3> HIDE DEF over, race
    <3> QED BY <1>1, <3>1, ShiftedIsPrinted
  <2>2. CASE rule.behavior # "removed"
    <3>1. Remaining(rule, event, f) = f /\ race = f
      BY <2>2 DEF Remaining, Racing
    <3> QED BY <3>1, PrintedStays
  <2> QED BY <2>1, <2>2
<1>3. /\ IsField(Reprinted(race)) /\ Printed(Reprinted(race)) /\ Names(Reprinted(race)) = Names(race)
      /\ Reprinted(race) = {PrintAs(race, r) : r \in race}
      /\ Exhibitions(Reprinted(race)) = {PrintAs(race, r) : r \in Exhibitions(race)}
  BY <1>1, ReprintedFacts
<1>4. CASE event \in {"relay", "timed final"}
  <2>1. Lines(rule, event, f) = Reprinted(race) /\ hold = race
    BY <1>2, <1>4 DEF Lines, Lined, Holding
  <2> QED BY <1>1, <1>3, <2>1
<1>5. CASE event \notin {"relay", "timed final"}
  <2> DEFINE P == Reprinted(race)
             out == Exhibitions(P)
             rest == {PrintAs(race, r) : r \in hold}
  <2>1. Lines(rule, event, f) = MovedUp(P)
    BY <1>2, <1>5 DEF Lines, Lined
  <2>2. MovedUp(P) = out \cup Reprinted(P \ out)
    <3> HIDE DEF P
    <3> QED BY <1>3, MovedUpIsPrinted DEF P
  <2>3. hold = race \ Exhibitions(f) /\ Exhibitions(race) = race \ hold
    BY <1>1, <1>5 DEF Holding, Exhibitions
  <2>4. rest = P \ out
    <3>1. \A q \in race, r \in race : PrintAs(race, q) = PrintAs(race, r) => q = r
      <4>1. \A r \in race : PrintAs(race, r).who = r.who
        BY <1>1, PrintKeeps
      <4> QED BY <1>1, <4>1 DEF IsField
    <3>2. out = {PrintAs(race, r) : r \in race \ hold} /\ P = {PrintAs(race, r) : r \in race}
      BY <1>3, <2>3
    <3> HIDE DEF out, P, race, hold
    <3>3. hold \subseteq race
      BY <1>1
    <3>4. \A r \in race : PrintAs(race, r) \in out <=> r \notin hold
      BY ONLY <3>1, <3>2
    <3> QED BY ONLY <3>2, <3>3, <3>4 DEF rest
  <2>5. Reprinted(rest) = Reprinted(hold)
    <3>1. race \in SUBSET f /\ hold \in SUBSET race
      BY <1>1
    <3>2. IsField(f)
      OBVIOUS
    <3>3. rest = RowsFor(race, hold)
      BY DEF RowsFor
    <3> HIDE DEF race, hold, rest
    <3> QED BY ONLY <3>1, <3>2, <3>3, PrintAgain
  <2>6. Lines(rule, event, f) = out \cup Reprinted(hold)
    <3> HIDE DEF rest, out, P, race, hold
    <3> QED BY <2>1, <2>2, <2>4, <2>5
  <2>7. /\ IsField(Reprinted(hold)) /\ Names(Reprinted(hold)) = Names(hold)
        /\ Reprinted(hold) = {PrintAs(hold, r) : r \in hold}
    BY <1>1, ReprintedFacts
  <2>8. out \subseteq Row /\ IsFiniteSet(out) /\ Names(out) = Names(race \ hold)
    <3>1. out \subseteq P
      BY DEF Exhibitions
    <3>2. IsField(P)
      BY <1>3
    <3>3. out = {PrintAs(race, r) : r \in race \ hold}
      BY <1>3, <2>3
    <3>4. \A r \in race : PrintAs(race, r).who = r.who
      BY <1>1, PrintKeeps
    <3>5. Names(out) = Names(race \ hold)
      BY <3>3, <3>4 DEF Names
    <3>6. out \subseteq Row
      BY <3>1, <3>2 DEF IsField
    <3>7. IsFiniteSet(out)
      BY <3>1, <3>2, FS_Subset DEF IsField
    <3> QED BY <3>5, <3>6, <3>7
  <2>9. Names(out) \cap Names(hold) = {}
    BY <1>1, <2>8 DEF Names, IsField
  <2>10. IsField(out \cup Reprinted(hold))
    <3>1. IsFiniteSet(out \cup Reprinted(hold)) /\ out \cup Reprinted(hold) \subseteq Row
      <4> HIDE DEF out, hold
      <4> QED BY <2>7, <2>8, FS_Union DEF IsField
    <3>2. \A q, r \in out \cup Reprinted(hold) : q.who = r.who => q = r
      <4>1. \A q, r \in out : q.who = r.who => q = r
        BY <1>3 DEF IsField, Exhibitions
      <4>2. \A q, r \in Reprinted(hold) : q.who = r.who => q = r
        BY <2>7 DEF IsField
      <4>3. \A q \in out, r \in Reprinted(hold) : q.who # r.who
        <5> HIDE DEF out, hold
        <5> QED BY <2>7, <2>9 DEF Names
      <4> HIDE DEF out, hold
      <4> QED BY <4>1, <4>2, <4>3
    <3>3. Rounds(out \cup Reprinted(hold))
      <4>1. Rounds(f)
        BY DEF IsField
      <4>2. \A r \in race : PrintAs(race, r).tier = r.tier
        BY <1>1, PrintKeeps
      <4>3. \A r \in hold : PrintAs(hold, r).tier = r.tier
        BY <1>1, PrintKeeps
      <4>4. \A q \in out : \E r \in f : q.tier = r.tier
        BY <1>1, <1>3, <4>2 DEF Exhibitions
      <4>5. \A q \in Reprinted(hold) : \E r \in f : q.tier = r.tier
        BY <1>1, <2>7, <4>3
      <4> HIDE DEF out, hold
      <4> QED BY <4>1, <4>4, <4>5 DEF Rounds
    <3> QED BY <3>1, <3>2, <3>3 DEF IsField
  <2>11. Names(out \cup Reprinted(hold)) = Names(race)
    <3>1. Names(out \cup Reprinted(hold)) = Names(out) \cup Names(Reprinted(hold))
      BY DEF Names
    <3>2. Names(race) = Names(race \ hold) \cup Names(hold)
      BY <1>1 DEF Names
    <3> QED BY <2>7, <2>8, <3>1, <3>2
  <2>12. Eligible(out \cup Reprinted(hold)) = Eligible(Reprinted(hold))
    BY DEF Eligible, Exhibitions
  <2> HIDE DEF out, hold, race
  <2>13. hold \subseteq race /\ race \subseteq f
    BY <1>1
  <2> QED BY <2>6, <2>10, <2>11, <2>12, <2>13 DEF hold, race
<1> QED BY <1>4, <1>5
-----------------------------------------------------------------------------
(* One group after the other. *)

LEMMA CountUpTo ==
  ASSUME NEW N \in Nat, NEW M \in Nat, NEW D \in SUBSET Nat, M \in D, \A i \in M + 1 .. N : i - 1 \in D => i \in D
  PROVE  \A i \in M .. N : i \in D
<1> DEFINE E == {n \in Nat : M + n <= N => M + n \in D}
<1>1. 0 \in E
  OBVIOUS
<1>2. ASSUME NEW n \in E PROVE n + 1 \in E
  <2> SUFFICES ASSUME M + (n + 1) <= N PROVE M + (n + 1) \in D
    OBVIOUS
  <2>1. M + n \in D /\ n \in Nat
    OBVIOUS
  <2>2. M + (n + 1) \in M + 1 .. N /\ (M + (n + 1)) - 1 = M + n
    BY <2>1
  <2> QED BY <2>1, <2>2
<1>3. E = Nat
  <2> HIDE DEF E
  <2>1. E \in SUBSET Nat
    BY DEF E
  <2> QED BY <1>1, <1>2, <2>1, NumberInduction
<1>4. ASSUME NEW i \in M .. N PROVE i \in D
  <2>1. i - M \in Nat
    OBVIOUS
  <2>2. i - M \in E
    <3> HIDE DEF E
    <3> QED BY <1>3, <2>1
  <2> QED BY <2>2
<1> QED BY <1>4

Group(f, i) == {r \in f : Nth(f, r) = i}
Done(f, i) == {r \in Eligible(f) : Nth(f, r) <= i}

LEMMA GroupFacts ==
  ASSUME NEW f, IsField(f)
  PROVE  /\ Len(Groups(f)) \in Nat
         /\ \A i \in 1 .. Len(Groups(f)) : Groups(f)[i] = Group(f, i)
         /\ \A i : Group(f, i) \in SUBSET f
         /\ \A i : Eligible(Group(f, i)) = {r \in Eligible(f) : Nth(f, r) = i}
         /\ \A r \in f : Nth(f, r) \in 1 .. Len(Groups(f))
<1>1. \A r \in f : Nth(f, r) \in 1 .. Len(Groups(f))
  BY NthIsOrder
<1> QED BY <1>1, GroupsAre DEF Group, Eligible

LEMMA StandingsAre ==
  ASSUME NEW f, IsField(f), NEW rule \in Rule, NEW ev \in Kind, NEW p \in [Athlete -> Nat]
  PROVE  LET S == Standings(rule, ev, f, p)
         IN  /\ S[0] = Nothing(f, p)
             /\ \A i \in 0 .. Len(Groups(f)) : S[i] \in Standing(f)
             /\ \A i \in 1 .. Len(Groups(f)) : S[i] = GroupScored(rule, ev, S[i - 1], Group(f, i))
<1> DEFINE S == Standings(rule, ev, f, p)
           N == Len(Groups(f))
           D == {i \in Nat : S[i] \in Standing(f)}
<1>1. N \in Nat /\ (\A i \in 1 .. N : Groups(f)[i] = Group(f, i)) /\ \A i : Group(f, i) \in SUBSET f
  BY GroupFacts
<1>2. S[0] = Nothing(f, p) /\ \A i \in 1 .. N : S[i] = GroupScored(rule, ev, S[i - 1], Groups(f)[i])
  BY <1>1, StandingsFollow
<1>3. \A i \in 1 .. N : S[i] = GroupScored(rule, ev, S[i - 1], Group(f, i))
  BY <1>1, <1>2
<1> HIDE DEF S
<1>4. 0 \in D
  BY <1>2 DEF Nothing, Standing
<1>5. ASSUME NEW i \in 0 + 1 .. N, i - 1 \in D PROVE i \in D
  <2>1. S[i] = GroupScored(rule, ev, S[i - 1], Group(f, i)) /\ i \in Nat /\ S[i - 1] \in Standing(f) /\ Group(f, i) \in SUBSET f
    BY <1>1, <1>3, <1>5
  <2>2. Leaves(S[i], f, rule, ev, S[i - 1], Group(f, i))
    BY <2>1, GroupGives
  <2> QED BY <2>1, <2>2 DEF Leaves
<1>6. \A i \in 0 .. N : i \in D
  <2>1. D \in SUBSET Nat
    OBVIOUS
  <2> HIDE DEF D, N
  <2> QED BY <1>1, <1>4, <1>5, <2>1, CountUpTo
<1> QED BY <1>2, <1>3, <1>6 DEF S

(* Who is paid by a group is in it. *)
LEMMA PaidIsIn ==
  ASSUME NEW f, IsField(f), NEW rule \in Rule, NEW ev \in Kind, NEW acc, NEW g \in SUBSET f
  PROVE  /\ Paid(rule, ev, acc, g) \subseteq Entered(rule, ev, g)
         /\ Entered(rule, ev, g) \subseteq Names(Eligible(g)) /\ Names(Eligible(g)) \subseteq Names(f)
BY TakenIs, NamesPart DEF Paid

(* A row stands as it came until its group is scored, and from then on as *)
(* that left it.                                                          *)
LEMMA RowStands ==
  ASSUME NEW f, IsField(f), NEW rule \in Rule, NEW ev \in Kind, NEW p \in [Athlete -> Nat], NEW r \in f
  PROVE  LET S == Standings(rule, ev, f, p)
             n == Nth(f, r)
         IN  /\ \A i \in 0 .. n - 1 : S[i].points[r.who] = 0 /\ S[i].pool[r.who] = p[r.who]
             /\ \A i \in n .. Len(Groups(f)) : S[i].points[r.who] = S[n].points[r.who] /\ S[i].pool[r.who] = S[n].pool[r.who]
<1> DEFINE S == Standings(rule, ev, f, p)
           N == Len(Groups(f))
           n == Nth(f, r)
           D == {i \in Nat : S[i].points[r.who] = 0 /\ S[i].pool[r.who] = p[r.who]}
           E == {i \in Nat : S[i].points[r.who] = S[n].points[r.who] /\ S[i].pool[r.who] = S[n].pool[r.who]}
<1>0. IsField(f) /\ r \in f
  OBVIOUS
<1>1. N \in Nat /\ n \in 1 .. N /\ \A i : Group(f, i) \in SUBSET f
  BY ONLY <1>0, GroupFacts
<1>2. /\ S[0] = Nothing(f, p)
      /\ \A i \in 0 .. N : S[i] \in Standing(f)
      /\ \A i \in 1 .. N : S[i] = GroupScored(rule, ev, S[i - 1], Group(f, i))
  BY StandingsAre
<1>3. r.who \in Names(f) /\ r.who \in Athlete
  <2>1. r.who \in Names(f)
    BY ONLY <1>0 DEF Names
  <2>2. r.who \in Athlete
    BY ONLY <1>0 DEF IsField, Row
  <2> QED BY ONLY <2>1, <2>2
<1> HIDE DEF S, N, n
<1>4. ASSUME NEW i \in 1 .. N, i # n
      PROVE  S[i].points[r.who] = S[i - 1].points[r.who] /\ S[i].pool[r.who] = S[i - 1].pool[r.who]
  <2>1. r.who \notin Paid(rule, ev, S[i - 1], Group(f, i))
    <3>1. r.who \notin Names(Eligible(Group(f, i)))
      <4>1. \A q \in Eligible(Group(f, i)) : q \in f /\ Nth(f, q) = i
        BY DEF Eligible, Group
      <4> QED BY <1>4, <4>1 DEF Names, IsField, n
    <3> QED BY <1>1, <3>1, PaidIsIn
  <2>2. S[i - 1] \in Standing(f) /\ S[i] = GroupScored(rule, ev, S[i - 1], Group(f, i)) /\ Group(f, i) \in SUBSET f
    BY <1>1, <1>2
  <2>3. Leaves(S[i], f, rule, ev, S[i - 1], Group(f, i))
    BY <2>2, GroupGives
  <2> QED BY <1>3, <2>1, <2>3 DEF Leaves
<1>5. \A i \in 0 .. n - 1 : i \in D
  <2>1. 0 \in D
    BY <1>2, <1>3 DEF Nothing
  <2>2. \A i \in 0 + 1 .. n - 1 : i - 1 \in D => i \in D
    BY <1>1, <1>4
  <2>3. D \in SUBSET Nat /\ n - 1 \in Nat
    BY <1>1
  <2> HIDE DEF D
  <2> QED BY <2>1, <2>2, <2>3, CountUpTo
<1>6. \A i \in n .. N : i \in E
  <2>1. n \in E
    BY <1>1
  <2>2. \A i \in n + 1 .. N : i - 1 \in E => i \in E
    BY <1>1, <1>4
  <2>3. E \in SUBSET Nat /\ n \in Nat
    BY <1>1
  <2> HIDE DEF E
  <2> QED BY <1>1, <2>1, <2>2, <2>3, CountUpTo
<1> QED BY <1>5, <1>6 DEF S, N, n

(* What a row comes to: the share of its group, if its group pays it. *)
LEMMA RowEarns ==
  ASSUME NEW f, IsField(f), NEW rule \in Rule, NEW ev \in Kind, NEW p \in [Athlete -> Nat], NEW r \in f
  PROVE  LET S == Standings(rule, ev, f, p)
             g == Group(f, Nth(f, r))
             acc == S[Nth(f, r) - 1]
         IN  /\ acc \in Standing(f) /\ g \in SUBSET f /\ acc.pool[r.who] = p[r.who]
             /\ S[Len(Groups(f))] \in Standing(f)
             /\ S[Len(Groups(f))].points[r.who] = IF r.who \in Paid(rule, ev, acc, g) THEN Each(ev, acc, g) ELSE 0
             /\ S[Len(Groups(f))].pool[r.who] = IF ByPool(rule, ev) /\ r.who \in Paid(rule, ev, acc, g) /\ p[r.who] = 0
                                               THEN Weight(ev) ELSE p[r.who]
<1> DEFINE S == Standings(rule, ev, f, p)
           N == Len(Groups(f))
           n == Nth(f, r)
           acc == S[n - 1]
           g == Group(f, n)
<1>0. IsField(f) /\ r \in f
  OBVIOUS
<1>1. N \in Nat /\ n \in 1 .. N /\ g \in SUBSET f
  BY ONLY <1>0, GroupFacts
<1>2. (\A i \in 0 .. N : S[i] \in Standing(f)) /\ \A i \in 1 .. N : S[i] = GroupScored(rule, ev, S[i - 1], Group(f, i))
  BY StandingsAre
<1>3. r.who \in Names(f) /\ r.who \in Athlete
  <2>1. r.who \in Names(f)
    BY ONLY <1>0 DEF Names
  <2>2. r.who \in Athlete
    BY ONLY <1>0 DEF IsField, Row
  <2> QED BY ONLY <2>1, <2>2
<1>4. acc.points[r.who] = 0 /\ acc.pool[r.who] = p[r.who] /\ S[N].points[r.who] = S[n].points[r.who] /\ S[N].pool[r.who] = S[n].pool[r.who]
  <2>1. /\ \A i \in 0 .. n - 1 : S[i].points[r.who] = 0 /\ S[i].pool[r.who] = p[r.who]
        /\ \A i \in n .. N : S[i].points[r.who] = S[n].points[r.who] /\ S[i].pool[r.who] = S[n].pool[r.who]
    BY RowStands
  <2> HIDE DEF S, N, n
  <2> QED BY <1>1, <2>1
<1> HIDE DEF S, N, n, g
<1>5. acc \in Standing(f) /\ S[N] \in Standing(f)
  BY <1>1, <1>2
<1>6. S[n] = GroupScored(rule, ev, acc, g)
  BY <1>1, <1>2 DEF g
<1> HIDE DEF acc
<1>7. /\ S[n].points[r.who] = IF r.who \in Paid(rule, ev, acc, g) THEN Each(ev, acc, g) ELSE acc.points[r.who]
      /\ S[n].pool[r.who] = IF ByPool(rule, ev) /\ r.who \in Paid(rule, ev, acc, g) /\ acc.pool[r.who] = 0
                            THEN Weight(ev) ELSE acc.pool[r.who]
  <2>1. Leaves(S[n], f, rule, ev, acc, g)
    BY <1>1, <1>5, <1>6, GroupGives
  <2> QED BY <1>3, <2>1 DEF Leaves
<1> QED BY <1>1, <1>4, <1>5, <1>7 DEF S, N, n, g, acc
-----------------------------------------------------------------------------
(* The places rows are paid for, in an event as it was printed: the rounds *)
(* are the event's and no final is larger than its bracket.                *)

InRound(f, t) == {r \in f : r.tier = t}
Fair(f) ==
  /\ IsField(f) /\ Printed(f)
  /\ \A r \in f : r.tier \in Tiers
  /\ \A t \in {"A", "B"} : Cardinality(InRound(f, t)) <= Bracket

Seat(f, r) == (IF r.tier = "B" THEN Bracket ELSE 0) + 1 + Cardinality(Ahead(f, r))
Tied(f, r) == {q \in Eligible(f) : Ranked(q) = Ranked(r)}

LEMMA FairPart == ASSUME NEW f, Fair(f), NEW h \in SUBSET f PROVE Fair(Reprinted(h))
<1>1. IsField(f) /\ IsField(h)
  BY FieldPart DEF Fair
<1>2. Reprinted(h) = {PrintAs(h, r) : r \in h} /\ IsField(Reprinted(h)) /\ Printed(Reprinted(h))
  BY <1>1, ReprintedFacts
<1>3. \A r \in h : PrintAs(h, r).tier = r.tier /\ PrintAs(h, r).who = r.who
  BY <1>1, PrintKeeps
<1>4. ASSUME NEW t \in {"A", "B"} PROVE Cardinality(InRound(Reprinted(h), t)) <= Bracket
  <2> DEFINE m == [r \in h |-> PrintAs(h, r)]
  <2>1. InRound(Reprinted(h), t) = {m[r] : r \in InRound(h, t)}
    BY <1>2, <1>3 DEF InRound
  <2>2. \A x \in h, y \in h : m[x] = m[y] => x = y
    BY <1>1, <1>3 DEF IsField
  <2>3. InRound(h, t) \subseteq h /\ InRound(h, t) \subseteq InRound(f, t) /\ InRound(f, t) \subseteq f
    BY DEF InRound
  <2>4. IsFiniteSet(InRound(f, t))
    BY <1>1, <2>3, FS_Subset DEF IsField
  <2>5. IsFiniteSet(InRound(h, t)) /\ Cardinality(InRound(h, t)) <= Cardinality(InRound(f, t))
    BY <2>3, <2>4, FS_Subset
  <2> HIDE DEF m
  <2>6. \A x \in InRound(h, t), y \in InRound(h, t) : m[x] = m[y] => x = y
    BY <2>2, <2>3
  <2>7. Cardinality({m[r] : r \in InRound(h, t)}) = Cardinality(InRound(h, t))
    BY <2>5, <2>6, ImageCount
  <2>8. Cardinality(InRound(Reprinted(h), t)) = Cardinality(InRound(h, t))
    BY <2>1, <2>7
  <2>9. Cardinality(InRound(f, t)) <= Bracket
    BY DEF Fair
  <2>10. Cardinality(InRound(f, t)) \in Nat /\ Cardinality(InRound(h, t)) \in Nat /\ Bracket \in Nat
    BY <2>4, <2>5, FS_CardinalityType, MeetSizes
  <2> QED BY <2>5, <2>8, <2>9, <2>10
<1>5. \A r \in Reprinted(h) : r.tier \in Tiers
  BY <1>2, <1>3 DEF Fair
<1> QED BY <1>2, <1>4, <1>5 DEF Fair

LEMMA TiedFacts ==
  ASSUME NEW f, IsField(f), NEW r \in f
  PROVE  /\ Eligible(Group(f, Nth(f, r))) = Tied(f, r)
         /\ Tied(f, r) \subseteq InRound(f, r.tier) /\ Tied(f, r) \cap Ahead(f, r) = {}
         /\ Ahead(f, r) \subseteq InRound(f, r.tier)
         /\ IsFiniteSet(Tied(f, r)) /\ Cardinality(Tied(f, r)) \in Nat
         /\ IsFiniteSet(InRound(f, r.tier)) /\ Cardinality(InRound(f, r.tier)) \in Nat
         /\ Cardinality(Ahead(f, r) \cup Tied(f, r)) = Cardinality(Ahead(f, r)) + Cardinality(Tied(f, r))
         /\ Cardinality(Ahead(f, r)) + Cardinality(Tied(f, r)) <= Cardinality(InRound(f, r.tier))
         /\ r \in Eligible(f) => r \in Tied(f, r) /\ Cardinality(Tied(f, r)) # 0
<1>0. f \subseteq Row /\ Eligible(f) \subseteq f /\ Rounds(f) /\ f \in SUBSET f
  BY DEF IsField, Eligible
<1>1. Eligible(Group(f, Nth(f, r))) = Tied(f, r)
  BY <1>0, GroupFacts, SameGroup DEF Tied
<1>2. \A q \in f : TierOrder[q.tier] = TierOrder[r.tier] => q.tier = r.tier
  BY <1>0, TierOrderFacts DEF Rounds, Row
<1>3. Tied(f, r) \subseteq InRound(f, r.tier) /\ Ahead(f, r) \subseteq InRound(f, r.tier)
  BY <1>0, <1>2 DEF Tied, InRound, Ranked, Ahead
<1>4. Tied(f, r) \cap Ahead(f, r) = {}
  BY <1>0 DEF Tied, Ahead, Ranked, Row
<1>5. IsFiniteSet(InRound(f, r.tier)) /\ Cardinality(InRound(f, r.tier)) \in Nat
  <2>1. InRound(f, r.tier) \subseteq f
    BY DEF InRound
  <2> QED BY <2>1, FS_Subset, FS_CardinalityType DEF IsField
<1>6. IsFiniteSet(Tied(f, r)) /\ Cardinality(Tied(f, r)) \in Nat /\ IsFiniteSet(Ahead(f, r)) /\ Cardinality(Ahead(f, r)) \in Nat
  BY <1>3, <1>5, FS_Subset, FS_CardinalityType
<1>7. Cardinality(Ahead(f, r) \cup Tied(f, r)) = Cardinality(Ahead(f, r)) + Cardinality(Tied(f, r))
  <2>1. Cardinality(Ahead(f, r) \cap Tied(f, r)) = 0
    <3>1. Ahead(f, r) \cap Tied(f, r) = {}
      BY <1>4
    <3> QED BY <3>1, FS_EmptySet
  <2>2. Cardinality(Ahead(f, r) \cup Tied(f, r))
          = Cardinality(Ahead(f, r)) + Cardinality(Tied(f, r)) - Cardinality(Ahead(f, r) \cap Tied(f, r))
    BY <1>6, FS_Union
  <2> QED BY <1>6, <2>1, <2>2
<1>8. Cardinality(Ahead(f, r)) + Cardinality(Tied(f, r)) <= Cardinality(InRound(f, r.tier))
  <2>1. Ahead(f, r) \cup Tied(f, r) \subseteq InRound(f, r.tier)
    BY <1>3
  <2>2. Cardinality(Ahead(f, r) \cup Tied(f, r)) <= Cardinality(InRound(f, r.tier))
    BY <1>5, <2>1, FS_Subset
  <2> QED BY <1>7, <2>2
<1>9. r \in Eligible(f) => r \in Tied(f, r) /\ Cardinality(Tied(f, r)) # 0
  BY <1>6, FS_EmptySet DEF Tied
<1> QED BY <1>1, <1>3, <1>4, <1>5, <1>6, <1>7, <1>8, <1>9

(* In-heat or overall, a final's rank is read as the place it is. *)
LEMMA PlaceIsSeat ==
  ASSUME NEW f, Fair(f), NEW r \in Eligible(f)
  PROVE  Place(r) = IF Seat(f, r) <= Len(Table) THEN Seat(f, r) ELSE 0
<1>1. IsField(f) /\ r \in f /\ r \in Row /\ r.tier \in Tiers
  BY DEF Fair, IsField, Eligible
<1>2. r.rank = Base(r.tier) + 1 + Cardinality(Ahead(f, r))
  BY <1>1 DEF Fair, Printed
<1>3. f \in SUBSET f
  OBVIOUS
<1>4. Cardinality(Ahead(f, r)) \in Nat
  BY <1>1, <1>3, AheadFacts
<1>5. CASE r.tier = "B"
  <2>1. Cardinality(InRound(f, r.tier)) <= Bracket
    BY <1>5 DEF Fair
  <2>2. 1 + Cardinality(Ahead(f, r)) <= Bracket
    <3>1. /\ Cardinality(Ahead(f, r)) + Cardinality(Tied(f, r)) <= Cardinality(InRound(f, r.tier))
          /\ Cardinality(Tied(f, r)) \in Nat \ {0} /\ Cardinality(InRound(f, r.tier)) \in Nat
      BY <1>1, TiedFacts
    <3> QED BY <1>4, <2>1, <3>1, MeetSizes
  <2>3. CASE event = "finals overall"
    <3>1. r.rank = Bracket + 1 + Cardinality(Ahead(f, r))
      BY <1>2, <1>5, <2>3 DEF Base
    <3> QED BY <1>4, <1>5, <2>2, <3>1, MeetSizes DEF Place, Seat
  <2>4. CASE ~(event = "finals overall")
    <3>1. r.rank = 1 + Cardinality(Ahead(f, r))
      <4>1. Base(r.tier) = 0
        BY <2>4 DEF Base
      <4> QED BY <1>2, <1>4, <4>1
    <3>2. Seat(f, r) = Bracket + r.rank
      BY <1>4, <1>5, <3>1, MeetSizes DEF Seat
    <3> QED BY <1>4, <1>5, <2>2, <3>1, <3>2, MeetSizes DEF Place
  <2> QED BY <2>3, <2>4
<1>6. CASE r.tier # "B"
  <2>1. r.rank = 1 + Cardinality(Ahead(f, r))
    BY <1>2, <1>4, <1>6 DEF Base
  <2>2. Seat(f, r) = r.rank
    BY <1>4, <1>6, <2>1 DEF Seat
  <2> QED BY <1>6, <2>2 DEF Place
<1> QED BY <1>5, <1>6

(* Whoever ranks behind a tie is paid for a place behind all of its. *)
LEMMA SeatOrder ==
  ASSUME NEW f, Fair(f), NEW q \in Eligible(f), NEW r \in Eligible(f), RankedAbove(q, r)
  PROVE  Seat(f, q) + Cardinality(Tied(f, q)) <= Seat(f, r)
<1>1. IsField(f) /\ q \in f /\ r \in f /\ q \in Row /\ r \in Row /\ Rounds(f)
  BY DEF Fair, IsField, Eligible
<1>2. f \in SUBSET f
  OBVIOUS
<1>3. IsFiniteSet(Ahead(f, r)) /\ Cardinality(Ahead(f, r)) \in Nat /\ Cardinality(Ahead(f, q)) \in Nat
  BY <1>1, <1>2, AheadFacts
<1>4. /\ Cardinality(Ahead(f, q) \cup Tied(f, q)) = Cardinality(Ahead(f, q)) + Cardinality(Tied(f, q))
      /\ Cardinality(Ahead(f, q)) + Cardinality(Tied(f, q)) <= Cardinality(InRound(f, q.tier))
      /\ Cardinality(Tied(f, q)) \in Nat
      /\ Cardinality(InRound(f, q.tier)) \in Nat
      /\ Tied(f, q) \subseteq InRound(f, q.tier)
  BY <1>1, TiedFacts
<1>5. CASE q.tier = r.tier
  <2>1. q.rank < r.rank
    BY <1>5, <1>1, TierOrderFacts DEF RankedAbove, Row
  <2>2. Ahead(f, q) \cup Tied(f, q) \subseteq Ahead(f, r)
    <3>1. \A p \in Tied(f, q) : p.tier = q.tier /\ p.rank = q.rank /\ p \in f
      BY <1>4 DEF Tied, InRound, Ranked
    <3>2. \A p \in f : p.rank \in Nat
      BY <1>1 DEF IsField, Row
    <3>3. q.rank \in Nat /\ r.rank \in Nat
      BY <1>1, <3>2
    <3> QED BY <1>5, <2>1, <3>1, <3>2, <3>3 DEF Ahead
  <2>3. Cardinality(Ahead(f, q) \cup Tied(f, q)) <= Cardinality(Ahead(f, r))
    BY <1>3, <2>2, FS_Subset
  <2> QED BY <1>3, <1>4, <1>5, <2>3, MeetSizes DEF Seat
<1>6. CASE q.tier # r.tier
  <2>1. q.tier = "A" /\ r.tier = "B"
    BY <1>1, <1>6, TierOrderFacts DEF RankedAbove, Row, Rounds
  <2>2. Cardinality(InRound(f, "A")) <= Bracket
    BY DEF Fair
  <2>3. Seat(f, q) = 1 + Cardinality(Ahead(f, q)) /\ Seat(f, r) = Bracket + 1 + Cardinality(Ahead(f, r))
    BY <1>3, <2>1 DEF Seat
  <2> QED BY <1>3, <1>4, <2>1, <2>2, <2>3, MeetSizes
<1> QED BY <1>5, <1>6
-----------------------------------------------------------------------------
(* No event pays more than its table.                                      *)

Ladder(p) == Total(Values, 1 .. p)

LEMMA IntervalFacts ==
  \A a, b \in Int : IsFiniteSet(a .. b) /\ a .. b \subseteq Int /\ \A x \in a .. b : Values[x] \in Nat
<1> SUFFICES ASSUME NEW a \in Int, NEW b \in Int
             PROVE  IsFiniteSet(a .. b) /\ a .. b \subseteq Int /\ \A x \in a .. b : Values[x] \in Nat
  OBVIOUS
<1>1. IsFiniteSet(a .. b)
  BY FS_Interval
<1>2. a .. b \subseteq Int
  OBVIOUS
<1> QED BY <1>1, <1>2, ValueIsNat

LEMMA LadderGoesOn ==
  ASSUME NEW p \in Nat, NEW k \in Nat
  PROVE  /\ Ladder(p) \in Nat /\ Ladder(p + k) \in Nat /\ Total(Values, p + 1 .. p + k) \in Nat
         /\ Ladder(p + k) = Ladder(p) + Total(Values, p + 1 .. p + k)
<1>1. 1 .. p + k = (1 .. p) \cup (p + 1 .. p + k) /\ (1 .. p) \cap (p + 1 .. p + k) = {}
  OBVIOUS
<1>2. IsFiniteSet(1 .. p) /\ IsFiniteSet(p + 1 .. p + k) /\ IsFiniteSet(1 .. p + k)
  BY IntervalFacts
<1>3. \A x \in 1 .. p + k : Values[x] \in Nat
  BY IntervalFacts
<1>4. \A x \in (1 .. p) \cup (p + 1 .. p + k) : Values[x] \in Nat
  BY IntervalFacts
<1>5. Total(Values, (1 .. p) \cup (p + 1 .. p + k)) = Total(Values, 1 .. p) + Total(Values, p + 1 .. p + k)
  BY <1>1, <1>2, <1>4, TotalOfUnion
<1>6. Total(Values, 1 .. p + k) = Total(Values, (1 .. p) \cup (p + 1 .. p + k))
  BY ONLY <1>1
<1>7. Total(Values, 1 .. p) \in Nat /\ Total(Values, 1 .. p + k) \in Nat
  BY <1>2, <1>3, SumIsNat
<1>8. Total(Values, p + 1 .. p + k) \in Nat
  BY <1>2, <1>4, SumIsNat
<1> QED BY <1>5, <1>6, <1>7, <1>8 DEF Ladder

LEMMA LadderRises == ASSUME NEW p \in Nat, NEW q \in Nat, p <= q PROVE Ladder(p) <= Ladder(q)
<1>1. q - p \in Nat /\ p + (q - p) = q
  OBVIOUS
<1>2. Ladder(p + (q - p)) = Ladder(p) + Total(Values, p + 1 .. p + (q - p)) /\ Ladder(p) \in Nat
      /\ Total(Values, p + 1 .. p + (q - p)) \in Nat
  BY <1>1, LadderGoesOn
<1>3. Ladder(p + (q - p)) = Ladder(q)
  BY ONLY <1>1
<1> QED BY <1>2, <1>3

LEMMA LadderIsTable ==
  /\ Len(Table) \in Nat
  /\ Ladder(Len(Table)) = Total(Table, DOMAIN Table)
  /\ \A p \in Nat : Ladder(p) <= Ladder(Len(Table))
  /\ \A p \in Nat : p >= Len(Table) => Ladder(p) = Ladder(Len(Table))
<1> DEFINE n == Len(Table)
<1>1. n \in Nat /\ DOMAIN Table = 1 .. n
  BY MeetSizes
<1>2. Ladder(n) = Total(Table, DOMAIN Table)
  <2>1. \A p \in 1 .. n : Values[p] = Table[p]
    BY DEF Values, Value, InTable
  <2>2. IsFiniteSet(1 .. n)
    BY <1>1, IntervalFacts
  <2>3. Total(Values, 1 .. n) = Total(Table, 1 .. n)
    BY <2>1, <2>2, SumsAlike
  <2> QED BY <1>1, <2>3 DEF Ladder
<1>3. ASSUME NEW p \in Nat, p >= n PROVE Ladder(p) = Ladder(n)
  <2>1. \A x \in (1 .. p) \ (1 .. n) : Values[x] = 0
    BY <1>1 DEF Values, Value, InTable
  <2>2. IsFiniteSet(1 .. p) /\ (1 .. n) \in SUBSET (1 .. p) /\ \A x \in 1 .. n : Values[x] \in Nat
    BY <1>1, <1>3, IntervalFacts
  <2>3. Total(Values, 1 .. p) = Total(Values, 1 .. n)
    BY <2>1, <2>2, TotalOfSupport
  <2> QED BY <2>3 DEF Ladder
<1>4. ASSUME NEW p \in Nat PROVE Ladder(p) <= Ladder(n)
  <2>1. CASE p <= n
    BY <1>1, <2>1, LadderRises
  <2>2. CASE p >= n
    <3>1. Ladder(n) \in Nat
      <4>1. 0 \in Nat /\ n + 0 = n
        BY <1>1
      <4>2. Ladder(n + 0) \in Nat
        BY <1>1, <4>1, LadderGoesOn
      <4> QED BY <4>1, <4>2
    <3>2. Ladder(p) = Ladder(n)
      BY <1>3, <2>2
    <3> QED BY <3>1, <3>2
  <2> QED BY <1>1, <2>1, <2>2
<1> QED BY <1>1, <1>2, <1>3, <1>4

TablesPaid(ev) == IF ev = "relay" THEN 2 ELSE 1

LEMMA TimesNat == \A ev, s : s \in Nat => TablesPaid(ev) * s \in Nat
BY DEF TablesPaid

LEMMA TimesUp == ASSUME NEW ev, NEW a \in Nat, NEW b \in Nat
                 PROVE  TablesPaid(ev) * (a + b) = TablesPaid(ev) * a + TablesPaid(ev) * b /\ (a <= b => TablesPaid(ev) * a <= TablesPaid(ev) * b)
BY DEF TablesPaid

LEMMA CostsUp ==
  ASSUME NEW old \in Nat, NEW paid \in Nat, NEW t \in Nat, NEW w \in Nat, NEW up \in Nat, NEW all, NEW room,
         all = old + paid, old <= t, paid <= w, room = t + w, room <= up
  PROVE  all <= up
OBVIOUS

LEMMA TimesProduct ==
  ASSUME NEW m \in {1, 2}, NEW s \in Nat, NEW k \in Nat, NEW n \in Nat, NEW v \in Nat, n <= k, k * s <= v
  PROVE  (m * s) * n <= m * v
<1>1. n * s <= k * s /\ n * s \in Nat /\ k * s \in Nat
  OBVIOUS
<1>2. n * s <= v
  BY <1>1
<1>3. CASE m = 1
  BY <1>2, <1>3
<1>4. CASE m = 2
  <2>1. (2 * s) * n = 2 * (n * s)
    OBVIOUS
  <2> QED BY <1>1, <1>2, <1>4, <2>1
<1> QED BY <1>3, <1>4

(* A group's share, for as many of it as are paid. *)
LEMMA GroupCosts ==
  ASSUME NEW f, IsField(f), NEW rule \in Rule, NEW ev \in Kind, NEW acc \in Standing(f), NEW g \in SUBSET f,
         Paid(rule, ev, acc, g) # {}
  PROVE  LET k == Cardinality(Eligible(g))
             first == FirstPlace(ev, acc, g)
         IN  /\ Eligible(g) # {} /\ k \in Nat \ {0} /\ first \in Nat \ {0} /\ Each(ev, acc, g) \in Nat
             /\ Each(ev, acc, g) * Cardinality(Paid(rule, ev, acc, g)) <= TablesPaid(ev) * Total(Values, first .. first + k - 1)
             /\ Total(Values, first .. first + k - 1) \in Nat
             /\ Cardinality(Paid(rule, ev, acc, g)) \in Nat
<1> DEFINE k == Cardinality(Eligible(g))
           first == FirstPlace(ev, acc, g)
           paid == Paid(rule, ev, acc, g)
           share == Share(first, k)
<1>1. Reached(ev, acc, g) /\ paid = Taken(rule, ev, acc, g)
  BY DEF Paid
<1>2. Eligible(g) # {} /\ first # 0
  <2>1. first \in 1 .. Len(Table) /\ Eligible(g) # {}
    BY <1>1, ReachedIs
  <2> QED BY <2>1
<1>3. k \in Nat \ {0} /\ first \in Nat
  BY <1>2, EligiblePart, EachIsNat
<1>4. Each(ev, acc, g) = TablesPaid(ev) * share
  <2>1. share \in Nat
    BY <1>3, ShareIsCovered
  <2>2. Each(ev, acc, g) = IF ev = "relay" THEN 2 * share ELSE share
    BY <1>1 DEF Each
  <2> HIDE DEF share
  <2> QED BY <2>1, <2>2 DEF TablesPaid
<1>6. Cardinality(paid) <= k /\ Cardinality(paid) \in Nat
  <2>1. paid \subseteq Names(Eligible(g))
    BY PaidIsIn
  <2>2. IsFiniteSet(Names(Eligible(g))) /\ Cardinality(Names(Eligible(g))) = k
    BY NamesPart
  <2> HIDE DEF paid, k
  <2> QED BY <2>1, <2>2, FS_Subset, FS_CardinalityType
<1>7. share \in Nat /\ k * share <= Total(Values, first .. first + k - 1) /\ Total(Values, first .. first + k - 1) \in Nat
  BY <1>3, ShareIsCovered, ShareIs
<1>8. (TablesPaid(ev) * share) * Cardinality(paid) <= TablesPaid(ev) * Total(Values, first .. first + k - 1)
  <2>1. TablesPaid(ev) \in {1, 2}
    BY DEF TablesPaid
  <2> HIDE DEF paid, k, share, first
  <2> QED BY <1>3, <1>6, <1>7, <2>1, TimesProduct
<1>9. Each(ev, acc, g) \in Nat
  BY EachIsNat
<1> HIDE DEF share
<1> QED BY <1>2, <1>3, <1>4, <1>6, <1>7, <1>8, <1>9

(* What is paid out goes up by a group's share for everyone it pays. *)
LEMMA PaidOut ==
  ASSUME NEW f, IsField(f), NEW rule \in Rule, NEW ev \in Kind, NEW p \in [Athlete -> Nat], NEW i \in 1 .. Len(Groups(f))
  PROVE  LET S == Standings(rule, ev, f, p)
             acc == S[i - 1]
             g == Group(f, i)
         IN  /\ Total(S[i].points, Names(f)) = Total(acc.points, Names(f)) + Each(ev, acc, g) * Cardinality(Paid(rule, ev, acc, g))
             /\ Total(acc.points, Names(f)) \in Nat /\ Total(S[i].points, Names(f)) \in Nat
<1> DEFINE S == Standings(rule, ev, f, p)
           acc == S[i - 1]
           g == Group(f, i)
           paid == Paid(rule, ev, acc, g)
           each == Each(ev, acc, g)
<1>1. i - 1 \in 0 .. Len(Groups(f)) /\ i \in 0 .. Len(Groups(f)) /\ g \in SUBSET f
  BY GroupFacts
<1>2. acc \in Standing(f) /\ S[i] \in Standing(f) /\ S[i] = GroupScored(rule, ev, acc, g)
  BY <1>1, StandingsAre
<1>3. Leaves(S[i], f, rule, ev, acc, g)
  BY <1>1, <1>2, GroupGives
<1>4. IsFiniteSet(Names(f)) /\ paid \in SUBSET Names(f)
  <2>1. f \in SUBSET f
    OBVIOUS
  <2>2. IsFiniteSet(Names(f))
    BY <2>1, NamesPart
  <2> HIDE DEF acc, g
  <2>3. paid \subseteq Names(f)
    BY <1>1, PaidIsIn
  <2> QED BY <2>2, <2>3
<1>5. \A a \in paid : acc.points[a] = 0
  <2> SUFFICES ASSUME NEW a \in paid PROVE acc.points[a] = 0
    OBVIOUS
  <2>1. PICK r \in Eligible(g) : r.who = a
    <3>1. a \in Names(Eligible(g))
      BY <1>1, PaidIsIn
    <3> QED BY <3>1 DEF Names
  <2>2. r \in f /\ Nth(f, r) = i
    BY <2>1 DEF Eligible, Group
  <2>3. \A j \in 0 .. i - 1 : S[j].points[a] = 0
    BY <2>1, <2>2, RowStands
  <2> QED BY <1>1, <2>3
<1>6. each \in Nat
  BY <1>1, <1>2, EachIsNat
<1>7. (\A a \in Names(f) : acc.points[a] \in Nat) /\ \A a \in Names(f) : S[i].points[a] \in Nat
  BY <1>2 DEF Standing
<1>8. \A a \in Names(f) : S[i].points[a] = IF a \in paid THEN each ELSE acc.points[a]
  BY <1>3 DEF Leaves
<1> HIDE DEF S, acc, each, paid
<1>9. (\A a \in paid : S[i].points[a] = acc.points[a] + each) /\ \A a \in Names(f) \ paid : S[i].points[a] = acc.points[a]
  BY <1>4, <1>5, <1>6, <1>8
<1>10. Total(S[i].points, Names(f)) = Total(acc.points, Names(f)) + each * Cardinality(paid)
  BY <1>4, <1>6, <1>7, <1>9, TotalRaised
<1>11. Total(acc.points, Names(f)) \in Nat /\ Total(S[i].points, Names(f)) \in Nat
  BY <1>4, <1>7, SumIsNat
<1> QED BY <1>10, <1>11 DEF S, acc, each, paid, g

LEMMA NothingPaid ==
  ASSUME NEW f, IsField(f), NEW p PROVE Total(Nothing(f, p).points, Names(f)) = 0
<1>1. f \in SUBSET f
  OBVIOUS
<1>2. IsFiniteSet(Names(f))
  BY <1>1, NamesPart
<1>3. \A a \in Names(f) : Nothing(f, p).points[a] = 0
  BY DEF Nothing
<1> QED BY <1>2, <1>3, TotalOfZeros

Timed(ev) == ev = "timed final"

(* A timed final pays what the ladder has come to. *)
LEMMA TimedPays ==
  ASSUME NEW f, IsField(f), NEW rule \in Rule, NEW p \in [Athlete -> Nat], NEW ev \in Kind, Timed(ev)
  PROVE  Total(Standings(rule, ev, f, p)[Len(Groups(f))].points, Names(f)) <= Ladder(Len(Table))
<1> DEFINE S == Standings(rule, ev, f, p)
           N == Len(Groups(f))
           D == {i \in Nat : /\ S[i].place \in Nat
                             /\ Total(S[i].points, Names(f)) \in Nat
                             /\ Total(S[i].points, Names(f)) <= Ladder(S[i].place)}
<1>0. N \in Nat /\ Len(Table) \in Nat
  BY GroupFacts, LadderIsTable
<1>1. /\ S[0] = Nothing(f, p)
      /\ \A i \in 0 .. N : S[i] \in Standing(f)
      /\ \A i \in 1 .. N : S[i] = GroupScored(rule, ev, S[i - 1], Group(f, i))
  BY <1>0, StandingsAre
<1>2. 0 \in D
  <2>1. Total(S[0].points, Names(f)) = 0 /\ S[0].place = 0
    BY <1>1, NothingPaid DEF Nothing
  <2>2. Ladder(0) \in Nat
    BY LadderGoesOn
  <2> QED BY <2>1, <2>2
<1>3. ASSUME NEW i \in 0 + 1 .. N, i - 1 \in D PROVE i \in D
  <2> DEFINE acc == S[i - 1]
             g == Group(f, i)
             k == Cardinality(Eligible(g))
             next == acc.place + k
  <2>1. i \in 1 .. N /\ i \in Nat /\ g \in SUBSET f /\ acc \in Standing(f) /\ S[i] \in Standing(f) /\ S[i] = GroupScored(rule, ev, acc, g)
    BY <1>0, <1>1, GroupFacts
  <2>2. Total(S[i].points, Names(f)) = Total(acc.points, Names(f)) + Each(ev, acc, g) * Cardinality(Paid(rule, ev, acc, g))
        /\ Total(S[i].points, Names(f)) \in Nat
    BY <1>0, <2>1, PaidOut
  <2>3. Leaves(S[i], f, rule, ev, acc, g)
    BY <1>0, <2>1, GroupGives
  <2>4. acc.place \in Nat /\ Total(acc.points, Names(f)) \in Nat /\ Total(acc.points, Names(f)) <= Ladder(acc.place) /\ S[i].place \in Nat
    BY <1>3, <2>1 DEF Standing
  <2>5. CASE ~Advances(rule, ev, acc, g)
    <3>2. S[i].place = acc.place
      BY <2>3, <2>5 DEF Leaves
    <3>3. Each(ev, acc, g) * Cardinality(Paid(rule, ev, acc, g)) = 0
      <4>1. Each(ev, acc, g) \in Nat
        BY <2>1, EachIsNat
      <4>2. CASE Paid(rule, ev, acc, g) = {}
        <5>1. Cardinality(Paid(rule, ev, acc, g)) = 0
          BY <4>2, FS_EmptySet
        <5> QED BY <4>1, <5>1
      <4>3. CASE Paid(rule, ev, acc, g) # {}
        <5>1. Cardinality(Paid(rule, ev, acc, g)) \in Nat
          BY <2>1, <4>3, GroupCosts
        <5>2. Reached(ev, acc, g) /\ Taken(rule, ev, acc, g) # {}
          BY <4>3 DEF Paid
        <5>3. ~(Each(ev, acc, g) > 0)
          BY <2>5, <5>2 DEF Advances, Timed
        <5>4. Each(ev, acc, g) = 0
          BY <4>1, <5>3
        <5> QED BY <5>1, <5>4
      <4> QED BY <4>2, <4>3
    <3> HIDE DEF S, acc
    <3> QED BY <2>1, <2>2, <2>4, <3>2, <3>3
  <2>6. CASE Advances(rule, ev, acc, g)
    <3>0. Paid(rule, ev, acc, g) # {} /\ Reached(ev, acc, g)
      BY <2>6 DEF Advances, Paid
    <3> HIDE DEF S, acc
    <3>1. k \in Nat \ {0} /\ Each(ev, acc, g) * Cardinality(Paid(rule, ev, acc, g))
                               <= TablesPaid(ev) * Total(Values, FirstPlace(ev, acc, g) .. FirstPlace(ev, acc, g) + k - 1)
      BY <1>0, <2>1, <3>0, GroupCosts
    <3>2. FirstPlace(ev, acc, g) = acc.place + 1 /\ FirstPlace(ev, acc, g) + k - 1 = acc.place + k
      <4>1. FirstPlace(ev, acc, g) = acc.place + 1
        BY <3>0, ReachedIs DEF Timed
      <4> QED BY <2>4, <3>1, <4>1
    <3>3. Ladder(next) = Ladder(acc.place) + Total(Values, acc.place + 1 .. acc.place + k)
          /\ Ladder(acc.place) \in Nat /\ Total(Values, acc.place + 1 .. acc.place + k) \in Nat /\ Ladder(next) \in Nat
      BY <2>4, <3>1, LadderGoesOn
    <3>4. TablesPaid(ev) = 1
      BY DEF TablesPaid, Timed
    <3>5. Each(ev, acc, g) * Cardinality(Paid(rule, ev, acc, g)) <= Total(Values, acc.place + 1 .. acc.place + k)
      BY <3>1, <3>2, <3>3, <3>4
    <3>6. Each(ev, acc, g) * Cardinality(Paid(rule, ev, acc, g)) \in Nat
      <4>1. Each(ev, acc, g) \in Nat /\ Cardinality(Paid(rule, ev, acc, g)) \in Nat
        BY <1>0, <2>1, <3>0, GroupCosts
      <4> QED BY <4>1
    <3>7. Total(S[i].points, Names(f)) <= Ladder(next)
      BY <2>2, <2>4, <3>3, <3>5, <3>6
    <3>8. S[i].place = IF next < Len(Table) THEN next ELSE Len(Table)
      BY <2>3, <2>6 DEF Leaves
    <3>9. next \in Nat
      BY <2>4, <3>1
    <3>10. Ladder(next) = Ladder(S[i].place)
      BY <1>0, <3>8, <3>9, LadderIsTable
    <3> QED BY <2>1, <2>2, <2>4, <3>7, <3>10
  <2> QED BY <2>5, <2>6
<1>4. N \in D
  <2>1. D \in SUBSET Nat /\ 0 \in Nat
    OBVIOUS
  <2> HIDE DEF D
  <2>2. \A i \in 0 .. N : i \in D
    BY <1>0, <1>2, <1>3, <2>1, CountUpTo
  <2> QED BY <1>0, <2>2
<1>5. S[N].place \in Nat /\ Total(S[N].points, Names(f)) \in Nat /\ Total(S[N].points, Names(f)) <= Ladder(S[N].place)
  BY <1>4
<1>6. Ladder(S[N].place) <= Ladder(Len(Table)) /\ Ladder(S[N].place) \in Nat /\ Ladder(Len(Table)) \in Nat
  <2>1. \A n \in Nat : Ladder(n) \in Nat
    <3> SUFFICES ASSUME NEW n \in Nat PROVE Ladder(n) \in Nat
      OBVIOUS
    <3> QED BY 0 \in Nat, LadderGoesOn
  <2> QED BY <1>0, <1>5, <2>1, LadderIsTable
<1> HIDE DEF S
<1> QED BY <1>5, <1>6 DEF S

(* A final or a relay event pays each place once: the rows that can earn   *)
(* points are those of a fair event e.                                     *)
LEMMA FinalsPay ==
  ASSUME NEW f, IsField(f), NEW e, Fair(e), Eligible(f) = Eligible(e),
         NEW rule \in Rule, NEW p \in [Athlete -> Nat], NEW ev \in Kind, ~Timed(ev)
  PROVE  Total(Standings(rule, ev, f, p)[Len(Groups(f))].points, Names(f)) <= TablesPaid(ev) * Ladder(Len(Table))
<1> DEFINE S == Standings(rule, ev, f, p)
           N == Len(Groups(f))
           Covers(q, i) == \A r \in Eligible(f) : Nth(f, r) <= i /\ Place(r) # 0 => Place(r) + Cardinality(Tied(f, r)) - 1 <= q
           D == {i \in Nat : \A q \in Nat : Covers(q, i) => Total(S[i].points, Names(f)) <= TablesPaid(ev) * Ladder(q)}
<1>0. N \in Nat /\ Len(Table) \in Nat /\ f \subseteq Row /\ Eligible(f) \subseteq f
  BY GroupFacts, LadderIsTable DEF IsField, Eligible
<1>1. /\ S[0] = Nothing(f, p)
      /\ \A i \in 0 .. N : S[i] \in Standing(f)
      /\ \A i \in 1 .. N : S[i] = GroupScored(rule, ev, S[i - 1], Group(f, i))
  BY <1>0, StandingsAre
<1>2. \A q \in Nat : Ladder(q) \in Nat /\ TablesPaid(ev) * Ladder(q) \in Nat
  <2>1. \A q \in Nat : Ladder(q) \in Nat
    <3> SUFFICES ASSUME NEW q \in Nat PROVE Ladder(q) \in Nat
      OBVIOUS
    <3> QED BY 0 \in Nat, LadderGoesOn
  <2> QED BY <2>1, TimesNat
<1>3. 0 \in D
  <2>1. Total(S[0].points, Names(f)) = 0
    BY <1>1, NothingPaid
  <2> HIDE DEF S, Covers
  <2> QED BY <1>2, <2>1
<1>4. ASSUME NEW i \in 0 + 1 .. N, i - 1 \in D PROVE i \in D
  <2> DEFINE acc == S[i - 1]
             g == Group(f, i)
             k == Cardinality(Eligible(g))
             r == CHOOSE x \in Eligible(g) : TRUE
  <2>1. i \in 1 .. N /\ i \in Nat /\ g \in SUBSET f /\ acc \in Standing(f) /\ S[i] \in Standing(f) /\ S[i] = GroupScored(rule, ev, acc, g)
    BY <1>0, <1>1, GroupFacts
  <2>2. Total(S[i].points, Names(f)) = Total(acc.points, Names(f)) + Each(ev, acc, g) * Cardinality(Paid(rule, ev, acc, g))
        /\ Total(S[i].points, Names(f)) \in Nat /\ Total(acc.points, Names(f)) \in Nat
    BY <1>0, <2>1, PaidOut
  <2> SUFFICES ASSUME NEW q \in Nat, Covers(q, i) PROVE Total(S[i].points, Names(f)) <= TablesPaid(ev) * Ladder(q)
    BY <2>1
  <2>3. CASE Paid(rule, ev, acc, g) = {}
    <3>1. Each(ev, acc, g) * Cardinality(Paid(rule, ev, acc, g)) = 0
      <4>1. Cardinality(Paid(rule, ev, acc, g)) = 0 /\ Each(ev, acc, g) \in Nat
        BY <2>1, <2>3, FS_EmptySet, EachIsNat
      <4> QED BY <4>1
    <3>2. Covers(q, i - 1)
      <4>1. \A x \in Eligible(f) : Nth(f, x) \in Nat
        BY <1>0, GroupFacts
      <4> QED BY <2>1, <4>1
    <3>3. Total(acc.points, Names(f)) <= TablesPaid(ev) * Ladder(q)
      BY <1>4, <3>2
    <3> HIDE DEF S, acc
    <3> QED BY <2>2, <3>1, <3>3
  <2>4. CASE Paid(rule, ev, acc, g) # {}
    <3> HIDE DEF S, acc
    <3> DEFINE P == FirstPlace(ev, acc, g)
               paid == Each(ev, acc, g) * Cardinality(Paid(rule, ev, acc, g))
               worth == Total(Values, P .. P + k - 1)
    <3>1. /\ Eligible(g) # {} /\ k \in Nat \ {0} /\ P \in Nat \ {0}
          /\ paid <= TablesPaid(ev) * worth /\ worth \in Nat
          /\ Each(ev, acc, g) \in Nat /\ Cardinality(Paid(rule, ev, acc, g)) \in Nat
      BY <2>1, <2>4, GroupCosts
    <3>2. r \in Eligible(g)
      BY <3>1
    <3>3. r \in Eligible(f) /\ r \in f /\ Nth(f, r) = i
      BY <1>0, <3>2 DEF Eligible, Group
    <3>4. P = Place(r)
      <4>1. Reached(ev, acc, g)
        BY <2>4 DEF Paid
      <4> QED BY <4>1, ReachedIs DEF Timed
    <3> HIDE DEF r
    <3>5. k = Cardinality(Tied(f, r))
      BY <3>3, TiedFacts
    <3>6. P + k - 1 <= q
      BY <2>1, <3>1, <3>3, <3>4, <3>5
    <3>7. Covers(P - 1, i - 1)
      <4> SUFFICES ASSUME NEW x \in Eligible(f), Nth(f, x) <= i - 1, Place(x) # 0
                   PROVE  Place(x) + Cardinality(Tied(f, x)) - 1 <= P - 1
        OBVIOUS
      <4>1. RankedAbove(x, r)
        <5>1. x \in f /\ Nth(f, x) \in Nat
          BY <1>0, GroupFacts
        <5>2. Nth(f, x) < Nth(f, r)
          BY <2>1, <3>3, <5>1
        <5> QED BY <3>3, <5>1, <5>2, SameGroup
      <4>2. x \in Eligible(e) /\ r \in Eligible(e) /\ Tied(e, x) = Tied(f, x) /\ x \in e /\ r \in e
        BY <3>3 DEF Tied, Eligible
      <4>3. Place(x) = Seat(e, x) /\ Place(r) = Seat(e, r)
        <5>1. Place(r) # 0
          BY <3>1, <3>4
        <5> QED BY <4>2, <5>1, PlaceIsSeat
      <4>4. Seat(e, x) + Cardinality(Tied(e, x)) <= Seat(e, r)
        BY <4>1, <4>2, SeatOrder
      <4>5. Place(x) \in Nat /\ Cardinality(Tied(f, x)) \in Nat
        <5>1. x \in f /\ x \in Row
          BY <1>0
        <5> QED BY <5>1, PlaceIsNat, TiedFacts
      <4>6. Place(x) + Cardinality(Tied(f, x)) <= P
        BY <3>4, <4>2, <4>3, <4>4
      <4> QED BY <3>1, <4>5, <4>6
    <3>8. P - 1 \in Nat
      BY <3>1
    <3>9. Total(acc.points, Names(f)) <= TablesPaid(ev) * Ladder(P - 1)
      <4> HIDE DEF Covers, P
      <4> QED BY <1>4, <3>7, <3>8 DEF acc
    <3>10. Ladder(P - 1 + k) = Ladder(P - 1) + worth /\ Ladder(P - 1) \in Nat /\ Ladder(P - 1 + k) \in Nat
      <4>1. Ladder(P - 1 + k) = Ladder(P - 1) + Total(Values, P - 1 + 1 .. P - 1 + k) /\ Ladder(P - 1) \in Nat /\ Ladder(P - 1 + k) \in Nat
        BY <3>1, <3>8, LadderGoesOn
      <4>2. P - 1 + 1 = P /\ P - 1 + k = P + k - 1
        BY <3>1
      <4> QED BY <4>1, <4>2
    <3>11. TablesPaid(ev) * Ladder(P - 1 + k) = TablesPaid(ev) * Ladder(P - 1) + TablesPaid(ev) * worth
      <4>1. Ladder(P - 1) \in Nat /\ worth \in Nat /\ Ladder(P - 1 + k) = Ladder(P - 1) + worth
        BY <3>1, <3>10
      <4> HIDE DEF worth, P, k
      <4> QED BY ONLY <4>1, TimesUp
    <3>12. TablesPaid(ev) * Ladder(P - 1 + k) <= TablesPaid(ev) * Ladder(q)
      <4>1. P - 1 + k \in Nat /\ P - 1 + k <= q
        BY <3>1, <3>6
      <4>2. Ladder(P - 1 + k) <= Ladder(q)
        BY <4>1, LadderRises
      <4>3. Ladder(P - 1 + k) \in Nat /\ Ladder(q) \in Nat
        BY <1>2, <4>1
      <4> QED BY ONLY <4>2, <4>3, TimesUp
    <3>13. paid \in Nat
      <4> HIDE DEF worth, P
      <4> QED BY <3>1
    <3>14. TablesPaid(ev) * Ladder(P - 1) \in Nat /\ TablesPaid(ev) * worth \in Nat /\ TablesPaid(ev) * Ladder(q) \in Nat
      BY <1>2, <3>1, <3>8, TimesNat
    <3>15. paid <= TablesPaid(ev) * worth /\ Total(S[i].points, Names(f)) = Total(acc.points, Names(f)) + paid
      BY <2>2, <3>1
    <3> HIDE DEF paid, worth, P
    <3> QED BY <2>2, <3>9, <3>11, <3>12, <3>13, <3>14, <3>15, CostsUp
  <2> QED BY <2>3, <2>4
<1>5. N \in D
  <2>1. D \in SUBSET Nat /\ 0 \in Nat
    OBVIOUS
  <2> HIDE DEF D
  <2>2. \A i \in 0 .. N : i \in D
    BY <1>0, <1>3, <1>4, <2>1, CountUpTo
  <2> QED BY <1>0, <2>2
<1>6. PICK q \in Nat : Covers(q, N)
  <2> DEFINE top == Len(Table) + Cardinality(f)
  <2>1. top \in Nat /\ Cardinality(f) \in Nat
    BY <1>0, FS_CardinalityType DEF IsField
  <2>2. ASSUME NEW r \in Eligible(f), Place(r) # 0 PROVE Place(r) + Cardinality(Tied(f, r)) - 1 <= top
    <3>1. r \in f /\ r \in Row /\ r \in Eligible(e)
      BY <1>0
    <3>2. Tied(f, r) \subseteq f
      BY <1>0 DEF Tied
    <3>3. Cardinality(Tied(f, r)) <= Cardinality(f) /\ Cardinality(Tied(f, r)) \in Nat
      BY <3>2, FS_Subset, FS_CardinalityType DEF IsField
    <3>4. Place(r) <= Len(Table) /\ Place(r) \in Nat
      BY <1>0, <2>2, <3>1, PlaceIsSeat, PlaceIsNat
    <3> QED BY <1>0, <2>1, <3>3, <3>4
  <2> HIDE DEF top
  <2>3. Covers(top, N)
    BY <2>2
  <2> QED BY <2>1, <2>3
<1>7. Total(S[N].points, Names(f)) <= TablesPaid(ev) * Ladder(q)
  <2> HIDE DEF Covers, S
  <2> QED BY <1>5, <1>6
<1>8. TablesPaid(ev) * Ladder(q) <= TablesPaid(ev) * Ladder(Len(Table))
  <2>1. Ladder(q) <= Ladder(Len(Table))
    BY LadderIsTable
  <2> QED BY <1>0, <1>2, <2>1, TimesUp
<1>9. Total(S[N].points, Names(f)) \in Nat
  <2>1. f \in SUBSET f
    OBVIOUS
  <2>2. IsFiniteSet(Names(f)) /\ S[N] \in Standing(f)
    BY <1>0, <1>1, <2>1, NamesPart
  <2>3. \A a \in Names(f) : S[N].points[a] \in Nat
    BY <2>2 DEF Standing
  <2> HIDE DEF S
  <2> QED BY <2>2, <2>3, SumIsNat
<1> HIDE DEF S
<1>10. TablesPaid(ev) * Ladder(q) \in Nat /\ TablesPaid(ev) * Ladder(Len(Table)) \in Nat
  BY <1>0, <1>2
<1> QED BY <1>7, <1>8, <1>9, <1>10 DEF S
-----------------------------------------------------------------------------
(* The event as a whole. *)

Final(rule, ev, f, p) == Standings(rule, ev, Lines(rule, ev, f), p)[Len(Groups(Lines(rule, ev, f)))]

LEMMA ScoredIs ==
  ASSUME NEW rule, NEW ev, NEW f, NEW p
  PROVE  /\ Scored(rule, ev, f, p).pool = Final(rule, ev, f, p).pool
         /\ Scored(rule, ev, f, p).points
              = [a \in Names(f) |-> IF a \in Names(OverPlaceCap(rule, ev, f)) THEN 0 ELSE Final(rule, ev, f, p).points[a]]
BY DEF Scored, Unplaced, Final, Lines

Scene == meet \in Rule /\ event \in Kind /\ Fair(field) /\ before \in [Athlete -> Nat]
Settled == points = Scored(meet, event, field, before).points /\ pool = Scored(meet, event, field, before).pool

LEMMA LinesFair ==
  ASSUME NEW f, Fair(f), NEW rule \in Rule
  PROVE  /\ IsField(f) /\ Printed(f)
         /\ IsField(Lines(rule, event, f)) /\ Names(Lines(rule, event, f)) = Names(Racing(rule, event, f))
         /\ Fair(Reprinted(Holding(rule, event, f)))
         /\ Eligible(Lines(rule, event, f)) = Eligible(Reprinted(Holding(rule, event, f)))
         /\ Holding(rule, event, f) \subseteq f /\ Racing(rule, event, f) \subseteq f
         /\ Names(Racing(rule, event, f)) \subseteq Names(f)
         /\ Names(f) \ Names(OverPlaceCap(rule, event, f)) \subseteq Names(Racing(rule, event, f))
<1>1. IsField(f) /\ Printed(f)
  BY DEF Fair
<1>2. /\ IsField(Lines(rule, event, f))
      /\ Names(Lines(rule, event, f)) = Names(Racing(rule, event, f))
      /\ Eligible(Lines(rule, event, f)) = Eligible(Reprinted(Holding(rule, event, f)))
      /\ Holding(rule, event, f) \subseteq Racing(rule, event, f) /\ Racing(rule, event, f) \subseteq f
  BY <1>1, LinesAre
<1>3. Fair(Reprinted(Holding(rule, event, f)))
  BY <1>2, FairPart
<1>4. Names(Racing(rule, event, f)) \subseteq Names(f)
  BY <1>2 DEF Names
<1>5. Names(f) \ Names(OverPlaceCap(rule, event, f)) \subseteq Names(Racing(rule, event, f))
  BY DEF Names, Racing
<1> QED BY <1>1, <1>2, <1>3, <1>4, <1>5

LEMMA EventPays == ASSUME Scene, Settled PROVE EventPaysItsTable
<1> DEFINE L == Lines(meet, event, field)
           out == Final(meet, event, field, before)
           over == Names(OverPlaceCap(meet, event, field))
           T == Names(field) \ over
<1>1. /\ IsField(L) /\ IsField(field) /\ T \subseteq Names(L)
      /\ Fair(Reprinted(Holding(meet, event, field))) /\ Eligible(L) = Eligible(Reprinted(Holding(meet, event, field)))
  BY LinesFair DEF Scene
<1>2. Total(out.points, Names(L)) <= TablesPaid(event) * Ladder(Len(Table))
  <2>0. meet \in Rule /\ event \in Kind /\ before \in [Athlete -> Nat]
    BY DEF Scene
  <2>1. CASE Timed(event)
    <3>1. Total(out.points, Names(L)) <= Ladder(Len(Table))
      <4> HIDE DEF L
      <4> QED BY <1>1, <2>0, <2>1, TimedPays DEF Final, L
    <3>2. TablesPaid(event) = 1
      BY <2>1 DEF TablesPaid, Timed
    <3>3. Ladder(Len(Table)) \in Nat
      <4>1. Len(Table) \in Nat /\ 0 \in Nat
        BY LadderIsTable
      <4> QED BY <4>1, LadderGoesOn
    <3> QED BY <3>1, <3>2, <3>3
  <2>2. CASE ~Timed(event)
    <3> HIDE DEF L
    <3> QED BY <1>1, <2>0, <2>2, FinalsPay DEF Final, L
  <2> QED BY <2>1, <2>2
<1>3. points = [a \in Names(field) |-> IF a \in over THEN 0 ELSE out.points[a]] /\ DOMAIN points = Names(field)
  BY ScoredIs DEF Settled
<1>4. IsFiniteSet(Names(field)) /\ IsFiniteSet(Names(L))
  <2>1. field \in SUBSET field /\ L \in SUBSET L
    OBVIOUS
  <2> QED BY <1>1, <2>1, NamesPart
<1>5. \A a \in Names(L) : out.points[a] \in Nat
  <2>1. out \in Standing(L)
    <3>1. Len(Groups(L)) \in 0 .. Len(Groups(L))
      BY <1>1, GroupFacts
    <3> QED BY <1>1, <3>1, StandingsAre DEF Final, Scene
  <2> QED BY <2>1 DEF Standing
<1> HIDE DEF L, out, over
<1>6. Total(points, Names(field)) = Total(points, T)
  BY <1>1, <1>3, <1>4, <1>5, TotalOfSupport
<1>7. IsFiniteSet(T) /\ T \in SUBSET Names(L)
  BY <1>1, <1>4, FS_Subset
<1>8. Total(points, T) = Total(out.points, T)
  <2>1. \A a \in T : points[a] = out.points[a]
    BY <1>3
  <2> HIDE DEF T
  <2> QED BY <1>7, <2>1, SumsAlike
<1>9. Total(out.points, T) <= Total(out.points, Names(L))
  BY <1>4, <1>5, <1>7, TotalOfSubset
<1>10. MapThenSumSet(LAMBDA a : points[a], DOMAIN points) = Total(points, Names(field))
  BY <1>3 DEF Total
<1>11. MapThenSumSet(LAMBDA p : Table[p], DOMAIN Table) = Ladder(Len(Table))
  BY LadderIsTable DEF Total
<1>12. Total(out.points, T) \in Nat /\ Total(out.points, Names(L)) \in Nat
  BY <1>4, <1>5, <1>7, SumIsNat
<1>13. MapThenSumSet(LAMBDA a : points[a], DOMAIN points) <= TablesPaid(event) * MapThenSumSet(LAMBDA p : Table[p], DOMAIN Table)
  <2>1. TablesPaid(event) * Ladder(Len(Table)) \in Nat
    <3>1. Len(Table) \in Nat /\ 0 \in Nat
      BY LadderIsTable
    <3> QED BY <3>1, LadderGoesOn, TimesNat
  <2>2. Total(points, Names(field)) <= TablesPaid(event) * Ladder(Len(Table))
    BY <1>2, <1>6, <1>8, <1>9, <1>12, <2>1
  <2> QED BY <1>10, <1>11, <2>2
<1> QED BY <1>13 DEF EventPaysItsTable, TablesPaid
-----------------------------------------------------------------------------
(* Exact shares: every tie of up to n divides every place.                 *)

Divides(n) == \A k \in 1 .. n : \A p \in DOMAIN Table : Table[p] % k = 0

LEMMA TotalScaled ==
  ASSUME NEW S, IsFiniteSet(S), NEW k \in Nat, NEW f, NEW e, \A x \in S : e[x] \in Nat /\ f[x] = k * e[x]
  PROVE  Total(f, S) = k * Total(e, S) /\ Total(e, S) \in Nat
<1> DEFINE C == {U \in SUBSET S : Total(f, U) = k * Total(e, U)}
<1>1. \A U \in SUBSET S : IsFiniteSet(U) /\ Total(e, U) \in Nat
  BY FS_Subset, SumIsNat
<1>2. {} \in C
  <2>1. k * 0 = 0
    OBVIOUS
  <2>2. Total(e, {}) = 0 /\ Total(f, {}) = 0
    BY SumOfNothing
  <2> QED BY <2>1, <2>2
<1>3. ASSUME NEW U \in C, NEW x \in S \ U PROVE U \cup {x} \in C
  <2>1. \A y \in U \cup {x} : f[y] \in Nat /\ e[y] \in Nat
    OBVIOUS
  <2>2. Total(f, U \cup {x}) = f[x] + Total(f, U) /\ Total(e, U \cup {x}) = e[x] + Total(e, U)
    BY <1>1, <2>1, TotalWith
  <2>3. f[x] = k * e[x] /\ Total(f, U) = k * Total(e, U) /\ e[x] \in Nat /\ Total(e, U) \in Nat
    BY <1>1
  <2>4. k * (e[x] + Total(e, U)) = k * e[x] + k * Total(e, U)
    BY <2>3
  <2>5. Total(f, U \cup {x}) = k * Total(e, U \cup {x})
    BY <2>2, <2>3, <2>4
  <2> QED BY <2>5
<1>4. S \in C
  <2> HIDE DEF C
  <2>1. C \in SUBSET SUBSET S
    BY DEF C
  <2> QED BY <1>2, <1>3, <2>1, SubsetInduction
<1> QED BY <1>1, <1>4

LEMMA WholeQuotient == ASSUME NEW k \in Nat \ {0}, NEW v \in Nat, v % k = 0 PROVE v \div k \in Nat /\ v = k * (v \div k)
OBVIOUS

LEMMA QuotientOfProduct == ASSUME NEW k \in Nat \ {0}, NEW v \in Nat PROVE (k * v) \div k = v
OBVIOUS

LEMMA ShareIsExact ==
  ASSUME NEW n \in Nat, Divides(n), NEW k \in 1 .. n, NEW place \in Nat \ {0}
  PROVE  /\ Share(place, k) \in Nat
         /\ k * Share(place, k) = Total(Values, place .. place + k - 1)
<1> DEFINE S == place .. place + k - 1
           e == [p \in Int |-> Values[p] \div k]
<1>0. k \in Nat \ {0} /\ Len(Table) \in Nat /\ S \subseteq Int /\ IsFiniteSet(S) /\ (\A p \in S : Values[p] \in Nat) /\ place \in S
  BY IntervalFacts, LadderIsTable
<1>1. \A p \in Int : Values[p] \in Nat /\ Values[p] % k = 0
  <2>1. \A p \in Int : Values[p] \in Nat
    BY ValueIsNat
  <2>2. DOMAIN Table = 1 .. Len(Table)
    BY MeetSizes
  <2>3. \A p \in 1 .. Len(Table) : Table[p] % k = 0
    BY <2>2 DEF Divides
  <2>4. 0 % k = 0
    BY <1>0
  <2> QED BY <2>1, <2>3, <2>4 DEF Values, Value, InTable
<1>2. \A p \in S : e[p] \in Nat /\ Values[p] = k * e[p]
  BY <1>0, <1>1, WholeQuotient
<1>3. Total(Values, S) = k * Total(e, S) /\ Total(e, S) \in Nat
  <2>1. k \in Nat /\ IsFiniteSet(S) /\ \A x \in S : e[x] \in Nat /\ Values[x] = k * e[x]
    BY <1>0, <1>2
  <2> HIDE DEF e, S
  <2> QED BY <2>1, TotalScaled
<1>4. Share(place, k) = Total(Values, S) \div k
  BY <1>0, ShareIs
<1>5. Share(place, k) = Total(e, S)
  <2> HIDE DEF e, S
  <2> QED BY <1>0, <1>3, <1>4, QuotientOfProduct
<1> HIDE DEF e, S
<1> QED BY <1>0, <1>3, <1>5 DEF S

LEMMA DoneGrows ==
  ASSUME NEW f, IsField(f)
  PROVE  /\ Cardinality(Done(f, 0)) = 0
         /\ \A i \in Nat : IsFiniteSet(Done(f, i)) /\ Cardinality(Done(f, i)) \in Nat
         /\ \A i \in Nat \ {0} : /\ Cardinality(Eligible(Group(f, i))) \in Nat
                                 /\ Cardinality(Done(f, i)) = Cardinality(Done(f, i - 1)) + Cardinality(Eligible(Group(f, i)))
<1>1. Eligible(f) \subseteq f /\ \A r \in Eligible(f) : Nth(f, r) \in Nat \ {0}
  BY GroupFacts DEF Eligible
<1>2. Done(f, 0) = {}
  BY <1>1 DEF Done
<1>3. \A i \in Nat : Done(f, i) \subseteq f /\ IsFiniteSet(Done(f, i)) /\ Cardinality(Done(f, i)) \in Nat
  <2>1. \A i \in Nat : Done(f, i) \subseteq f
    BY <1>1 DEF Done
  <2> QED BY <2>1, FS_Subset, FS_CardinalityType DEF IsField
<1>4. ASSUME NEW i \in Nat \ {0}
      PROVE  /\ Cardinality(Eligible(Group(f, i))) \in Nat
             /\ Cardinality(Done(f, i)) = Cardinality(Done(f, i - 1)) + Cardinality(Eligible(Group(f, i)))
  <2> DEFINE g == Eligible(Group(f, i))
             d == Done(f, i - 1)
  <2>1. g = {r \in Eligible(f) : Nth(f, r) = i}
    BY GroupFacts
  <2>2. Done(f, i) = d \cup g /\ d \cap g = {}
    BY <1>1, <2>1 DEF Done
  <2>3. IsFiniteSet(d) /\ Cardinality(d) \in Nat
    BY <1>3
  <2>4. IsFiniteSet(g) /\ Cardinality(g) \in Nat
    <3>1. Group(f, i) \in SUBSET f
      BY GroupFacts
    <3> QED BY <3>1, EligiblePart
  <2> HIDE DEF d, g
  <2>5. Cardinality(d \cap g) = 0
    BY <2>2, FS_EmptySet
  <2>6. Cardinality(d \cup g) = Cardinality(d) + Cardinality(g) - Cardinality(d \cap g)
    BY <2>3, <2>4, FS_Union
  <2>7. Cardinality(Done(f, i)) = Cardinality(d) + Cardinality(g)
    BY <2>2, <2>3, <2>4, <2>5, <2>6
  <2> QED BY <2>4, <2>7 DEF d, g
<1>5. Cardinality(Done(f, 0)) = 0
  BY <1>2, FS_EmptySet
<1> QED BY <1>3, <1>4, <1>5

(* The ladder of a timed final is never ahead of who has been placed, *)
LEMMA LadderLags ==
  ASSUME NEW f, IsField(f), NEW rule \in Rule, NEW ev \in Kind, NEW p \in [Athlete -> Nat]
  PROVE  \A i \in 0 .. Len(Groups(f)) : LET place == Standings(rule, ev, f, p)[i].place
                                        IN  place \in Nat /\ place <= Cardinality(Done(f, i)) /\ place <= Len(Table)
<1> DEFINE S == Standings(rule, ev, f, p)
           N == Len(Groups(f))
           D == {i \in Nat : S[i].place \in Nat /\ S[i].place <= Cardinality(Done(f, i)) /\ S[i].place <= Len(Table)}
<1>0. N \in Nat /\ Len(Table) \in Nat
  BY GroupFacts, LadderIsTable
<1>1. /\ S[0] = Nothing(f, p)
      /\ \A i \in 0 .. N : S[i] \in Standing(f)
      /\ \A i \in 1 .. N : S[i] = GroupScored(rule, ev, S[i - 1], Group(f, i))
  BY StandingsAre
<1>2. 0 \in D
  BY <1>0, <1>1, DoneGrows DEF Nothing
<1>3. ASSUME NEW i \in 0 + 1 .. N, i - 1 \in D PROVE i \in D
  <2> DEFINE acc == S[i - 1]
             g == Group(f, i)
  <2>1. i \in Nat \ {0} /\ g \in SUBSET f /\ acc \in Standing(f) /\ S[i] = GroupScored(rule, ev, acc, g) /\ S[i] \in Standing(f)
    BY <1>0, <1>1, GroupFacts
  <2>2. Leaves(S[i], f, rule, ev, acc, g)
    BY <2>1, GroupGives
  <2>3. acc.place \in Nat /\ acc.place <= Cardinality(Done(f, i - 1)) /\ acc.place <= Len(Table) /\ S[i].place \in Nat
    BY <1>3, <2>1 DEF Standing
  <2>4. /\ Cardinality(Eligible(g)) \in Nat /\ Cardinality(Done(f, i - 1)) \in Nat
        /\ Cardinality(Done(f, i)) = Cardinality(Done(f, i - 1)) + Cardinality(Eligible(g))
    BY <2>1, DoneGrows
  <2>5. \/ S[i].place = acc.place
        \/ S[i].place = IF acc.place + Cardinality(Eligible(g)) < Len(Table) THEN acc.place + Cardinality(Eligible(g)) ELSE Len(Table)
    BY <2>2 DEF Leaves
  <2> HIDE DEF S, acc, g
  <2> QED BY <1>0, <2>1, <2>3, <2>4, <2>5
<1> HIDE DEF S
<1>4. \A i \in 0 .. N : i \in D
  <2>1. D \in SUBSET Nat /\ 0 \in Nat
    OBVIOUS
  <2> HIDE DEF D
  <2> QED BY <1>0, <1>2, <1>3, <2>1, CountUpTo
<1> QED BY <1>4 DEF S

Uncapped(rule, ev) == Limit(rule, ev).scope = "none"

LEMMA UncappedTakes ==
  ASSUME NEW rule \in Rule, NEW ev \in Kind, Uncapped(rule, ev), NEW acc, NEW g
  PROVE  Taken(rule, ev, acc, g) = Entered(rule, ev, g)
BY DEF Uncapped, Taken, Admitted

(* and without caps it is where they end, up to the table's end. *)
LEMMA LadderStands ==
  ASSUME NEW f, IsField(f), NEW rule \in Rule, NEW ev \in Kind, Timed(ev), Uncapped(rule, ev), NEW p \in [Athlete -> Nat]
  PROVE  \A i \in 0 .. Len(Groups(f)) :
           Standings(rule, ev, f, p)[i].place = IF Cardinality(Done(f, i)) < Len(Table) THEN Cardinality(Done(f, i)) ELSE Len(Table)
<1> DEFINE S == Standings(rule, ev, f, p)
           N == Len(Groups(f))
           D == {i \in Nat : S[i].place = IF Cardinality(Done(f, i)) < Len(Table) THEN Cardinality(Done(f, i)) ELSE Len(Table)}
<1>0. N \in Nat /\ Len(Table) \in Nat
  BY GroupFacts, LadderIsTable
<1>1. /\ S[0] = Nothing(f, p)
      /\ \A i \in 0 .. N : S[i] \in Standing(f)
      /\ \A i \in 1 .. N : S[i] = GroupScored(rule, ev, S[i - 1], Group(f, i))
  BY StandingsAre
<1>2. 0 \in D
  <2>1. S[0].place = 0
    BY <1>1 DEF Nothing
  <2>2. Cardinality(Done(f, 0)) = 0
    BY DoneGrows
  <2> HIDE DEF S
  <2> QED BY <1>0, <2>1, <2>2
<1>3. ASSUME NEW i \in 0 + 1 .. N, i - 1 \in D PROVE i \in D
  <2> DEFINE acc == S[i - 1]
             g == Group(f, i)
             k == Cardinality(Eligible(g))
             done == Cardinality(Done(f, i - 1))
  <2>1. i \in Nat \ {0} /\ g \in SUBSET f /\ acc \in Standing(f) /\ S[i] = GroupScored(rule, ev, acc, g)
    BY <1>0, <1>1, GroupFacts
  <2>2. Leaves(S[i], f, rule, ev, acc, g)
    BY <2>1, GroupGives
  <2>3. acc.place = IF done < Len(Table) THEN done ELSE Len(Table)
    BY <1>3, <2>1
  <2>4. k \in Nat /\ done \in Nat /\ Cardinality(Done(f, i)) = done + k
    BY <2>1, DoneGrows
  <2>5. Taken(rule, ev, acc, g) = Names(Eligible(g))
    <3>1. Entered(rule, ev, g) = Names(Eligible(g))
      BY DEF Entered, Timed
    <3> QED BY <3>1, UncappedTakes
  <2>6. Advances(rule, ev, acc, g) <=> k # 0 /\ acc.place < Len(Table)
    <3>1. CASE Eligible(g) = {}
      <4>1. ~Reached(ev, acc, g) /\ k = 0
        BY <3>1, ReachedIs, FS_EmptySet
      <4> QED BY <4>1 DEF Advances
    <3>2. CASE Eligible(g) # {}
      <4>1. k # 0 /\ Names(Eligible(g)) # {}
        BY <2>1, <3>2, EligiblePart DEF Names
      <4>2. FirstPlace(ev, acc, g) = acc.place + 1 /\ acc.place \in Nat
        BY <2>1, <3>2 DEF FirstPlace, Timed, Standing
      <4>3. rule.scope = "none" /\ ev = "timed final"
        BY DEF Uncapped, Limit, Timed
      <4>4. Advances(rule, ev, acc, g) <=> Reached(ev, acc, g)
        BY <2>5, <4>1, <4>3 DEF Advances
      <4>5. Reached(ev, acc, g) <=> acc.place < Len(Table)
        <5> HIDE DEF acc, g, S
        <5> QED BY <1>0, <4>2 DEF Reached, InTable
      <4> HIDE DEF k
      <4> QED BY <4>1, <4>4, <4>5
    <3> QED BY <3>1, <3>2
  <2>7. S[i].place = IF Advances(rule, ev, acc, g) THEN (IF acc.place + k < Len(Table) THEN acc.place + k ELSE Len(Table)) ELSE acc.place
    BY <2>2 DEF Leaves, Timed
  <2> HIDE DEF S, acc, g, k, done
  <2>8. S[i].place = IF done + k < Len(Table) THEN done + k ELSE Len(Table)
    BY <1>0, <2>3, <2>4, <2>6, <2>7
  <2> QED BY <2>1, <2>4, <2>8
<1> HIDE DEF S
<1>4. \A i \in 0 .. N : i \in D
  <2>1. D \in SUBSET Nat /\ 0 \in Nat
    OBVIOUS
  <2> HIDE DEF D
  <2> QED BY <1>0, <1>2, <1>3, <2>1, CountUpTo
<1> QED BY <1>4 DEF S
-----------------------------------------------------------------------------
(* A row of the event, as it is scored: who holds a place ahead of it and  *)
(* who is tied with it.                                                    *)

Hold(rule, f) == Holding(rule, event, f)
Scoring(rule, f, r) == PrintAs(Hold(rule, f), r)

LEMMA ScoringRow ==
  ASSUME NEW f, Fair(f), NEW rule \in Rule, NEW r \in Eligible(f) \ OverPlaceCap(rule, event, f)
  PROVE  LET L == Lines(rule, event, f)
             R == Reprinted(Hold(rule, f))
             x == Scoring(rule, f, r)
         IN  /\ r \in Hold(rule, f) /\ x \in Eligible(L) /\ x \in L /\ x \in Eligible(R) /\ x \in R /\ x.who = r.who
             /\ x.tier = r.tier
             /\ Seat(R, x) = (IF r.tier = "B" THEN Bracket ELSE 0) + 1 + Cardinality(Ahead(Hold(rule, f), r))
<1> DEFINE h == Hold(rule, f)
           R == Reprinted(h)
           x == Scoring(rule, f, r)
<1>1. IsField(f) /\ h \in SUBSET f /\ Eligible(Lines(rule, event, f)) = Eligible(R)
  BY LinesFair DEF Hold
<1>2. r \in h /\ r \in f /\ r \in Eligible(h)
  BY DEF Hold, Holding, Racing, Eligible, Exhibitions
<1>3. x.who = r.who /\ x.tier = r.tier
  BY <1>1, <1>2, PrintKeeps DEF Scoring
<1>4. R = {PrintAs(h, q) : q \in h} /\ Eligible(R) = {PrintAs(h, q) : q \in Eligible(h)}
  BY <1>1, ReprintedFacts
<1>5. x \in Eligible(R) /\ x \in R
  BY <1>2, <1>4 DEF Scoring
<1>6. Cardinality(Ahead(R, x)) = Cardinality(Ahead(h, r))
  <2>1. h \in SUBSET h
    OBVIOUS
  <2>2. Cardinality(Ahead({PrintAs(h, q) : q \in h}, PrintAs(h, r))) = Cardinality(Ahead(h, r))
    <3>1. {PrintAs(h, q) : q \in h} = RowsFor(h, h)
      BY DEF RowsFor
    <3> HIDE DEF h
    <3>2. Cardinality(Ahead(RowsFor(h, h), PrintAs(h, r))) = Cardinality(Ahead(h, r))
      BY <1>1, <1>2, <2>1, PrintAgain
    <3> QED BY <3>1, <3>2
  <2> QED BY <1>4, <2>2 DEF Scoring
<1>7. Seat(R, x) = (IF r.tier = "B" THEN Bracket ELSE 0) + 1 + Cardinality(Ahead(h, r))
  BY <1>3, <1>6 DEF Seat
<1>8. \A q \in Eligible(Lines(rule, event, f)) : q \in Lines(rule, event, f)
  BY DEF Eligible
<1> QED BY <1>1, <1>2, <1>3, <1>5, <1>7, <1>8

LEMMA ScoringRows ==
  ASSUME NEW f, Fair(f), NEW rule \in Rule
  PROVE  LET L == Lines(rule, event, f)
             E == Eligible(f) \ OverPlaceCap(rule, event, f)
         IN  /\ rule.behavior = "removed" \/ OverPlaceCap(rule, event, f) = {} => Eligible(L) = {Scoring(rule, f, r) : r \in E}
             /\ \A q, r \in E : /\ RankedAbove(Scoring(rule, f, q), Scoring(rule, f, r)) <=> RankedAbove(q, r)
                                /\ Ranked(Scoring(rule, f, q)) = Ranked(Scoring(rule, f, r)) <=> Ranked(q) = Ranked(r)
                                /\ Scoring(rule, f, q) = Scoring(rule, f, r) => q = r
<1> DEFINE h == Hold(rule, f)
           R == Reprinted(h)
           E == Eligible(f) \ OverPlaceCap(rule, event, f)
<1>1. IsField(f) /\ h \in SUBSET f /\ Eligible(Lines(rule, event, f)) = Eligible(R)
  BY LinesFair DEF Hold
<1>2. Eligible(R) = {PrintAs(h, q) : q \in Eligible(h)}
  BY <1>1, ReprintedFacts
<1>3. E \subseteq h /\ E \subseteq f
  BY DEF Hold, Holding, Racing, Eligible, Exhibitions
<1>4. ASSUME rule.behavior = "removed" \/ OverPlaceCap(rule, event, f) = {} PROVE Eligible(h) = E
  BY <1>4 DEF Hold, Holding, Racing, Eligible, Exhibitions
<1>5. \A q \in E : PrintAs(h, q).who = q.who
  BY <1>1, <1>3, PrintKeeps
<1>6. \A q, r \in E : PrintAs(h, q) = PrintAs(h, r) => q = r
  BY <1>1, <1>3, <1>5 DEF IsField
<1>7. \A q, r \in E : /\ RankedAbove(PrintAs(h, q), PrintAs(h, r)) <=> RankedAbove(q, r)
                      /\ Ranked(PrintAs(h, q)) = Ranked(PrintAs(h, r)) <=> Ranked(q) = Ranked(r)
  BY <1>1, <1>3, PrintIsOrder
<1> HIDE DEF h, E
<1>8. rule.behavior = "removed" \/ OverPlaceCap(rule, event, f) = {} => Eligible(Lines(rule, event, f)) = {PrintAs(h, q) : q \in E}
  BY <1>1, <1>2, <1>4
<1> QED BY <1>6, <1>7, <1>8 DEF h, E, Scoring

(* What is left of a tie, counted among the rows as they were printed. *)
LEMMA ScoringTie ==
  ASSUME NEW f, Fair(f), NEW rule \in Rule, rule.behavior = "removed" \/ OverPlaceCap(rule, event, f) = {},
         NEW r \in Eligible(f) \ OverPlaceCap(rule, event, f)
  PROVE  LET L == Lines(rule, event, f)
             E == Eligible(f) \ OverPlaceCap(rule, event, f)
             x == Scoring(rule, f, r)
         IN  /\ Cardinality(Tied(L, x)) = Cardinality({q \in E : Ranked(q) = Ranked(r)})
             /\ Cardinality(Done(L, Nth(L, x) - 1)) = Cardinality({q \in E : RankedAbove(q, r)})
<1> DEFINE L == Lines(rule, event, f)
           E == Eligible(f) \ OverPlaceCap(rule, event, f)
           m == [q \in E |-> Scoring(rule, f, q)]
           x == Scoring(rule, f, r)
<1>1. /\ Eligible(L) = {m[q] : q \in E}
      /\ \A q \in E, s \in E : m[q] = m[s] => q = s
      /\ \A q \in E : RankedAbove(m[q], x) <=> RankedAbove(q, r)
      /\ \A q \in E : Ranked(m[q]) = Ranked(x) <=> Ranked(q) = Ranked(r)
  BY ScoringRows
<1>2. IsFiniteSet(E)
  <2>1. IsField(f) /\ f \in SUBSET f
    BY DEF Fair
  <2>2. IsFiniteSet(Eligible(f))
    BY <2>1, EligiblePart
  <2> QED BY <2>2, FS_Subset
<1>3. IsField(L) /\ x \in L /\ Eligible(L) \subseteq L
  <2>1. IsField(L) /\ x \in L
    BY LinesFair, ScoringRow
  <2> QED BY <2>1 DEF Eligible
<1> HIDE DEF m, L, E, x
<1>4. ASSUME NEW U \in SUBSET E PROVE Cardinality({m[q] : q \in U}) = Cardinality(U)
  <2>1. IsFiniteSet(U) /\ \A q \in U, s \in U : m[q] = m[s] => q = s
    BY <1>1, <1>2, FS_Subset
  <2> QED BY <2>1, ImageCount
<1>5. Cardinality(Tied(L, x)) = Cardinality({q \in E : Ranked(q) = Ranked(r)})
  <2>1. Tied(L, x) = {m[q] : q \in {q \in E : Ranked(q) = Ranked(r)}}
    BY <1>1 DEF Tied
  <2> QED BY <1>4, <2>1
<1>6. Cardinality(Done(L, Nth(L, x) - 1)) = Cardinality({q \in E : RankedAbove(q, r)})
  <2>1. \A q \in Eligible(L) : Nth(L, q) <= Nth(L, x) - 1 <=> RankedAbove(q, x)
    <3>1. \A q \in L : Nth(L, q) \in Nat
      BY <1>3, GroupFacts
    <3>2. \A q \in L : Nth(L, q) < Nth(L, x) <=> RankedAbove(q, x)
      BY <1>3, SameGroup
    <3> QED BY <1>3, <3>1, <3>2
  <2>2. Done(L, Nth(L, x) - 1) = {m[q] : q \in {q \in E : RankedAbove(q, r)}}
    BY <1>1, <2>1 DEF Done
  <2> QED BY <1>4, <2>2
<1> QED BY <1>5, <1>6 DEF L, E, x

LEMMA FirstOfFinal ==
  ASSUME NEW f, IsField(f), NEW e, Fair(e), Eligible(f) = Eligible(e), NEW x \in Eligible(f), NEW ev, ~Timed(ev), NEW acc
  PROVE  FirstPlace(ev, acc, Group(f, Nth(f, x))) = IF Seat(e, x) <= Len(Table) THEN Seat(e, x) ELSE 0
<1> DEFINE g == Group(f, Nth(f, x))
           y == CHOOSE r \in Eligible(g) : TRUE
<1>1. x \in f /\ x \in e /\ IsField(e) /\ e \subseteq Row /\ Rounds(e)
  BY DEF Eligible, Fair, IsField
<1>2. Eligible(g) = Tied(f, x) /\ x \in Tied(f, x)
  BY <1>1, TiedFacts
<1>3. y \in Tied(f, x)
  BY <1>2
<1> HIDE DEF y
<1>4. y \in Eligible(e) /\ y \in e /\ Ranked(y) = Ranked(x)
  BY <1>3 DEF Tied, Eligible
<1>5. y.tier = x.tier /\ y.rank = x.rank
  BY <1>1, <1>4, TierOrderFacts DEF Ranked, Rounds, Row
<1>6. Seat(e, y) = Seat(e, x)
  <2>1. Ahead(e, y) = Ahead(e, x)
    BY <1>5 DEF Ahead
  <2> QED BY <1>5, <2>1 DEF Seat
<1>7. FirstPlace(ev, acc, g) = Place(y)
  BY <1>2 DEF FirstPlace, Timed, y
<1> QED BY <1>4, <1>6, <1>7, PlaceIsSeat

Worth(place, k) == Total(Values, place .. place + k - 1)
Relay(ev) == ev = "relay"

LEMMA WorthPastTheEnd ==
  ASSUME NEW place \in Nat, place > Len(Table), NEW k \in Nat PROVE Worth(place, k) = 0
<1>1. Len(Table) \in Nat /\ IsFiniteSet(place .. place + k - 1)
  BY LadderIsTable, IntervalFacts
<1>2. \A p \in place .. place + k - 1 : Values[p] = 0
  BY <1>1 DEF Values, Value, InTable
<1> QED BY <1>1, <1>2, TotalOfZeros DEF Worth

LEMMA EachIsWorth ==
  ASSUME NEW f, IsField(f), NEW g \in SUBSET f, NEW ev \in Kind, ~Relay(ev), NEW acc \in Standing(f),
         NEW n \in Nat, Divides(n), Cardinality(f) <= n, Eligible(g) # {}
  PROVE  LET k == Cardinality(Eligible(g))
             first == FirstPlace(ev, acc, g)
         IN  /\ k \in Nat \ {0} /\ first \in Nat
             /\ first = 0 => Each(ev, acc, g) = 0
             /\ first # 0 => Each(ev, acc, g) * k = Worth(first, k)
<1> DEFINE k == Cardinality(Eligible(g))
           first == FirstPlace(ev, acc, g)
<1>1. first \in Nat
  BY EachIsNat
<1>2. k \in Nat \ {0} /\ k \in 1 .. n
  <2>1. k # 0 /\ k \in Nat
    BY EligiblePart
  <2>2. Eligible(g) \subseteq f /\ IsFiniteSet(f)
    BY EligiblePart DEF IsField
  <2>3. k <= Cardinality(f) /\ Cardinality(f) \in Nat
    BY <2>2, FS_Subset, FS_CardinalityType
  <2> QED BY <2>1, <2>3
<1>3. CASE ~Reached(ev, acc, g)
  <2>1. Each(ev, acc, g) = 0 /\ ~InTable(first)
    BY <1>3 DEF Each, Reached
  <2> HIDE DEF first, k
  <2>2. first # 0 => Worth(first, k) = 0
    <3>1. first # 0 => first > Len(Table)
      BY <1>1, <2>1, LadderIsTable DEF InTable
    <3> QED BY <1>1, <1>2, <3>1, WorthPastTheEnd
  <2> QED BY <1>1, <1>2, <2>1, <2>2 DEF first, k
<1>4. CASE Reached(ev, acc, g)
  <2>1. Each(ev, acc, g) = Share(first, k)
    BY <1>4 DEF Each, Relay
  <2>2. first # 0
    BY <1>4 DEF Reached, InTable
  <2> HIDE DEF first, k
  <2>3. Share(first, k) \in Nat /\ k * Share(first, k) = Worth(first, k)
    BY <1>1, <1>2, <2>2, ShareIsExact DEF Worth
  <2>4. k * Share(first, k) = Share(first, k) * k
    BY <1>2, <2>3
  <2> QED BY <1>1, <1>2, <2>1, <2>2, <2>3, <2>4 DEF first, k
<1> QED BY <1>3, <1>4

Shared == Cardinality(field) <= meet.rows /\ Divides(meet.rows) /\ meet.rows \in Nat

LEMMA LinesAreFew ==
  ASSUME NEW f, Fair(f), NEW rule \in Rule, NEW n \in Nat, Cardinality(f) <= n
  PROVE  Cardinality(Lines(rule, event, f)) <= n
<1> DEFINE L == Lines(rule, event, f)
<1>1. IsField(L) /\ IsField(f) /\ Names(L) \subseteq Names(f)
  BY LinesFair
<1> HIDE DEF L
<1>2. IsFiniteSet(f) /\ IsFiniteSet(L) /\ f \in SUBSET f
  BY <1>1 DEF IsField
<1>3. IsFiniteSet(Names(f)) /\ Cardinality(Names(f)) <= Cardinality(f) /\ Cardinality(L) = Cardinality(Names(L))
  <2> DEFINE m == [r \in L |-> r.who]
             mf == [r \in f |-> r.who]
  <2>1. {m[r] : r \in L} = Names(L) /\ {mf[r] : r \in f} = Names(f)
    BY DEF Names
  <2>2. (\A x \in L, y \in L : m[x] = m[y] => x = y) /\ \A x \in f, y \in f : mf[x] = mf[y] => x = y
    BY <1>1 DEF IsField
  <2> HIDE DEF m, mf
  <2>3. Cardinality({m[r] : r \in L}) = Cardinality(L)
    BY <1>2, <2>2, ImageCount
  <2>4. Cardinality({mf[r] : r \in f}) = Cardinality(f) /\ IsFiniteSet({mf[r] : r \in f})
    BY <1>2, <2>2, ImageCount
  <2>5. Cardinality(f) \in Nat
    BY <1>2, FS_CardinalityType
  <2>6. Cardinality(Names(L)) = Cardinality(L)
    BY ONLY <2>1, <2>3
  <2>7. Cardinality(Names(f)) = Cardinality(f) /\ IsFiniteSet(Names(f))
    BY ONLY <2>1, <2>4
  <2> QED BY ONLY <2>5, <2>6, <2>7
<1>4. Cardinality(Names(L)) <= Cardinality(Names(f)) /\ Cardinality(Names(L)) \in Nat /\ Cardinality(Names(f)) \in Nat
  BY <1>1, <1>3, FS_Subset, FS_CardinalityType
<1>5. Cardinality(f) \in Nat
  BY <1>2, FS_CardinalityType
<1>6. Cardinality(L) <= n
  BY <1>3, <1>4, <1>5
<1> QED BY <1>6 DEF L

(* When a row's group is scored, what it finds then, and who is in it. *)
TurnOf(rule, f, r) == Nth(Lines(rule, event, f), Scoring(rule, f, r))
StandingFor(rule, f, p, r) == Standings(rule, event, Lines(rule, event, f), p)[TurnOf(rule, f, r) - 1]
Tie(rule, f, r) == Group(Lines(rule, event, f), TurnOf(rule, f, r))

LEMMA RowIsPaid ==
  ASSUME NEW f, Fair(f), NEW rule \in Rule, event \in Kind, NEW p \in [Athlete -> Nat], NEW r \in Eligible(f) \ OverPlaceCap(rule, event, f)
  PROVE  LET L == Lines(rule, event, f)
             x == Scoring(rule, f, r)
             acc == StandingFor(rule, f, p, r)
             g == Tie(rule, f, r)
             paid == Paid(rule, event, acc, g)
         IN  /\ IsField(L) /\ x \in L /\ x.who = r.who /\ r.who \in Names(f) /\ r.who \in Athlete
             /\ acc \in Standing(L) /\ g \in SUBSET L /\ acc.pool[r.who] = p[r.who]
             /\ Eligible(g) = Tied(L, x) /\ x \in Eligible(g) /\ r.who \in Names(Eligible(g))
             /\ Scored(rule, event, f, p).points[r.who] = IF r.who \in paid THEN Each(event, acc, g) ELSE 0
             /\ Scored(rule, event, f, p).pool[r.who]
                  = IF ByPool(rule, event) /\ r.who \in paid /\ p[r.who] = 0 THEN Weight(event) ELSE p[r.who]
<1> DEFINE L == Lines(rule, event, f)
           x == Scoring(rule, f, r)
           acc == StandingFor(rule, f, p, r)
           g == Tie(rule, f, r)
           paid == Paid(rule, event, acc, g)
           S == Standings(rule, event, L, p)
<1>1. IsField(L) /\ x \in L /\ x.who = r.who /\ x \in Eligible(L)
  BY LinesFair, ScoringRow
<1>2. r \in f /\ r.who \in Names(f) /\ r.who \in Athlete
  BY DEF Eligible, Names, Fair, IsField, Row
<1>3. r.who \notin Names(OverPlaceCap(rule, event, f))
  <2>1. ASSUME NEW q \in OverPlaceCap(rule, event, f), q.who = r.who PROVE FALSE
    <3>1. q \in f
      BY OverIsPart
    <3>2. q = r
      BY <1>2, <2>1, <3>1 DEF Fair, IsField
    <3> QED BY <3>2
  <2> QED BY <2>1 DEF Names
<1>4. /\ acc \in Standing(L) /\ g \in SUBSET L /\ acc.pool[x.who] = p[x.who]
      /\ S[Len(Groups(L))].points[x.who] = IF x.who \in paid THEN Each(event, acc, g) ELSE 0
      /\ S[Len(Groups(L))].pool[x.who] = IF ByPool(rule, event) /\ x.who \in paid /\ p[x.who] = 0
                                           THEN Weight(event) ELSE p[x.who]
  <2> HIDE DEF x, L
  <2> QED BY <1>1, RowEarns DEF StandingFor, Tie, TurnOf, x, L
<1>5. Eligible(g) = Tied(L, x) /\ x \in Tied(L, x)
  <2> HIDE DEF x, L
  <2> QED BY <1>1, TiedFacts DEF Tie, TurnOf, x, L
<1>6. Scored(rule, event, f, p).points[r.who] = S[Len(Groups(L))].points[r.who]
      /\ Scored(rule, event, f, p).pool[r.who] = S[Len(Groups(L))].pool[r.who]
  <2> DEFINE last == Final(rule, event, f, p)
  <2>1. last = S[Len(Groups(L))]
    BY DEF Final
  <2> HIDE DEF last, S, L
  <2>2. /\ Scored(rule, event, f, p).pool = last.pool
        /\ Scored(rule, event, f, p).points = [a \in Names(f) |-> IF a \in Names(OverPlaceCap(rule, event, f)) THEN 0 ELSE last.points[a]]
    BY ScoredIs DEF last
  <2>3. Scored(rule, event, f, p).points[r.who] = last.points[r.who]
    BY <1>2, <1>3, <2>2
  <2> QED BY <2>1, <2>2, <2>3
<1>7. r.who \in Names(Eligible(g))
  BY <1>1, <1>5 DEF Names
<1> HIDE DEF L, x, acc, g, S, paid
<1> QED BY <1>1, <1>2, <1>4, <1>5, <1>6, <1>7 DEF L, x, acc, g, paid

(* In a timed final that turns nobody away the ladder stands where those  *)
(* who finished ahead have brought it.                                    *)
LEMMA FirstOfTimed ==
  ASSUME NEW f, Fair(f), NEW rule \in Rule, event \in Kind, Timed(event), Uncapped(rule, event), OverPlaceCap(rule, event, f) = {},
         NEW p \in [Athlete -> Nat], NEW r \in Eligible(f)
  PROVE  LET seat == 1 + Cardinality(Ahead(Eligible(f), r))
         IN  /\ seat \in Nat \ {0} /\ r.tier = "FIN"
             /\ FirstPlace(event, StandingFor(rule, f, p, r), Tie(rule, f, r)) = IF seat <= Len(Table) THEN seat ELSE Len(Table) + 1
<1> DEFINE L == Lines(rule, event, f)
           x == Scoring(rule, f, r)
           i == TurnOf(rule, f, r) - 1
           done == Cardinality(Done(L, i))
<1>1. IsField(L) /\ x \in L
  BY RowIsPaid
<1>2. i \in 0 .. Len(Groups(L)) /\ Len(Groups(L)) \in Nat
  <2>1. Nth(L, x) \in 1 .. Len(Groups(L)) /\ Len(Groups(L)) \in Nat
    BY <1>1, GroupFacts
  <2>2. i = Nth(L, x) - 1
    BY DEF TurnOf
  <2> HIDE DEF i, L, x
  <2> QED BY <2>1, <2>2
<1>3. StandingFor(rule, f, p, r).place = IF done < Len(Table) THEN done ELSE Len(Table)
  <2>1. \A j \in 0 .. Len(Groups(L)) :
           Standings(rule, event, L, p)[j].place = IF Cardinality(Done(L, j)) < Len(Table) THEN Cardinality(Done(L, j)) ELSE Len(Table)
    <3> HIDE DEF L
    <3> QED BY <1>1, LadderStands
  <2> QED BY <1>2, <2>1 DEF StandingFor
<1>4. \A q \in f : q.tier = "FIN"
  BY DEF Fair, Tiers, Timed
<1>5. done = Cardinality(Ahead(Eligible(f), r))
  <2>1. done = Cardinality({q \in Eligible(f) \ OverPlaceCap(rule, event, f) : RankedAbove(q, r)})
    BY ScoringTie DEF TurnOf
  <2>2. {q \in Eligible(f) \ OverPlaceCap(rule, event, f) : RankedAbove(q, r)} = Ahead(Eligible(f), r)
    BY <1>4, TierOrderFacts DEF Ahead, RankedAbove, Eligible
  <2> QED BY <2>1, <2>2
<1>6. Cardinality(Ahead(Eligible(f), r)) \in Nat /\ r \in f /\ Len(Table) \in Nat
  <2>1. IsField(f) /\ Eligible(f) \in SUBSET f /\ r \in f
    BY DEF Fair, Eligible
  <2> QED BY <2>1, AheadFacts, LadderIsTable
<1>7. FirstPlace(event, StandingFor(rule, f, p, r), Tie(rule, f, r)) = StandingFor(rule, f, p, r).place + 1
  <2>1. Eligible(Tie(rule, f, r)) # {}
    BY RowIsPaid
  <2> QED BY <2>1 DEF FirstPlace, Timed
<1>8. r.tier = "FIN"
  BY <1>4, <1>6
<1> DEFINE ahead == Cardinality(Ahead(Eligible(f), r))
           place == StandingFor(rule, f, p, r).place
<1>9. ahead \in Nat /\ place = (IF ahead < Len(Table) THEN ahead ELSE Len(Table)) /\ Len(Table) \in Nat
  BY <1>3, <1>5, <1>6
<1> HIDE DEF ahead, place
<1>10. 1 + ahead \in Nat \ {0} /\ place + 1 = IF 1 + ahead <= Len(Table) THEN 1 + ahead ELSE Len(Table) + 1
  BY ONLY <1>9
<1> QED BY <1>7, <1>8, <1>10 DEF ahead, place

(* The place a row is paid for, by who of the event is ahead of it. *)
SeatOf(rule, f, r) ==
  IF Timed(event) THEN 1 + Cardinality(Ahead(Eligible(f), r))
  ELSE (IF r.tier = "B" THEN Bracket ELSE 0) + 1 + Cardinality(Ahead(Hold(rule, f), r))

LEMMA FreeRow ==
  ASSUME NEW f, Fair(f), NEW rule \in Rule, event \in Kind, ~Relay(event), Uncapped(rule, event), OverPlaceCap(rule, event, f) = {},
         NEW p \in [Athlete -> Nat], NEW n \in Nat, Divides(n), Cardinality(f) <= n,
         NEW r \in Eligible(f), r.who \in rule.roster
  PROVE  LET paid == Scored(rule, event, f, p).points[r.who]
             k == Cardinality({q \in Eligible(f) : Ranked(q) = Ranked(r)})
             seat == SeatOf(rule, f, r)
         IN  /\ paid \in Nat /\ k \in Nat \ {0} /\ seat \in Nat \ {0}
             /\ paid * k = Worth(seat, k)
<1> DEFINE L == Lines(rule, event, f)
           x == Scoring(rule, f, r)
           acc == StandingFor(rule, f, p, r)
           g == Tie(rule, f, r)
           k == Cardinality({q \in Eligible(f) : Ranked(q) = Ranked(r)})
           seat == SeatOf(rule, f, r)
           first == FirstPlace(event, acc, g)
           each == Each(event, acc, g)
<1>1. /\ IsField(L) /\ x \in L /\ acc \in Standing(L) /\ g \in SUBSET L
      /\ Eligible(g) = Tied(L, x) /\ Eligible(g) # {} /\ r.who \in Names(Eligible(g))
      /\ Scored(rule, event, f, p).points[r.who] = IF r.who \in Paid(rule, event, acc, g) THEN each ELSE 0
  BY RowIsPaid
<1>2. Cardinality(L) <= n
  BY LinesAreFew
<1>3. Cardinality(Eligible(g)) = k
  <2>1. Cardinality(Tied(L, x)) = Cardinality({q \in Eligible(f) \ OverPlaceCap(rule, event, f) : Ranked(q) = Ranked(r)})
    <3>1. (rule.behavior = "removed" \/ OverPlaceCap(rule, event, f) = {}) /\ r \in Eligible(f) \ OverPlaceCap(rule, event, f)
      OBVIOUS
    <3> HIDE DEF L, x
    <3> QED BY <3>1, ScoringTie DEF L, x
  <2>2. {q \in Eligible(f) \ OverPlaceCap(rule, event, f) : Ranked(q) = Ranked(r)} = {q \in Eligible(f) : Ranked(q) = Ranked(r)}
    OBVIOUS
  <2> QED BY <1>1, <2>1, <2>2
<1>4. /\ k \in Nat \ {0} /\ first \in Nat
      /\ first = 0 => each = 0
      /\ first # 0 => each * k = Worth(first, k)
      /\ each \in Nat
  <2> HIDE DEF L, acc, g, k
  <2> QED BY <1>1, <1>2, <1>3, EachIsWorth, EachIsNat
<1>5. r.who \in Taken(rule, event, acc, g)
  <2>1. r.who \in Entered(rule, event, g)
    BY <1>1 DEF Entered
  <2> QED BY <2>1, UncappedTakes
<1>6. Scored(rule, event, f, p).points[r.who] = each
  BY <1>1, <1>5 DEF Paid, Each
<1>7. seat \in Nat \ {0} /\ first = IF seat <= Len(Table) THEN seat ELSE IF Timed(event) THEN Len(Table) + 1 ELSE 0
  <2>1. CASE Timed(event)
    BY <2>1, FirstOfTimed DEF SeatOf
  <2>2. CASE ~Timed(event)
    <3> DEFINE R == Reprinted(Hold(rule, f))
    <3>1. Fair(R) /\ Eligible(L) = Eligible(R)
      BY LinesFair DEF Hold
    <3>2. x \in Eligible(L) /\ Seat(R, x) = (IF r.tier = "B" THEN Bracket ELSE 0) + 1 + Cardinality(Ahead(Hold(rule, f), r))
      BY ScoringRow
    <3>3. seat = Seat(R, x)
      BY <2>2, <3>2 DEF SeatOf
    <3> HIDE DEF L, R, x
    <3>4. FirstPlace(event, acc, Group(L, Nth(L, x))) = IF Seat(R, x) <= Len(Table) THEN Seat(R, x) ELSE 0
      BY <1>1, <2>2, <3>1, <3>2, FirstOfFinal
    <3>5. Cardinality(Ahead(Hold(rule, f), r)) \in Nat /\ Bracket \in Nat
      <4>1. IsField(f) /\ Hold(rule, f) \in SUBSET f /\ r \in f
        BY LinesFair DEF Hold, Eligible
      <4> QED BY <4>1, AheadFacts, MeetSizes
    <3>6. seat \in Nat \ {0}
      BY <3>2, <3>3, <3>5
    <3>7. g = Group(L, Nth(L, x))
      BY DEF Tie, TurnOf, L, x
    <3> QED BY <2>2, <3>3, <3>4, <3>6, <3>7
  <2> QED BY <2>1, <2>2
<1>8. Len(Table) \in Nat
  BY LadderIsTable
<1> HIDE DEF L, x, acc, g, k, seat, first, each
<1>9. seat > Len(Table) => Worth(seat, k) = 0
  BY <1>4, <1>7, WorthPastTheEnd
<1>10. each * k = Worth(seat, k)
  <2>1. CASE seat <= Len(Table)
    BY <1>4, <1>7, <2>1
  <2>2. CASE ~(seat <= Len(Table))
    <3>1. seat > Len(Table)
      BY <1>7, <1>8, <2>2
    <3>2. CASE Timed(event)
      <4>1. first = Len(Table) + 1 /\ first # 0 /\ Len(Table) + 1 > Len(Table) /\ Len(Table) + 1 \in Nat
        BY <1>7, <1>8, <2>2, <3>2
      <4>2. Worth(first, k) = 0
        BY <1>4, <4>1, WorthPastTheEnd
      <4> QED BY <1>4, <1>9, <3>1, <4>1, <4>2
    <3>3. CASE ~Timed(event)
      <4>1. each = 0
        BY <1>4, <1>7, <2>2, <3>3
      <4>2. each * k = 0
        BY <1>4, <4>1
      <4> QED BY <1>9, <3>1, <4>2
    <3> QED BY <3>2, <3>3
  <2> QED BY <2>1, <2>2
<1> QED BY <1>4, <1>6, <1>7, <1>10 DEF k, seat

(* The place a row takes is the one it is paid for under a rule without a  *)
(* place cap.                                                              *)
LEMMA SeatTaken ==
  ASSUME Fair(field), event \in Kind, ~Relay(event), NEW rule, OverPlaceCap(rule, event, field) = {}, NEW r \in Eligible(field)
  PROVE  PlaceTaken(r) = SeatOf(rule, field, r)
<1> DEFINE hold == IF event = "timed final" THEN Eligible(field) ELSE field \ Exhibitions(field)
           first == (IF r.tier = "B" THEN Bracket ELSE 0) + 1 + Cardinality(Ahead(hold, r))
<1>1. IsField(field) /\ Eligible(field) \subseteq field
  BY DEF Fair, IsField, Eligible
<1>2. first = SeatOf(rule, field, r)
  <2>1. CASE Timed(event)
    <3>1. r.tier = "FIN"
      BY <1>1, <2>1 DEF Fair, Tiers, Timed
    <3>2. hold = Eligible(field)
      BY <2>1 DEF Timed
    <3>3. (IF r.tier = "B" THEN Bracket ELSE 0) = 0
      BY <3>1
    <3>4. Cardinality(Ahead(hold, r)) \in Nat
      BY <1>1, <3>2, AheadFacts
    <3>5. SeatOf(rule, field, r) = 1 + Cardinality(Ahead(hold, r))
      BY <2>1, <3>2 DEF SeatOf
    <3> HIDE DEF hold
    <3>6. 0 + 1 + Cardinality(Ahead(hold, r)) = 1 + Cardinality(Ahead(hold, r))
      BY <3>4
    <3> QED BY <3>3, <3>5, <3>6
  <2>2. CASE ~Timed(event)
    <3>1. hold = Hold(rule, field)
      BY <2>2 DEF Hold, Holding, Racing, Timed, Relay
    <3> HIDE DEF hold
    <3> QED BY <2>2, <3>1 DEF SeatOf
  <2> QED BY <2>1, <2>2
<1> QED BY <1>2 DEF PlaceTaken

LEMMA PlacesCounted == ASSUME Scene, Settled, Shared PROVE PlacesAreCounted
<1> SUFFICES ASSUME ~Relay(event), meet.scope = "none", meet.placeCap = 0, NEW r \in Eligible(field), r.who \in meet.roster
             PROVE  LET hold == IF event = "timed final" THEN Eligible(field) ELSE field \ Exhibitions(field)
                        tied == {q \in Eligible(field) : q.tier = r.tier /\ q.rank = r.rank}
                        first == (IF r.tier = "B" THEN Bracket ELSE 0) + 1 + Cardinality(Ahead(hold, r))
                    IN  points[r.who] * Cardinality(tied) = MapThenSumSet(Value, first .. first + Cardinality(tied) - 1)
  BY DEF PlacesAreCounted, PlaceTaken, Relay
<1> DEFINE hold == IF event = "timed final" THEN Eligible(field) ELSE field \ Exhibitions(field)
           tied == {q \in Eligible(field) : q.tier = r.tier /\ q.rank = r.rank}
           first == (IF r.tier = "B" THEN Bracket ELSE 0) + 1 + Cardinality(Ahead(hold, r))
           k == Cardinality(tied)
<1>1. Fair(field) /\ meet \in Rule /\ event \in Kind /\ before \in [Athlete -> Nat]
  BY DEF Scene
<1>2. OverPlaceCap(meet, event, field) = {}
  BY DEF OverPlaceCap
<1>3. Uncapped(meet, event)
  BY DEF Uncapped, Limit, Relay
<1>4. IsField(field) /\ Eligible(field) \subseteq field /\ field \subseteq Row
  BY <1>1 DEF Fair, IsField, Eligible
<1>5. tied = {q \in Eligible(field) : Ranked(q) = Ranked(r)}
  <2>1. \A q \in Eligible(field) : q.tier = r.tier /\ q.rank = r.rank <=> Ranked(q) = Ranked(r)
    BY <1>4, TierOrderFacts DEF Ranked, IsField, Rounds, Row
  <2> QED BY <2>1
<1>6. first = SeatOf(meet, field, r)
  <2>1. PlaceTaken(r) = SeatOf(meet, field, r)
    BY <1>1, <1>2, SeatTaken
  <2> QED BY <2>1 DEF PlaceTaken
<1>7. Cardinality(field) <= meet.rows /\ Divides(meet.rows) /\ meet.rows \in Nat
  BY DEF Shared
<1> DEFINE paid == Scored(meet, event, field, before).points[r.who]
<1>8. k \in Nat \ {0} /\ first \in Nat \ {0} /\ paid * k = Worth(first, k)
  <2> HIDE DEF tied, first
  <2> QED BY <1>1, <1>2, <1>3, <1>5, <1>6, <1>7, FreeRow
<1>9. points[r.who] = paid
  BY DEF Settled
<1> HIDE DEF k, first, paid
<1>10. MapThenSumSet(Value, first .. first + k - 1) = Worth(first, k)
  <2>1. IsFiniteSet(first .. first + k - 1) /\ first .. first + k - 1 \subseteq Int
    BY <1>8, IntervalFacts
  <2> QED BY <2>1, ValuesAdd DEF Worth
<1> QED BY <1>8, <1>9, <1>10 DEF k, first
-----------------------------------------------------------------------------
(* Reading an event row by row leaves it as a meet prints it.              *)

LEMMA Greatest ==
  ASSUME NEW S, IsFiniteSet(S), S # {}, S \subseteq Int
  PROVE  Max(S) \in S /\ \A x \in S : x <= Max(S)
<1> DEFINE C == {T \in SUBSET S : T = {} \/ \E x \in T : \A y \in T : y <= x}
<1>1. {} \in C
  OBVIOUS
<1>2. ASSUME NEW T \in C, NEW z \in S \ T PROVE T \cup {z} \in C
  <2>1. CASE T = {}
    <3>1. \A y \in T \cup {z} : y <= z
      BY <2>1
    <3> QED BY <3>1
  <2>2. CASE T # {}
    <3>1. PICK x \in T : \A y \in T : y <= x
      BY <2>2
    <3>2. \A y \in T \cup {z} : y <= (IF x <= z THEN z ELSE x)
      BY <3>1
    <3> QED BY <3>2
  <2> QED BY <2>1, <2>2
<1>3. S \in C
  <2>1. C \in SUBSET SUBSET S /\ S \in SUBSET S
    OBVIOUS
  <2> HIDE DEF C
  <2> QED BY <1>1, <1>2, <2>1, SubsetInduction
<1>4. \E x \in S : \A y \in S : x >= y
  BY <1>3
<1> QED BY <1>4 DEF Max

LEMMA RankSet == ASSUME NEW f, IsFiniteSet(f) PROVE IsFiniteSet({r.rank : r \in f})
<1> DEFINE R == {r.rank : r \in f}
           m == [r \in f |-> r.rank]
<1>1. m \in Surjection(f, R)
  BY DEF Surjection
<1> QED BY <1>1, FS_Surjection

LEMMA NumberSet == ASSUME NEW A, IsFiniteSet(A) PROVE IsFiniteSet({a[2] : a \in A})
<1> DEFINE R == {a[2] : a \in A}
           m == [a \in A |-> a[2]]
<1>1. m \in Surjection(A, R)
  BY DEF Surjection
<1> QED BY <1>1, FS_Surjection

LEMMA RowRead ==
  ASSUME Fair(field), NEW a \in Athlete, a \notin Names(field), NEW tier \in Tiers,
         NEW kind \in {"legal", "exhibition", "disqualified"}, NEW tied \in BOOLEAN,
         tier \in {"A", "B"} => Cardinality(InTier(tier)) < Bracket, tied => InTier(tier) # {}
  PROVE  LET rank == IF tied THEN Max({r.rank : r \in InTier(tier)}) ELSE Base(tier) + Cardinality(InTier(tier)) + 1
             z == [who |-> a, tier |-> tier, rank |-> rank, kind |-> kind]
         IN  z \notin field /\ Fair(field \cup {z})
<1> DEFINE rank == IF tied THEN Max({r.rank : r \in InTier(tier)}) ELSE Base(tier) + Cardinality(InTier(tier)) + 1
           z == [who |-> a, tier |-> tier, rank |-> rank, kind |-> kind]
           in == InTier(tier)
           n == Cardinality(in)
           g == field \cup {z}
<1>1. IsField(field) /\ Printed(field) /\ field \subseteq Row /\ IsFiniteSet(field) /\ field \in SUBSET field
  BY DEF Fair, IsField
<1>2. in \subseteq field /\ IsFiniteSet(in) /\ n \in Nat /\ \A r \in in : r.tier = tier /\ r.rank \in Nat \ {0}
  <2>1. in \subseteq field /\ \A r \in in : r.tier = tier
    BY DEF InTier
  <2>2. IsFiniteSet(in)
    BY <1>1, <2>1, FS_Subset
  <2> QED BY <1>1, <2>1, <2>2, FS_CardinalityType DEF Row
<1>3. \A r \in in : r.rank = Base(tier) + 1 + Cardinality(Ahead(field, r)) /\ Cardinality(Ahead(field, r)) \in Nat
                    /\ Cardinality(Ahead(field, r)) < n
  <2> SUFFICES ASSUME NEW r \in in
               PROVE  r.rank = Base(tier) + 1 + Cardinality(Ahead(field, r)) /\ Cardinality(Ahead(field, r)) \in Nat
                      /\ Cardinality(Ahead(field, r)) < n
    OBVIOUS
  <2>1. r.rank = Base(tier) + 1 + Cardinality(Ahead(field, r)) /\ Cardinality(Ahead(field, r)) \in Nat
    BY <1>1, <1>2, AheadFacts DEF Printed
  <2>2. Ahead(field, r) \subseteq in /\ r \in in \ Ahead(field, r)
    <3>1. r.rank \in Nat /\ r.tier = tier
      BY <1>2
    <3> QED BY <3>1 DEF Ahead, InTier
  <2>3. Cardinality(Ahead(field, r)) < n
    <3>1. Ahead(field, r) \in SUBSET in /\ Ahead(field, r) # in
      BY <2>2
    <3> HIDE DEF in
    <3>2. Cardinality(Ahead(field, r)) <= Cardinality(in) /\ Cardinality(Ahead(field, r)) # Cardinality(in)
      BY <1>2, <3>1, FS_Subset
    <3> QED BY <1>2, <2>1, <3>2
  <2> QED BY <2>1, <2>3
<1>4. Base(tier) \in Nat
  BY BaseIsNat
<1>5. rank \in Nat \ {0} /\ \A r \in in : r.rank <= rank
  <2>1. CASE tied
    <3> DEFINE ranks == {r.rank : r \in in}
    <3>1. IsFiniteSet(ranks) /\ ranks # {} /\ ranks \subseteq Int
      <4>1. IsFiniteSet(ranks)
        BY <1>2, RankSet
      <4> QED BY <1>2, <2>1, <4>1
    <3>2. Max(ranks) \in ranks /\ \A x \in ranks : x <= Max(ranks)
      <4> HIDE DEF ranks
      <4> QED BY <3>1, Greatest
    <3>3. rank = Max(ranks)
      BY <2>1
    <3> HIDE DEF rank
    <3> QED BY <1>2, <3>2, <3>3
  <2>2. CASE ~tied
    <3>1. rank = Base(tier) + n + 1
      BY <2>2
    <3> HIDE DEF rank, n, in
    <3> QED BY <1>2, <1>3, <1>4, <3>1
  <2> QED BY <2>1, <2>2
<1>6. z \in Row /\ z.who = a /\ z.tier = tier /\ z.rank = rank /\ tier \in {"A", "B", "FIN"}
  <2>1. tier \in {"A", "B", "FIN"}
    BY DEF Tiers
  <2> HIDE DEF rank
  <2> QED BY <1>5, <2>1 DEF Row
<1>7. z \notin field
  BY DEF Names
<1>8. IsField(g)
  <2>1. g \subseteq Row /\ IsFiniteSet(g)
    <3> HIDE DEF z
    <3> QED BY <1>1, <1>6, FS_AddElement
  <2>2. \A q, r \in g : q.who = r.who => q = r
    <3>1. \A q \in field : q.who # a
      BY DEF Names
    <3> HIDE DEF z
    <3> QED BY <1>1, <1>6, <3>1 DEF IsField
  <2>3. Rounds(g)
    <3>1. \A r \in field : r.tier \in Tiers
      BY DEF Fair
    <3> HIDE DEF z
    <3> QED BY <1>6, <3>1 DEF Tiers, Rounds
  <2> HIDE DEF g
  <2> QED BY <2>1, <2>2, <2>3 DEF IsField
<1> HIDE DEF z
<1>9. Printed(g)
  <2>1. ASSUME NEW r \in field PROVE r.rank = Base(r.tier) + 1 + Cardinality(Ahead(g, r))
    <3>1. z \notin Ahead(g, r)
      <4>1. r.rank \in Nat /\ rank \in Nat
        BY <1>1, <1>5, <2>1 DEF Row
      <4>2. r.tier = tier => r.rank <= rank
        BY <1>5, <2>1 DEF InTier
      <4> HIDE DEF rank
      <4> QED BY <1>6, <4>1, <4>2 DEF Ahead
    <3>2. Ahead(g, r) = Ahead(field, r)
      BY <3>1 DEF Ahead
    <3> QED BY <1>1, <2>1, <3>2 DEF Printed
  <2>2. z.rank = Base(z.tier) + 1 + Cardinality(Ahead(g, z))
    <3>1. z \notin Ahead(g, z)
      BY <1>5, <1>6 DEF Ahead
    <3>2. Ahead(g, z) = Ahead(field, z)
      BY <3>1 DEF Ahead
    <3>3. CASE tied
      <4>1. PICK q \in in : q.rank = rank
        <5>1. IsFiniteSet({r.rank : r \in in}) /\ {r.rank : r \in in} # {} /\ {r.rank : r \in in} \subseteq Int
          <6>1. IsFiniteSet({r.rank : r \in in})
            BY <1>2, RankSet
          <6> QED BY <1>2, <3>3, <6>1
        <5>2. Max({r.rank : r \in in}) \in {r.rank : r \in in}
          BY <5>1, Greatest
        <5> QED BY <3>3, <5>2
      <4> HIDE DEF rank
      <4>2. Ahead(field, z) = Ahead(field, q)
        BY <1>2, <1>6, <4>1 DEF Ahead
      <4> QED BY <1>3, <1>6, <3>2, <4>1, <4>2
    <3>4. CASE ~tied
      <4>1. rank = Base(tier) + n + 1
        BY <3>4
      <4> HIDE DEF rank
      <4>2. \A r \in in : r.rank < rank
        <5> HIDE DEF n, in
        <5> QED BY <1>2, <1>3, <1>4, <4>1
      <4>3. Ahead(field, z) = in
        BY <1>6, <4>2 DEF Ahead, InTier
      <4> HIDE DEF in
      <4> QED BY <1>2, <1>4, <1>6, <3>2, <4>1, <4>3
    <3> QED BY <3>3, <3>4
  <2> QED BY <2>1, <2>2 DEF Printed
<1>10. \A r \in g : r.tier \in Tiers
  BY <1>6 DEF Fair
<1>11. ASSUME NEW t \in {"A", "B"} PROVE Cardinality(InRound(g, t)) <= Bracket
  <2>1. CASE t # tier
    <3>1. InRound(g, t) = InRound(field, t)
      BY <1>6, <2>1 DEF InRound
    <3> QED BY <3>1 DEF Fair
  <2>2. CASE t = tier
    <3>1. InRound(g, t) = in \cup {z} /\ z \notin in
      BY <1>2, <1>6, <1>7, <2>2 DEF InRound, InTier
    <3>2. Cardinality(in \cup {z}) = n + 1
      BY <1>2, <3>1, FS_AddElement
    <3>3. n < Bracket /\ Bracket \in Nat
      BY <2>2, MeetSizes
    <3>4. Cardinality(InRound(g, t)) = n + 1
      BY <3>1, <3>2
    <3> HIDE DEF n, g
    <3> QED BY <1>2, <3>3, <3>4
  <2> QED BY <2>1, <2>2
<1>12. Fair(g)
  <2> HIDE DEF g
  <2> QED BY <1>8, <1>9, <1>10, <1>11 DEF Fair
<1> QED BY <1>7, <1>12 DEF z
-----------------------------------------------------------------------------
(* What scoring an event leaves of pool and points.                        *)

LEMMA PoolElsewhere ==
  ASSUME NEW f, IsField(f), NEW rule \in Rule, NEW ev \in Kind, NEW p \in [Athlete -> Nat], NEW a \in Athlete \ Names(f)
  PROVE  \A i \in 0 .. Len(Groups(f)) : Standings(rule, ev, f, p)[i].pool[a] = p[a]
<1> DEFINE S == Standings(rule, ev, f, p)
           N == Len(Groups(f))
           D == {i \in Nat : S[i].pool[a] = p[a]}
<1>0. N \in Nat
  BY GroupFacts
<1>1. /\ S[0] = Nothing(f, p)
      /\ \A i \in 0 .. N : S[i] \in Standing(f)
      /\ \A i \in 1 .. N : S[i] = GroupScored(rule, ev, S[i - 1], Group(f, i))
  BY StandingsAre
<1>2. 0 \in D
  BY <1>1 DEF Nothing
<1>3. ASSUME NEW i \in 0 + 1 .. N, i - 1 \in D PROVE i \in D
  <2>1. i \in Nat /\ Group(f, i) \in SUBSET f /\ S[i - 1] \in Standing(f) /\ S[i] = GroupScored(rule, ev, S[i - 1], Group(f, i))
    BY <1>0, <1>1, GroupFacts
  <2>2. Leaves(S[i], f, rule, ev, S[i - 1], Group(f, i))
    BY <2>1, GroupGives
  <2>3. a \notin Paid(rule, ev, S[i - 1], Group(f, i))
    BY <2>1, PaidIsIn
  <2> HIDE DEF S
  <2>4. S[i].pool[a] = S[i - 1].pool[a]
    BY <2>2, <2>3 DEF Leaves
  <2> QED BY <1>3, <2>1, <2>4
<1> HIDE DEF S
<1>4. \A i \in 0 .. N : i \in D
  <2>1. D \in SUBSET Nat /\ 0 \in Nat
    OBVIOUS
  <2> HIDE DEF D
  <2> QED BY <1>0, <1>2, <1>3, <2>1, CountUpTo
<1> QED BY <1>4 DEF S

LEMMA FinalPool ==
  ASSUME NEW f, IsField(f), NEW rule \in Rule, NEW ev \in Kind, NEW p \in [Athlete -> {0, 1, 3}]
  PROVE  LET last == Standings(rule, ev, f, p)[Len(Groups(f))]
         IN  /\ last.pool \in [Athlete -> {0, 1, 3}] /\ last.points \in [Names(f) -> Nat]
             /\ \A a \in Athlete : a \notin Names(f) => last.pool[a] = p[a]
<1> DEFINE last == Standings(rule, ev, f, p)[Len(Groups(f))]
<1>1. p \in [Athlete -> Nat]
  OBVIOUS
<1>2. Len(Groups(f)) \in 0 .. Len(Groups(f))
  BY GroupFacts
<1>3. last \in Standing(f)
  BY <1>1, <1>2, StandingsAre
<1>4. \A a \in Athlete : a \notin Names(f) => last.pool[a] = p[a]
  BY <1>1, <1>2, PoolElsewhere
<1>5. ASSUME NEW a \in Athlete PROVE last.pool[a] \in {0, 1, 3}
  <2>1. CASE a \notin Names(f)
    BY <1>4, <2>1
  <2>2. CASE a \in Names(f)
    <3>1. PICK r \in f : r.who = a
      BY <2>2 DEF Names
    <3>2. last.pool[a] = p[a] \/ last.pool[a] = Weight(ev)
      BY <1>1, <3>1, RowEarns
    <3> HIDE DEF last
    <3> QED BY <3>2, WeightIs
  <2> QED BY <2>1, <2>2
<1> HIDE DEF last
<1> QED BY <1>3, <1>4, <1>5 DEF Standing, last

LEMMA ScoredGives ==
  ASSUME NEW f, Fair(f), NEW rule \in Rule, event \in Kind, NEW p \in [Athlete -> {0, 1, 3}]
  PROVE  LET s == Scored(rule, event, f, p)
         IN  /\ s.pool \in [Athlete -> {0, 1, 3}]
             /\ s.points \in [Names(f) -> Nat]
<1> DEFINE L == Lines(rule, event, f)
           last == Final(rule, event, f, p)
<1>1. IsField(L) /\ Names(f) \ Names(OverPlaceCap(rule, event, f)) \subseteq Names(L)
  BY LinesFair
<1>2. last.pool \in [Athlete -> {0, 1, 3}] /\ last.points \in [Names(L) -> Nat]
  BY <1>1, FinalPool DEF Final
<1> HIDE DEF last, L
<1>3. \A a \in Names(f) : (IF a \in Names(OverPlaceCap(rule, event, f)) THEN 0 ELSE last.points[a]) \in Nat
  BY <1>1, <1>2
<1>4. /\ Scored(rule, event, f, p).pool = last.pool
      /\ Scored(rule, event, f, p).points = [a \in Names(f) |-> IF a \in Names(OverPlaceCap(rule, event, f)) THEN 0 ELSE last.points[a]]
  BY ScoredIs DEF last
<1> QED BY <1>2, <1>3, <1>4

(* The state between the rows: the event read so far is as a meet prints   *)
(* it, no more rows are read than the meet has, and points and pool are    *)
(* those of the last event scored.                                         *)
MeetInv ==
  /\ stage \in {"settings", "between", "reading", "scored"} /\ meet \in Meet \cup {NoRules} /\ event \in Kind
  /\ Fair(field)
  /\ rowsLeft \in Nat /\ eventsLeft \in Nat /\ Cardinality(field) + rowsLeft <= meet.rows
  /\ pool \in [Athlete -> {0, 1, 3}] /\ before \in [Athlete -> {0, 1, 3}]
  /\ stage = "settings" => meet = NoRules /\ field = {}
  /\ stage \in {"settings", "between"} => pool = [a \in Athlete |-> 0]
  /\ stage # "scored" => DOMAIN points = {} /\ (stage # "settings" /\ stage # "between" => before = pool)
  /\ stage = "scored" => Settled

LEMMA EmptyField == Fair({})
<1>1. IsField({})
  BY FS_EmptySet DEF IsField, Rounds
<1>2. \A t : InRound({}, t) = {}
  BY DEF InRound
<1>3. Cardinality({}) = 0 /\ 0 <= Bracket
  BY FS_EmptySet, MeetSizes
<1> QED BY <1>1, <1>2, <1>3 DEF Fair, Printed

LEMMA NoRulesIs == NoRules \in Rule /\ NoRules.rows = 0 /\ NoRules.scope = "none" /\ NoRules.kinds = {}
BY DEF NoRules, Rule

LEMMA RulesAre == ASSUME meet \in Meet \cup {NoRules} PROVE meet \in Rule
BY MeetSizes, NoRulesIs

(* The rows of a field are the same whatever the event is called. *)
LEMMA FairIn == ASSUME event' = event, NEW f, Fair(f) PROVE Fair(f)'
BY DEF Fair, IsField, Printed, Base, Ahead, Tiers, InRound, Rounds

LEMMA ReadingInit == ASSUME ScoringInit PROVE MeetInv
<1>1. Fair(field) /\ Cardinality(field) = 0
  BY EmptyField, FS_EmptySet DEF ScoringInit
<1>2. meet = NoRules /\ meet.rows = 0
  BY NoRulesIs DEF ScoringInit
<1>3. pool \in [Athlete -> {0, 1, 3}] /\ before \in [Athlete -> {0, 1, 3}] /\ pool = [a \in Athlete |-> 0]
  BY DEF ScoringInit
<1>4. DOMAIN points = {}
  BY DEF ScoringInit
<1>5. stage = "settings" /\ event \in Kind /\ field = {} /\ rowsLeft = 0 /\ eventsLeft = 0
  BY DEF ScoringInit, Kind
<1>6. Cardinality(field) + rowsLeft <= meet.rows
  BY <1>1, <1>2, <1>5
<1> QED BY <1>1, <1>2, <1>3, <1>4, <1>5, <1>6 DEF MeetInv

LEMMA ReadingStep == ASSUME MeetInv, [ScoringNext]_scoringVars PROVE MeetInv'
<1>0. /\ stage \in {"settings", "between", "reading", "scored"} /\ meet \in Meet \cup {NoRules} /\ event \in Kind
      /\ Fair(field) /\ rowsLeft \in Nat /\ eventsLeft \in Nat /\ Cardinality(field) + rowsLeft <= meet.rows
      /\ pool \in [Athlete -> {0, 1, 3}] /\ before \in [Athlete -> {0, 1, 3}]
      /\ meet \in Rule
  BY RulesAre DEF MeetInv
<1>1. ASSUME NEW m \in Meet, SetUp(m) PROVE MeetInv'
  <2>1. stage = "settings" /\ stage' = "between" /\ meet' = m /\ rowsLeft' = m.rows /\ eventsLeft' = m.events
        /\ UNCHANGED <<event, field, pool, points, before>>
    BY <1>1 DEF SetUp
  <2>2. m \in Rule /\ m.rows \in Nat /\ m.events \in Nat
    BY MeetSizes DEF Rule
  <2>3. field = {} /\ pool = [a \in Athlete |-> 0] /\ DOMAIN points = {}
    BY <2>1 DEF MeetInv
  <2>4. Fair(field)'
    BY <1>0, <2>1, FairIn
  <2>5. Cardinality(field') + rowsLeft' <= meet'.rows
    BY <2>1, <2>2, <2>3, FS_EmptySet
  <2> QED BY <1>0, <2>1, <2>2, <2>3, <2>4, <2>5 DEF MeetInv
<1>2. ASSUME NEW kind \in meet.kinds, OpenEvent(kind) PROVE MeetInv'
  <2>1. /\ stage' = "reading" /\ event' = kind /\ eventsLeft > 0 /\ eventsLeft' = eventsLeft - 1
        /\ field' = {} /\ points' = [a \in {} |-> 0] /\ before' = pool /\ UNCHANGED <<meet, pool, rowsLeft>>
    BY <1>2 DEF OpenEvent
  <2>2. kind \in Kind
    BY <1>0 DEF Rule
  <2>3. Fair(field)'
    <3>1. Fair({})'
      BY EmptyField, PTL
    <3> QED BY <2>1, <3>1 DEF Fair, Printed, Base, Ahead, Tiers, InRound, IsField, Rounds
  <2>4. eventsLeft' \in Nat
    BY <1>0, <2>1
  <2>5. Cardinality(field') + rowsLeft' <= meet'.rows
    <3>1. Cardinality(field') = 0
      BY <2>1, FS_EmptySet
    <3>2. Cardinality(field) \in Nat /\ meet.rows \in Nat
      BY <1>0, FS_CardinalityType DEF Fair, IsField, Rule
    <3> QED BY <1>0, <2>1, <3>1, <3>2
  <2>6. DOMAIN points' = {}
    BY <2>1
  <2> QED BY <1>0, <2>1, <2>2, <2>3, <2>4, <2>5, <2>6 DEF MeetInv
<1>3. ASSUME NEW a \in meet.teams \X Number, NEW tier \in Tiers, NEW kind \in {"legal", "exhibition", "disqualified"},
             NEW tied \in BOOLEAN, ReadRow(a, tier, kind, tied)
      PROVE  MeetInv'
  <2> DEFINE rank == IF tied THEN Max({r.rank : r \in InTier(tier)}) ELSE Base(tier) + Cardinality(InTier(tier)) + 1
             z == [who |-> a, tier |-> tier, rank |-> rank, kind |-> kind]
  <2>1. /\ stage = "reading" /\ rowsLeft > 0 /\ a \notin Names(field)
        /\ tier \in {"A", "B"} => Cardinality(InTier(tier)) < Bracket
        /\ tied => InTier(tier) # {}
        /\ field' = field \cup {z} /\ rowsLeft' = rowsLeft - 1
        /\ UNCHANGED <<stage, meet, event, pool, points, before, eventsLeft>>
    BY <1>3 DEF ReadRow
  <2>2. a \in Athlete
    BY <1>0 DEF Rule, Athlete
  <2>3. z \notin field /\ Fair(field \cup {z})
    BY <1>0, <2>1, <2>2, RowRead
  <2> HIDE DEF z
  <2>4. Fair(field)'
    <3>1. Fair(field \cup {z})
      BY <2>3
    <3> DEFINE g == field \cup {z}
    <3>2. Fair(g)
      BY <3>1
    <3> QED BY <2>1, <3>2 DEF Fair, Printed, Base, Ahead, Tiers, InRound, IsField, Rounds
  <2>5. Cardinality(field') + rowsLeft' <= meet'.rows /\ rowsLeft' \in Nat
    <3>1. IsFiniteSet(field) /\ Cardinality(field) \in Nat /\ meet.rows \in Nat
      BY <1>0, FS_CardinalityType DEF Fair, IsField, Rule
    <3>2. Cardinality(field \cup {z}) = Cardinality(field) + 1
      BY <2>3, <3>1, FS_AddElement
    <3> QED BY <1>0, <2>1, <3>1, <3>2
  <2>6. DOMAIN points = {} /\ before = pool
    BY <2>1 DEF MeetInv
  <2> QED BY <1>0, <2>1, <2>4, <2>5, <2>6 DEF MeetInv
<1>4. ASSUME ScoreEvent PROVE MeetInv'
  <2>1. /\ stage = "reading" /\ stage' = "scored"
        /\ points' = Scored(meet, event, field, pool).points /\ pool' = Scored(meet, event, field, pool).pool
        /\ UNCHANGED <<meet, event, field, before, rowsLeft, eventsLeft>>
    BY <1>4 DEF ScoreEvent
  <2>2. before = pool
    BY <2>1 DEF MeetInv
  <2>3. pool' \in [Athlete -> {0, 1, 3}]
    BY <1>0, <2>1, ScoredGives
  <2>4. Settled'
    BY <2>1, <2>2 DEF Settled
  <2>5. Fair(field)'
    <3>1. Fair(field)
      BY <1>0
    <3> QED BY <2>1, <3>1 DEF Fair, Printed, Base, Ahead, Tiers, InRound, IsField, Rounds
  <2>6. stage' # "settings" /\ stage' # "between"
    BY <2>1
  <2>7. Cardinality(field') + rowsLeft' <= meet'.rows
    BY <1>0, <2>1
  <2> QED BY <1>0, <2>1, <2>3, <2>4, <2>5, <2>6, <2>7 DEF MeetInv
<1>5. CASE UNCHANGED scoringVars
  <2>1. Fair(field)'
    <3>1. Fair(field) /\ field' = field /\ event' = event
      BY <1>0, <1>5 DEF scoringVars
    <3> QED BY <3>1 DEF Fair, Printed, Base, Ahead, Tiers, InRound, IsField, Rounds
  <2> QED BY <1>5, <2>1 DEF scoringVars, MeetInv, Settled
<1> QED BY <1>1, <1>2, <1>3, <1>4, <1>5 DEF ScoringNext

(* While a meet is read, its rows keep the ranks of a competition, and     *)
(* what has been scored are the rows read (scoreScoringPoolByEvent).       *)
THEOREM AlwaysReading == ScoringSpec => []MeetInv
<1>1. ScoringInit => MeetInv
  BY ReadingInit
<1>2. MeetInv /\ [ScoringNext]_scoringVars => MeetInv'
  BY ReadingStep
<1> QED BY <1>1, <1>2, PTL DEF ScoringSpec

(* Points are whole, and every athlete weighs nothing, a third or a whole  *)
(* swimmer in the pool (scorerWeightForEvent).                             *)
THEOREM ScoringTypeCorrect == ScoringSpec => []ScoringTypeOK
<1>1. MeetInv => ScoringTypeOK
  <2> SUFFICES ASSUME MeetInv PROVE ScoringTypeOK
    OBVIOUS
  <2>1. \A r \in field : r.who \in Athlete /\ r.tier \in Tiers /\ r.rank \in Nat \ {0}
    BY DEF MeetInv, Fair, IsField, Row
  <2>2. \A a \in DOMAIN points : points[a] \in Nat
    <3>1. CASE stage = "scored"
      <4>1. meet \in Rule /\ Fair(field) /\ event \in Kind /\ before \in [Athlete -> {0, 1, 3}] /\ Settled
        BY <3>1, RulesAre DEF MeetInv
      <4>2. points \in [Names(field) -> Nat]
        BY <4>1, ScoredGives DEF Settled
      <4> QED BY <4>2
    <3>2. CASE stage # "scored"
      BY <3>2 DEF MeetInv
    <3> QED BY <3>1, <3>2
  <2> QED BY <2>1, <2>2 DEF MeetInv, ScoringTypeOK
<1> QED BY <1>1, AlwaysReading, PTL

(* What an event's points and pool come from, once it is scored. *)
LEMMA OnceScored ==
  ASSUME MeetInv, stage = "scored" PROVE Scene /\ Settled /\ Shared /\ before \in [Athlete -> {0, 1, 3}]
<1>1. meet \in Rule /\ event \in Kind /\ Fair(field) /\ before \in [Athlete -> {0, 1, 3}] /\ Settled
  BY RulesAre DEF MeetInv
<1>2. before \in [Athlete -> Nat]
  BY <1>1
<1>3. Cardinality(field) <= meet.rows /\ meet.rows \in Nat
  <2>1. Cardinality(field) \in Nat /\ meet.rows \in Nat
    BY <1>1, FS_CardinalityType DEF Fair, IsField, Rule
  <2> QED BY <2>1 DEF MeetInv
<1>4. Divides(meet.rows)
  <2>1. CASE meet \in Meet
    BY <2>1, TableIsShared DEF Divides
  <2>2. CASE meet = NoRules
    <3>1. meet.rows = 0
      BY <2>2, NoRulesIs
    <3> QED BY <3>1 DEF Divides
  <2> QED BY <2>1, <2>2 DEF MeetInv
<1> QED BY <1>1, <1>2, <1>3, <1>4 DEF Scene, Shared

(* A tie shares what stands at the places it takes, counted from how many  *)
(* finished ahead (tiedPlaceShare, placeRowIndex), and no event pays more  *)
(* than its table, whoever is moved up or struck.  The table is any, places *)
(* worth 0 included.                                                       *)
THEOREM TablesArePaid == ScoringSpec => []PlacesPayTheTable
<1>1. MeetInv => PlacesPayTheTable
  <2> SUFFICES ASSUME MeetInv PROVE PlacesAreCounted /\ EventPaysItsTable
    BY DEF PlacesPayTheTable
  <2>1. CASE stage = "scored"
    BY <2>1, OnceScored, PlacesCounted, EventPays
  <2>2. CASE stage # "scored"
    BY <2>2 DEF PlacesAreCounted, EventPaysItsTable
  <2> QED BY <2>1, <2>2
<1> QED BY <1>1, AlwaysReading, PTL
-----------------------------------------------------------------------------
(* Caps.  An event cap counts entries and the pool weighs swimmers, each   *)
(* by name; base is what a team has taken before, unit what one more takes. *)

LEMMA SlotsFill ==
  ASSUME NEW fresh, IsFiniteSet(fresh), fresh \subseteq Athlete, NEW t, NEW base \in Nat, NEW unit \in {1, 3}, NEW cap \in Nat,
         NEW in \in SUBSET fresh, \A a \in Of(fresh, t) : a \in in <=> base + unit * Cardinality(Earlier(fresh, a)) <= cap
  PROVE  /\ Cardinality(Of(in, t)) \in Nat
         /\ base <= cap => base + unit * Cardinality(Of(in, t)) <= cap
         /\ Of(fresh, t) \ in # {} => base + unit * Cardinality(Of(in, t)) + unit > cap
<1> DEFINE A == Of(in, t)
           B == Of(fresh, t) \ in
<1>1. A \subseteq fresh /\ IsFiniteSet(A) /\ Cardinality(A) \in Nat
  <2>1. A \subseteq fresh
    BY DEF Of
  <2> QED BY <2>1, FS_Subset, FS_CardinalityType
<1>2. \A a \in fresh : a[2] \in Nat /\ a = <<a[1], a[2]>>
  <2> SUFFICES ASSUME NEW a \in fresh PROVE a[2] \in Nat /\ a = <<a[1], a[2]>>
    OBVIOUS
  <2>1. a \in Club \X Number
    BY DEF Athlete
  <2>2. a[2] \in Number /\ a = <<a[1], a[2]>>
    BY <2>1
  <2> QED BY <2>2, MeetSizes
<1>3. ASSUME NEW a \in fresh
      PROVE  IsFiniteSet(Earlier(fresh, a)) /\ Cardinality(Earlier(fresh, a)) \in Nat /\ a \in Earlier(fresh, a)
  <2>1. Earlier(fresh, a) \subseteq fresh /\ a \in Earlier(fresh, a)
    BY <1>2 DEF Earlier
  <2> QED BY <2>1, FS_Subset, FS_CardinalityType
<1>4. base <= cap => base + unit * Cardinality(A) <= cap
  <2>1. CASE A = {}
    <3>1. Cardinality(A) = 0
      BY <2>1, FS_EmptySet
    <3> HIDE DEF A
    <3> QED BY <3>1
  <2>2. CASE A # {}
    <3> DEFINE ns == {a[2] : a \in A}
    <3>1. IsFiniteSet(ns) /\ ns # {} /\ ns \subseteq Int
      <4>1. IsFiniteSet(ns)
        BY <1>1, NumberSet
      <4> QED BY <1>1, <1>2, <2>2, <4>1
    <3>2. Max(ns) \in ns /\ \A n \in ns : n <= Max(ns)
      <4> HIDE DEF ns
      <4> QED BY <3>1, Greatest
    <3>3. PICK b \in A : \A a \in A : a[2] <= b[2]
      BY <3>2
    <3>4. b \in fresh /\ b[1] = t /\ b \in in /\ b \in Of(fresh, t) /\ \A a \in A : a[1] = t
      BY <3>3 DEF Of
    <3>5. A \subseteq Earlier(fresh, b)
      BY <1>1, <3>3, <3>4 DEF Earlier
    <3>6. Cardinality(A) <= Cardinality(Earlier(fresh, b)) /\ Cardinality(Earlier(fresh, b)) \in Nat
      BY <1>3, <3>4, <3>5, FS_Subset
    <3>7. base + unit * Cardinality(Earlier(fresh, b)) <= cap
      BY <3>4
    <3> HIDE DEF A
    <3> QED BY <1>1, <3>6, <3>7
  <2> QED BY <2>1, <2>2
<1>5. ASSUME B # {} PROVE base + unit * Cardinality(A) + unit > cap
  <2>1. B \subseteq fresh /\ \A a \in B : a[1] = t
    BY DEF Of
  <2> DEFINE ns == {a[2] : a \in B}
  <2>2. ns \in SUBSET Nat /\ ns # {}
    BY <1>2, <1>5, <2>1
  <2>3. \E n \in ns : \A m \in ns : n <= m
    <3> HIDE DEF ns
    <3> QED BY <2>2, LeastNumber
  <2>4. PICK b \in B : \A a \in B : b[2] <= a[2]
    BY <2>3
  <2>5. b \in fresh /\ b[1] = t /\ b \notin in /\ b \in Of(fresh, t)
    BY <2>4 DEF Of
  <2> DEFINE e == Earlier(fresh, b)
  <2>6. e \ {b} \subseteq A
    <3> SUFFICES ASSUME NEW c \in e \ {b} PROVE c \in A
      OBVIOUS
    <3>1. c \in fresh /\ c[1] = t /\ c[2] <= b[2]
      BY <2>5 DEF Earlier
    <3>2. c[2] # b[2] /\ c[2] \in Nat /\ b[2] \in Nat
      BY <1>2, <2>5, <3>1
    <3>3. c \notin B
      BY <2>4, <3>1, <3>2
    <3> QED BY <3>1, <3>3 DEF Of
  <2>7. IsFiniteSet(e) /\ Cardinality(e) \in Nat /\ b \in e
    BY <1>3, <2>5
  <2>8. Cardinality(e \ {b}) = Cardinality(e) - 1
    BY <2>7, FS_RemoveElement
  <2>9. Cardinality(e \ {b}) <= Cardinality(A)
    BY <1>1, <2>6, FS_Subset
  <2>10. ~(base + unit * Cardinality(e) <= cap)
    BY <2>5
  <2> HIDE DEF e, A, B
  <2> QED BY <1>1, <2>7, <2>8, <2>9, <2>10
<1> QED BY <1>1, <1>4, <1>5

(* The weight of a team is a sum, and goes up by what is added to each. *)
Weights(p, t) == [n \in Number |-> p[<<t, n>>]]

LEMMA TeamWeightIs ==
  ASSUME NEW p \in [Athlete -> Nat], NEW t \in Club
  PROVE  TeamWeight(p, t) = Total(Weights(p, t), Number) /\ TeamWeight(p, t) \in Nat
<1> DEFINE S == Number
           F == Weights(p, t)
           it == CHOOSE iter : iter = [s \in SUBSET S |-> IF s = {} THEN 0 ELSE p[<<t, Picked(s)>>] + iter[s \ {Picked(s)}]]
<1>0. IsFiniteSet(S)
  BY MeetSizes
<1>1. PICK g : Sums(g, F, S)
  BY <1>0, SumsExist
<1>2. ASSUME NEW s \in SUBSET S, s # {} PROVE F[Picked(s)] = p[<<t, Picked(s)>>]
  BY <1>2, PickedIsIn DEF Weights
<1>3. g = [s \in SUBSET S |-> IF s = {} THEN 0 ELSE p[<<t, Picked(s)>>] + g[s \ {Picked(s)}]]
  <2>1. ASSUME NEW s \in SUBSET S PROVE g[s] = IF s = {} THEN 0 ELSE p[<<t, Picked(s)>>] + g[s \ {Picked(s)}]
    BY <1>1, <1>2 DEF Sums
  <2>2. g = [s \in SUBSET S |-> g[s]]
    BY <1>1 DEF Sums
  <2> QED BY <2>1, <2>2
<1>4. it = [s \in SUBSET S |-> IF s = {} THEN 0 ELSE p[<<t, Picked(s)>>] + it[s \ {Picked(s)}]]
  BY <1>3
<1>5. Sums(it, F, S)
  <2> HIDE DEF it, F
  <2>1. ASSUME NEW s \in SUBSET S PROVE it[s] = IF s = {} THEN 0 ELSE F[Picked(s)] + it[s \ {Picked(s)}]
    BY <1>2, <1>4
  <2>2. it = [s \in SUBSET S |-> it[s]]
    BY <1>4
  <2> QED BY <2>1, <2>2 DEF Sums
<1>6. TeamWeight(p, t) = it[S]
  BY DEF TeamWeight, MapThenSumSet, MapThenFoldSet, Picked
<1>7. PICK h : Sums(h, F, S) /\ Total(F, S) = h[S]
  BY <1>0, SumIsOfSums
<1>8. it[S] = h[S]
  <2> HIDE DEF it, F
  <2> QED BY <1>0, <1>5, <1>7, SumsAgree
<1>9. Total(F, S) \in Nat
  <2>1. \A n \in S : F[n] \in Nat
    BY DEF Weights, Athlete
  <2> HIDE DEF F
  <2> QED BY <1>0, <2>1, SumIsNat
<1> QED BY <1>6, <1>7, <1>8, <1>9

LEMMA TeamCount ==
  ASSUME NEW t \in Club, NEW A \in SUBSET Athlete
  PROVE  /\ IsFiniteSet(Of(A, t)) /\ Cardinality(Of(A, t)) = Cardinality({n \in Number : <<t, n>> \in A})
         /\ Cardinality(Of(A, t)) \in Nat /\ Cardinality(Number) \in Nat /\ Cardinality(Of(A, t)) <= Cardinality(Number)
<1> DEFINE B == {n \in Number : <<t, n>> \in A}
           m == [n \in B |-> <<t, n>>]
<1>1. IsFiniteSet(Number) /\ IsFiniteSet(B) /\ B \in SUBSET Number
  BY MeetSizes, FS_Subset
<1>2. {m[n] : n \in B} = Of(A, t)
  <2>1. ASSUME NEW a \in Of(A, t) PROVE \E n \in B : a = m[n]
    <3>1. a \in A /\ a \in Club \X Number /\ a[1] = t
      BY DEF Of, Athlete
    <3>2. a[2] \in Number /\ a = <<t, a[2]>>
      BY <3>1
    <3>3. a[2] \in B /\ m[a[2]] = a
      BY <3>1, <3>2
    <3> QED BY <3>3
  <2>2. \A n \in B : m[n] \in Of(A, t)
    BY DEF Of
  <2> HIDE DEF B, m
  <2> QED BY <2>1, <2>2
<1>3. IsFiniteSet(Of(A, t)) /\ Cardinality(Of(A, t)) = Cardinality(B)
  <2>1. \A x \in B, y \in B : m[x] = m[y] => x = y
    OBVIOUS
  <2> HIDE DEF m, B
  <2>2. IsFiniteSet({m[n] : n \in B}) /\ Cardinality({m[n] : n \in B}) = Cardinality(B)
    BY <1>1, <2>1, ImageCount
  <2> QED BY ONLY <1>2, <2>2
<1>4. Cardinality(B) \in Nat /\ Cardinality(Number) \in Nat /\ Cardinality(B) <= Cardinality(Number)
  BY <1>1, FS_Subset, FS_CardinalityType
<1> QED BY <1>3, <1>4

LEMMA WeightRises ==
  ASSUME NEW p \in [Athlete -> Nat], NEW q \in [Athlete -> Nat], NEW t \in Club, NEW A \in SUBSET Athlete, NEW k \in Nat,
         \A a \in Of(A, t) : q[a] = p[a] + k, \A n \in Number : <<t, n>> \notin A => q[<<t, n>>] = p[<<t, n>>]
  PROVE  TeamWeight(q, t) = TeamWeight(p, t) + k * Cardinality(Of(A, t))
<1> DEFINE B == {n \in Number : <<t, n>> \in A}
           P == Weights(p, t)
           Q == Weights(q, t)
<1>1. IsFiniteSet(Number) /\ B \in SUBSET Number
  BY MeetSizes
<1>2. Cardinality(Of(A, t)) = Cardinality(B)
  BY TeamCount
<1>3. /\ \A n \in Number : P[n] \in Nat
      /\ \A n \in B : Q[n] = P[n] + k
      /\ \A n \in Number \ B : Q[n] = P[n]
  <2>1. \A n \in Number : <<t, n>> \in Athlete /\ P[n] = p[<<t, n>>] /\ Q[n] = q[<<t, n>>]
    BY DEF Weights, Athlete
  <2>2. \A n \in B : <<t, n>> \in Of(A, t)
    BY DEF Of
  <2> HIDE DEF P, Q
  <2> QED BY <2>1, <2>2
<1> HIDE DEF P, Q, B
<1>4. Total(Q, Number) = Total(P, Number) + k * Cardinality(B)
  BY <1>1, <1>3, TotalRaised
<1> QED BY <1>2, <1>4, TeamWeightIs DEF P, Q

(* Either cap in one form: who counts of a group that comes in, how much   *)
(* each of them takes, and what the team has taken.                        *)
Weighed(rule, ev) == Limit(rule, ev).scope = "meet"
Fresh(rule, ev, acc, names) == IF Weighed(rule, ev) THEN {a \in names : acc.pool[a] = 0} ELSE names
Unit(rule, ev) == IF Weighed(rule, ev) THEN Weight(ev) ELSE 1
Load(rule, ev, acc, t) == IF Weighed(rule, ev) THEN TeamWeight(acc.pool, t) ELSE acc.used[t]
Cap(rule, ev) == Limit(rule, ev).cap
Counts(rule, ev, acc, g) == Fresh(rule, ev, acc, Entered(rule, ev, g))

LEMMA LoadIs ==
  ASSUME NEW f, NEW rule \in Rule, NEW ev \in Kind, NEW acc \in Standing(f), NEW t \in Club
  PROVE  Load(rule, ev, acc, t) \in Nat /\ Unit(rule, ev) \in {1, 3} /\ Cap(rule, ev) \in Nat
<1>1. acc.pool \in [Athlete -> Nat] /\ acc.used \in [Club -> Nat]
  BY DEF Standing
<1>2. Load(rule, ev, acc, t) \in Nat
  BY <1>1, TeamWeightIs DEF Load
<1>3. Unit(rule, ev) \in {1, 3}
  BY WeightIs DEF Unit
<1>4. Cap(rule, ev) \in Nat
  BY LimitIsRule DEF Cap, Rule
<1> QED BY <1>2, <1>3, <1>4

LEMMA WeighedIs ==
  ASSUME NEW rule \in Rule, NEW ev
  PROVE  /\ Weighed(rule, ev) => ByPool(rule, ev)
         /\ ~Uncapped(rule, ev) /\ ~Weighed(rule, ev) => Limit(rule, ev).scope = "event"
<1>1. Weighed(rule, ev) => ByPool(rule, ev)
  <2>1. ASSUME Weighed(rule, ev), ev = "relay" PROVE FALSE
    <3>1. Limit(rule, ev).scope = "event"
      BY <2>1 DEF Limit, Rule
    <3> QED BY <2>1, <3>1 DEF Weighed
  <2>2. ASSUME Weighed(rule, ev), ev # "relay" PROVE rule.scope = "meet"
    BY <2>2 DEF Weighed, Limit
  <2> QED BY <2>1, <2>2 DEF ByPool
<1>2. ~Uncapped(rule, ev) /\ ~Weighed(rule, ev) => Limit(rule, ev).scope = "event"
  <2>1. Limit(rule, ev).scope \in {"none", "event", "meet"}
    BY LimitIsRule DEF Rule
  <2> QED BY <2>1 DEF Uncapped, Weighed
<1> QED BY <1>1, <1>2

LEMMA TakenFills ==
  ASSUME NEW f, IsField(f), NEW rule \in Rule, NEW ev \in Kind, NEW acc \in Standing(f), NEW g \in SUBSET f, ~Uncapped(rule, ev)
  PROVE  LET in == Entered(rule, ev, g)
             fresh == Counts(rule, ev, acc, g)
         IN  /\ in \subseteq Names(f) /\ in \subseteq Athlete /\ fresh \subseteq in /\ IsFiniteSet(fresh)
             /\ \A a \in in : a \in Taken(rule, ev, acc, g)
                                <=> a \notin fresh \/ Load(rule, ev, acc, a[1]) + Unit(rule, ev) * Cardinality(Earlier(fresh, a)) <= Cap(rule, ev)
<1> DEFINE in == Entered(rule, ev, g)
           fresh == Counts(rule, ev, acc, g)
           taken == Taken(rule, ev, acc, g)
<1>1. in \subseteq Names(f) /\ in \subseteq Athlete /\ in \subseteq Names(Eligible(g)) /\ IsFiniteSet(Names(Eligible(g)))
  BY PaidIsIn, NamesPart
<1>2. fresh \subseteq in /\ IsFiniteSet(fresh)
  <2>1. fresh \subseteq in
    BY DEF Counts, Fresh
  <2> QED BY <1>1, <2>1, FS_Subset
<1>3. ASSUME NEW a \in in, Weighed(rule, ev)
      PROVE  a \in taken <=> a \notin fresh \/ Load(rule, ev, acc, a[1]) + Unit(rule, ev) * Cardinality(Earlier(fresh, a)) <= Cap(rule, ev)
  <2>1. fresh = {b \in in : acc.pool[b] = 0}
    BY <1>3 DEF Counts, Fresh
  <2>2. Earlier(fresh, a) = {b \in Earlier(in, a) : acc.pool[b] = 0}
    BY <2>1 DEF Earlier
  <2>3. a \notin fresh <=> acc.pool[a] > 0
    <3>1. acc.pool[a] \in Nat
      BY <1>1 DEF Standing
    <3> HIDE DEF in, fresh
    <3> QED BY <1>3, <2>1, <3>1
  <2>4. taken = {b \in in : \/ acc.pool[b] > 0
                            \/ TeamWeight(acc.pool, b[1]) + Weight(ev) * Cardinality({c \in Earlier(in, b) : acc.pool[c] = 0}) <= Limit(rule, ev).cap}
    <3>1. Limit(rule, ev).scope = "meet"
      BY <1>3 DEF Weighed
    <3> QED BY <3>1 DEF Taken, Admitted
  <2>5. Load(rule, ev, acc, a[1]) = TeamWeight(acc.pool, a[1]) /\ Unit(rule, ev) = Weight(ev) /\ Cap(rule, ev) = Limit(rule, ev).cap
    BY <1>3 DEF Load, Unit, Cap
  <2> HIDE DEF in, fresh, taken
  <2> QED BY <1>3, <2>2, <2>3, <2>4, <2>5
<1>4. ASSUME NEW a \in in, ~Weighed(rule, ev)
      PROVE  a \in taken <=> a \notin fresh \/ Load(rule, ev, acc, a[1]) + Unit(rule, ev) * Cardinality(Earlier(fresh, a)) <= Cap(rule, ev)
  <2>1. fresh = in
    BY <1>4 DEF Counts, Fresh
  <2>2. taken = {b \in in : acc.used[b[1]] + Cardinality(Earlier(in, b)) <= Limit(rule, ev).cap}
    <3>1. Limit(rule, ev).scope = "event"
      BY <1>4, WeighedIs
    <3> QED BY <3>1 DEF Taken, Admitted
  <2>3. Load(rule, ev, acc, a[1]) = acc.used[a[1]] /\ Unit(rule, ev) = 1 /\ Cap(rule, ev) = Limit(rule, ev).cap
    BY <1>4 DEF Load, Unit, Cap
  <2>4. Cardinality(Earlier(in, a)) \in Nat
    <3>1. Earlier(in, a) \subseteq fresh
      BY <2>1 DEF Earlier
    <3> QED BY <1>2, <3>1, FS_Subset, FS_CardinalityType
  <2>5. 1 * Cardinality(Earlier(in, a)) = Cardinality(Earlier(in, a))
    BY <2>4
  <2> HIDE DEF in, fresh, taken
  <2> QED BY <1>4, <2>1, <2>2, <2>3, <2>5
<1> QED BY <1>1, <1>2, <1>3, <1>4

LEMMA LoadGrows ==
  ASSUME NEW f, IsField(f), NEW rule \in Rule, NEW ev \in Kind, NEW acc \in Standing(f), NEW g \in SUBSET f, NEW s,
         Leaves(s, f, rule, ev, acc, g), ~Uncapped(rule, ev), NEW t \in Club
  PROVE  /\ Load(rule, ev, s, t) = Load(rule, ev, acc, t)
                                     + Unit(rule, ev) * Cardinality(Of(Paid(rule, ev, acc, g) \cap Counts(rule, ev, acc, g), t))
         /\ Load(rule, ev, acc, t) <= Load(rule, ev, s, t)
<1> DEFINE paid == Paid(rule, ev, acc, g)
           fresh == Counts(rule, ev, acc, g)
           A == paid \cap fresh
<1>0. acc \in Standing(f) /\ s \in Standing(f) /\ acc.pool \in [Athlete -> Nat] /\ s.pool \in [Athlete -> Nat]
  BY DEF Leaves, Standing
<1>1. A \in SUBSET Athlete /\ IsFiniteSet(A) /\ fresh \subseteq Entered(rule, ev, g) /\ paid \subseteq Entered(rule, ev, g)
  <2>1. fresh \subseteq Entered(rule, ev, g) /\ Entered(rule, ev, g) \subseteq Athlete /\ IsFiniteSet(fresh)
    BY TakenFills
  <2>2. paid \subseteq Entered(rule, ev, g)
    BY PaidIsIn
  <2> HIDE DEF paid, fresh
  <2> QED BY <2>1, <2>2, FS_Subset
<1>2. Load(rule, ev, s, t) = Load(rule, ev, acc, t) + Unit(rule, ev) * Cardinality(Of(A, t))
  <2>1. CASE Weighed(rule, ev)
    <3>1. ByPool(rule, ev)
      BY <2>1, WeighedIs
    <3>2. \A a \in Athlete : s.pool[a] = IF a \in paid /\ acc.pool[a] = 0 THEN Weight(ev) ELSE acc.pool[a]
      BY <3>1 DEF Leaves
    <3>3. \A a \in Entered(rule, ev, g) : a \in fresh <=> acc.pool[a] = 0
      BY <2>1 DEF Counts, Fresh
    <3>4. Weight(ev) \in Nat
      BY WeightIs
    <3> HIDE DEF paid, fresh
    <3>5. \A a \in Of(A, t) : s.pool[a] = acc.pool[a] + Weight(ev)
      <4> SUFFICES ASSUME NEW a \in Of(A, t) PROVE s.pool[a] = acc.pool[a] + Weight(ev)
        OBVIOUS
      <4>1. a \in paid /\ a \in fresh /\ a \in Athlete
        BY <1>1 DEF Of
      <4>2. acc.pool[a] = 0 /\ s.pool[a] = Weight(ev)
        BY <1>1, <3>2, <3>3, <4>1
      <4> QED BY <3>4, <4>2
    <3>6. \A n \in Number : <<t, n>> \notin A => s.pool[<<t, n>>] = acc.pool[<<t, n>>]
      <4> SUFFICES ASSUME NEW n \in Number, <<t, n>> \notin A PROVE s.pool[<<t, n>>] = acc.pool[<<t, n>>]
        OBVIOUS
      <4>1. <<t, n>> \in Athlete
        BY DEF Athlete
      <4>2. <<t, n>> \in paid => acc.pool[<<t, n>>] # 0
        BY <1>1, <3>3
      <4> QED BY <3>2, <4>1, <4>2
    <3> HIDE DEF A
    <3>7. TeamWeight(s.pool, t) = TeamWeight(acc.pool, t) + Weight(ev) * Cardinality(Of(A, t))
      BY <1>0, <1>1, <3>4, <3>5, <3>6, WeightRises
    <3> QED BY <2>1, <3>7 DEF Load, Unit
  <2>2. CASE ~Weighed(rule, ev)
    <3>1. A = paid
      BY <1>1, <2>2 DEF Counts, Fresh
    <3>2. s.used[t] = acc.used[t] + Cardinality(Of(A, t))
      BY <3>1 DEF Leaves
    <3>3. Cardinality(Of(A, t)) \in Nat
      <4>1. Of(A, t) \subseteq A
        BY DEF Of
      <4> QED BY <1>1, <4>1, FS_Subset, FS_CardinalityType
    <3> HIDE DEF A
    <3>4. 1 * Cardinality(Of(A, t)) = Cardinality(Of(A, t))
      BY <3>3
    <3> QED BY <2>2, <3>2, <3>4 DEF Load, Unit
  <2> QED BY <2>1, <2>2
<1>3. Cardinality(Of(A, t)) \in Nat
  <2>1. Of(A, t) \subseteq A
    BY DEF Of
  <2> QED BY <1>1, <2>1, FS_Subset, FS_CardinalityType
<1>4. Load(rule, ev, acc, t) \in Nat /\ Unit(rule, ev) \in {1, 3} /\ Load(rule, ev, s, t) \in Nat
  BY <1>0, LoadIs
<1> HIDE DEF A
<1>5. Load(rule, ev, acc, t) <= Load(rule, ev, s, t)
  BY <1>2, <1>3, <1>4
<1> QED BY <1>2, <1>5 DEF A

(* A group keeps to the cap, and leaves it full if it turns anyone away. *)
LEMMA CapFills ==
  ASSUME NEW f, IsField(f), NEW rule \in Rule, NEW ev \in Kind, NEW acc \in Standing(f), NEW g \in SUBSET f, NEW s,
         Leaves(s, f, rule, ev, acc, g), ~Uncapped(rule, ev), NEW t \in Club
  PROVE  /\ Load(rule, ev, acc, t) <= Cap(rule, ev) => Load(rule, ev, s, t) <= Cap(rule, ev)
         /\ \A a \in Entered(rule, ev, g) : a[1] = t /\ a \notin Taken(rule, ev, acc, g) /\ Reached(ev, acc, g)
              => a \in Counts(rule, ev, acc, g) /\ Load(rule, ev, s, t) + Unit(rule, ev) > Cap(rule, ev)
<1> DEFINE in == Entered(rule, ev, g)
           fresh == Counts(rule, ev, acc, g)
           taken == Taken(rule, ev, acc, g)
           paid == Paid(rule, ev, acc, g)
           base == Load(rule, ev, acc, t)
           unit == Unit(rule, ev)
           cap == Cap(rule, ev)
           let == taken \cap fresh
<1>1. /\ in \subseteq Athlete /\ fresh \subseteq in /\ IsFiniteSet(fresh)
      /\ \A a \in in : a \in taken <=> a \notin fresh \/ Load(rule, ev, acc, a[1]) + unit * Cardinality(Earlier(fresh, a)) <= cap
  BY TakenFills
<1>2. base \in Nat /\ unit \in {1, 3} /\ cap \in Nat
  BY LoadIs
<1>3. Load(rule, ev, s, t) = base + unit * Cardinality(Of(paid \cap fresh, t))
  BY LoadGrows
<1>4. /\ Cardinality(Of(let, t)) \in Nat
      /\ base <= cap => base + unit * Cardinality(Of(let, t)) <= cap
      /\ Of(fresh, t) \ let # {} => base + unit * Cardinality(Of(let, t)) + unit > cap
  <2>1. let \in SUBSET fresh /\ fresh \subseteq Athlete
    BY <1>1
  <2>2. \A a \in Of(fresh, t) : a \in let <=> base + unit * Cardinality(Earlier(fresh, a)) <= cap
    <3> SUFFICES ASSUME NEW a \in Of(fresh, t) PROVE a \in let <=> base + unit * Cardinality(Earlier(fresh, a)) <= cap
      OBVIOUS
    <3>1. a \in fresh /\ a \in in /\ a[1] = t
      BY <1>1 DEF Of
    <3> HIDE DEF in, fresh, taken, unit, cap
    <3> QED BY <1>1, <3>1
  <2> HIDE DEF in, fresh, taken, unit, cap, let, base
  <2> QED BY <1>1, <1>2, <2>1, <2>2, SlotsFill
<1>5. paid = taken \/ paid = {}
  BY DEF Paid
<1>6. Reached(ev, acc, g) => paid = taken
  BY DEF Paid
<1>7. Cardinality(Of({} \cap fresh, t)) = 0
  <2>1. Of({} \cap fresh, t) = {}
    BY DEF Of
  <2> QED BY <2>1, FS_EmptySet
<1> HIDE DEF in, fresh, taken, unit, cap, base, paid
<1>8. base <= cap => Load(rule, ev, s, t) <= cap
  <2>1. CASE paid = taken
    BY <1>3, <1>4, <2>1
  <2>2. CASE paid = {}
    <3>1. Load(rule, ev, s, t) = base + unit * 0
      BY <1>3, <1>7, <2>2
    <3> QED BY <1>2, <3>1
  <2> QED BY <1>5, <2>1, <2>2
<1>9. ASSUME NEW a \in in, a[1] = t, a \notin taken, Reached(ev, acc, g)
      PROVE  a \in fresh /\ Load(rule, ev, s, t) + unit > cap
  <2>1. a \in fresh
    BY <1>1, <1>9
  <2>2. Of(fresh, t) \ let # {}
    BY <1>9, <2>1 DEF Of
  <2>3. Load(rule, ev, s, t) = base + unit * Cardinality(Of(let, t))
    BY <1>3, <1>6, <1>9
  <2> HIDE DEF let
  <2> QED BY <1>2, <1>4, <2>1, <2>2, <2>3
<1> QED BY <1>8, <1>9 DEF in, fresh, taken, unit, cap, base

(* From group to group: what is taken goes up, and never past the cap. *)
LEMMA LoadRises ==
  ASSUME NEW f, IsField(f), NEW rule \in Rule, NEW ev \in Kind, NEW p \in [Athlete -> Nat], ~Uncapped(rule, ev), NEW t \in Club,
         NEW M \in 0 .. Len(Groups(f))
  PROVE  LET S == Standings(rule, ev, f, p)
         IN  \A i \in M .. Len(Groups(f)) :
               /\ Load(rule, ev, S[i], t) \in Nat
               /\ Load(rule, ev, S[M], t) <= Load(rule, ev, S[i], t)
               /\ Load(rule, ev, S[M], t) <= Cap(rule, ev) => Load(rule, ev, S[i], t) <= Cap(rule, ev)
<1> DEFINE S == Standings(rule, ev, f, p)
           N == Len(Groups(f))
           load(i) == Load(rule, ev, S[i], t)
           D == {i \in Nat : load(i) \in Nat /\ load(M) <= load(i) /\ (load(M) <= Cap(rule, ev) => load(i) <= Cap(rule, ev))}
<1>0. N \in Nat /\ M \in Nat /\ Cap(rule, ev) \in Nat
  <2>1. N \in Nat
    BY GroupFacts
  <2>2. Cap(rule, ev) \in Nat
    BY LimitIsRule DEF Cap, Rule
  <2> QED BY <2>1, <2>2
<1>1. /\ \A i \in 0 .. N : S[i] \in Standing(f)
      /\ \A i \in 1 .. N : S[i] = GroupScored(rule, ev, S[i - 1], Group(f, i))
  BY StandingsAre
<1>2. \A i \in 0 .. N : load(i) \in Nat
  <2> HIDE DEF S
  <2> QED BY <1>1, LoadIs
<1>3. M \in D
  <2>1. load(M) \in Nat
    BY <1>0, <1>2
  <2> HIDE DEF load
  <2> QED BY <1>0, <2>1
<1>4. ASSUME NEW i \in M + 1 .. N, i - 1 \in D PROVE i \in D
  <2>1. i \in Nat /\ i \in 1 .. N /\ i \in 0 .. N /\ i - 1 \in 0 .. N
    BY <1>0
  <2>2. Group(f, i) \in SUBSET f /\ S[i - 1] \in Standing(f) /\ S[i] = GroupScored(rule, ev, S[i - 1], Group(f, i))
    BY <1>1, <2>1, GroupFacts
  <2>3. Leaves(S[i], f, rule, ev, S[i - 1], Group(f, i))
    BY <2>2, GroupGives
  <2> HIDE DEF S
  <2>4. load(i - 1) <= load(i)
    BY <2>2, <2>3, LoadGrows
  <2>5. load(i - 1) <= Cap(rule, ev) => load(i) <= Cap(rule, ev)
    BY <2>2, <2>3, CapFills
  <2>6. load(i) \in Nat /\ load(M) \in Nat
    BY <1>0, <1>2, <2>1
  <2> HIDE DEF load
  <2> QED BY <1>0, <1>4, <2>1, <2>4, <2>5, <2>6
<1>5. \A i \in M .. N : i \in D
  <2>1. D \in SUBSET Nat
    OBVIOUS
  <2> HIDE DEF D
  <2> QED BY <1>0, <1>3, <1>4, <2>1, CountUpTo
<1> HIDE DEF S
<1> QED BY <1>5 DEF S

LEMMA PooledIsWeighed ==
  ASSUME NEW rule \in Rule, NEW ev, ByPool(rule, ev)
  PROVE  Weighed(rule, ev) /\ ~Uncapped(rule, ev) /\ Cap(rule, ev) = rule.cap /\ ~Relay(ev)
BY DEF ByPool, Weighed, Uncapped, Cap, Limit, Relay

LEMMA PoolStays ==
  ASSUME NEW f, IsField(f), NEW rule \in Rule, NEW ev \in Kind, NEW p \in [Athlete -> {0, 1, 3}], ~ByPool(rule, ev)
  PROVE  Standings(rule, ev, f, p)[Len(Groups(f))].pool = p
<1> DEFINE last == Standings(rule, ev, f, p)[Len(Groups(f))].pool
<1>1. last \in [Athlete -> {0, 1, 3}] /\ \A a \in Athlete : a \notin Names(f) => last[a] = p[a]
  BY FinalPool
<1>2. ASSUME NEW r \in f PROVE last[r.who] = p[r.who]
  <2>1. p \in [Athlete -> Nat]
    OBVIOUS
  <2> QED BY <2>1, RowEarns
<1>3. \A a \in Athlete : last[a] = p[a]
  <2> HIDE DEF last
  <2> QED BY <1>1, <1>2 DEF Names
<1> HIDE DEF last
<1>4. last = p
  BY <1>1, <1>3
<1> QED BY <1>4 DEF last

LEMMA ScoredPool ==
  ASSUME NEW f, Fair(f), NEW rule \in Rule, event \in Kind, NEW p \in [Athlete -> {0, 1, 3}]
  PROVE  LET q == Scored(rule, event, f, p).pool
         IN  /\ ~ByPool(rule, event) => q = p
             /\ ByPool(rule, event) /\ (\A t \in Club : TeamWeight(p, t) <= rule.cap) => \A t \in Club : TeamWeight(q, t) <= rule.cap
<1> DEFINE L == Lines(rule, event, f)
           S == Standings(rule, event, L, p)
           q == Scored(rule, event, f, p).pool
<1>1. IsField(L) /\ p \in [Athlete -> Nat]
  BY LinesFair
<1>2. q = S[Len(Groups(L))].pool
  <2> DEFINE last == Final(rule, event, f, p)
  <2>1. last = S[Len(Groups(L))]
    BY DEF Final
  <2>2. /\ q = last.pool
        /\ Scored(rule, event, f, p).points
             = [a \in Names(f) |-> IF a \in Names(OverPlaceCap(rule, event, f)) THEN 0 ELSE last.points[a]]
    BY ScoredIs
  <2> HIDE DEF q, last, S
  <2> QED BY <2>1, <2>2
<1> HIDE DEF L, q
<1>3. ~ByPool(rule, event) => q = p
  BY <1>1, <1>2, PoolStays
<1>4. ASSUME ByPool(rule, event), NEW t \in Club, TeamWeight(p, t) <= rule.cap PROVE TeamWeight(q, t) <= rule.cap
  <2>1. Weighed(rule, event) /\ ~Uncapped(rule, event) /\ Cap(rule, event) = rule.cap
    BY <1>4, PooledIsWeighed
  <2>2. 0 \in 0 .. Len(Groups(L)) /\ Len(Groups(L)) \in 0 .. Len(Groups(L))
    BY <1>1, GroupFacts
  <2>3. Load(rule, event, S[0], t) <= Cap(rule, event) => Load(rule, event, S[Len(Groups(L))], t) <= Cap(rule, event)
    <3> HIDE DEF S
    <3> QED BY <1>1, <2>1, <2>2, LoadRises DEF S
  <2>4. S[0].pool = p
    <3>1. S[0] = Nothing(L, p)
      BY <1>1, StandingsAre
    <3> QED BY <3>1 DEF Nothing
  <2> HIDE DEF S
  <2>5. Load(rule, event, S[0], t) = TeamWeight(p, t) /\ Load(rule, event, S[Len(Groups(L))], t) = TeamWeight(q, t)
    BY <1>2, <2>1, <2>4 DEF Load
  <2> QED BY <1>4, <2>1, <2>3, <2>5
<1> QED BY <1>3, <1>4 DEF q

(* The pool between the events, and that no other rule has one. *)
Pooling ==
  /\ meet.scope = "meet" => \A t \in Club : TeamWeight(pool, t) <= meet.cap
  /\ meet.scope # "meet" => pool = [a \in Athlete |-> 0] /\ before = pool

LEMMA NoWeight == \A t \in Club : TeamWeight([a \in Athlete |-> 0], t) = 0
<1> DEFINE p == [a \in Athlete |-> 0]
<1> SUFFICES ASSUME NEW t \in Club PROVE TeamWeight(p, t) = 0
  OBVIOUS
<1>1. p \in [Athlete -> Nat] /\ IsFiniteSet(Number)
  BY MeetSizes
<1>2. \A n \in Number : Weights(p, t)[n] = 0
  BY DEF Weights, Athlete
<1> HIDE DEF p
<1>3. Total(Weights(p, t), Number) = 0
  BY <1>1, <1>2, TotalOfZeros
<1> QED BY <1>1, <1>3, TeamWeightIs

LEMMA PoolingInit == ASSUME ScoringInit PROVE Pooling
BY NoRulesIs DEF ScoringInit, Pooling

LEMMA PoolingStep == ASSUME MeetInv, Pooling, [ScoringNext]_scoringVars PROVE Pooling'
<1>0. meet \in Rule /\ Fair(field) /\ event \in Kind /\ pool \in [Athlete -> {0, 1, 3}]
  BY RulesAre DEF MeetInv
<1>1. ASSUME NEW m \in Meet, SetUp(m) PROVE Pooling'
  <2>1. stage = "settings" /\ meet' = m /\ pool' = pool /\ before' = before
    BY <1>1 DEF SetUp
  <2>2. meet = NoRules
    BY <2>1 DEF MeetInv
  <2>3. pool = [a \in Athlete |-> 0] /\ before = pool
    BY <2>2, NoRulesIs DEF Pooling
  <2>4. m.cap \in Nat
    BY MeetSizes DEF Rule
  <2>5. \A t \in Club : TeamWeight(pool, t) <= m.cap
    BY <2>3, <2>4, NoWeight
  <2> QED BY <2>1, <2>3, <2>5 DEF Pooling
<1>2. ASSUME NEW kind \in meet.kinds, OpenEvent(kind) PROVE Pooling'
  BY <1>2 DEF OpenEvent, Pooling
<1>3. ASSUME NEW a \in meet.teams \X Number, NEW tier \in Tiers, NEW kind \in {"legal", "exhibition", "disqualified"},
             NEW tied \in BOOLEAN, ReadRow(a, tier, kind, tied)
      PROVE  Pooling'
  <2>1. UNCHANGED <<meet, pool, before>>
    BY <1>3 DEF ReadRow
  <2> QED BY <2>1 DEF Pooling
<1>4. ASSUME ScoreEvent PROVE Pooling'
  <2>1. stage = "reading" /\ pool' = Scored(meet, event, field, pool).pool /\ meet' = meet /\ before' = before
    BY <1>4 DEF ScoreEvent
  <2>2. before = pool
    BY <2>1 DEF MeetInv
  <2>3. CASE meet.scope = "meet"
    <3>1. \A t \in Club : TeamWeight(pool, t) <= meet.cap
      BY <2>3 DEF Pooling
    <3>2. \A t \in Club : TeamWeight(pool', t) <= meet.cap
      <4>1. CASE ByPool(meet, event)
        BY <1>0, <2>1, <3>1, <4>1, ScoredPool
      <4>2. CASE ~ByPool(meet, event)
        BY <1>0, <2>1, <3>1, <4>2, ScoredPool
      <4> QED BY <4>1, <4>2
    <3> QED BY <2>1, <2>3, <3>2 DEF Pooling
  <2>4. CASE meet.scope # "meet"
    <3>1. ~ByPool(meet, event)
      BY <2>4 DEF ByPool
    <3>2. pool' = pool
      BY <1>0, <2>1, <3>1, ScoredPool
    <3> QED BY <2>1, <2>2, <2>4, <3>2 DEF Pooling
  <2> QED BY <2>3, <2>4
<1>5. CASE UNCHANGED scoringVars
  BY <1>5 DEF scoringVars, Pooling
<1> QED BY <1>1, <1>2, <1>3, <1>4, <1>5 DEF ScoringNext
-----------------------------------------------------------------------------
(* A cap takes from whoever it turns away and from no one else.            *)

LEMMA EarnersAreEligible ==
  ASSUME NEW f, Fair(f), NEW rule \in Rule, event \in Kind, NEW p \in [Athlete -> Nat], NEW r \in f,
         r \notin Eligible(f) \ OverPlaceCap(rule, event, f)
  PROVE  Scored(rule, event, f, p).points[r.who] = 0
<1> DEFINE L == Lines(rule, event, f)
           h == Hold(rule, f)
           last == Final(rule, event, f, p)
           S == Standings(rule, event, L, p)
<1>1. Scored(rule, event, f, p).points = [a \in Names(f) |-> IF a \in Names(OverPlaceCap(rule, event, f)) THEN 0 ELSE last.points[a]]
  BY ScoredIs
<1>2. r.who \in Names(f)
  BY DEF Names
<1>3. CASE r.who \in Names(OverPlaceCap(rule, event, f))
  <2> HIDE DEF last
  <2> QED BY <1>1, <1>2, <1>3
<1>4. CASE r.who \notin Names(OverPlaceCap(rule, event, f))
  <2>1. /\ IsField(f) /\ IsField(L) /\ r.who \in Names(L) /\ h \in SUBSET f
        /\ Eligible(L) = Eligible(Reprinted(h))
    BY <1>2, <1>4, LinesFair DEF Hold
  <2>2. PICK y \in L : y.who = r.who
    BY <2>1 DEF Names
  <2>3. y \notin Eligible(L)
    <3>1. ASSUME y \in Eligible(L) PROVE FALSE
      <4>1. Eligible(Reprinted(h)) = {PrintAs(h, q) : q \in Eligible(h)}
        BY <2>1, ReprintedFacts
      <4>2. PICK q \in Eligible(h) : y = PrintAs(h, q)
        BY <2>1, <3>1, <4>1
      <4>3. q \in f /\ q \in Eligible(f)
        BY <2>1, <4>2 DEF Eligible
      <4>4. q.who = r.who
        BY <2>1, <2>2, <4>2, <4>3, PrintKeeps
      <4>5. q = r
        BY <2>1, <4>3, <4>4 DEF IsField
      <4>6. r \notin OverPlaceCap(rule, event, f)
        BY <1>4 DEF Names
      <4> QED BY <4>3, <4>5, <4>6
    <3> QED BY <3>1
  <2> DEFINE g == Group(L, Nth(L, y))
             acc == S[Nth(L, y) - 1]
  <2>4. /\ g \in SUBSET L
        /\ S[Len(Groups(L))].points[y.who] = IF y.who \in Paid(rule, event, acc, g) THEN Each(event, acc, g) ELSE 0
    <3> HIDE DEF L
    <3> QED BY <2>1, RowEarns
  <2>5. y.who \notin Paid(rule, event, acc, g)
    <3>1. ASSUME y.who \in Paid(rule, event, acc, g) PROVE FALSE
      <4> HIDE DEF acc, g, L
      <4>1. y.who \in Names(Eligible(g))
        BY <2>1, <2>4, <3>1, PaidIsIn
      <4>2. PICK z \in Eligible(g) : z.who = y.who
        BY <4>1 DEF Names
      <4>3. z \in L /\ z \in Eligible(L)
        BY <2>4, <4>2 DEF Eligible
      <4>4. z = y
        BY <2>1, <2>2, <4>2, <4>3 DEF IsField
      <4> QED BY <2>3, <4>3, <4>4
    <3> QED BY <3>1
  <2>6. last = S[Len(Groups(L))]
    BY DEF Final
  <2> HIDE DEF last, S, L, g, acc
  <2>7. last.points[r.who] = 0
    BY <2>2, <2>4, <2>5, <2>6
  <2> QED BY <1>1, <1>2, <1>4, <2>7
<1> QED BY <1>3, <1>4

(* Whoever scored in the pool is in it. *)
LEMMA ScorersArePooled ==
  ASSUME NEW f, Fair(f), NEW rule \in Rule, event \in Kind, NEW p \in [Athlete -> {0, 1, 3}], ByPool(rule, event),
         NEW a \in Names(f), Scored(rule, event, f, p).points[a] # 0
  PROVE  Scored(rule, event, f, p).pool[a] > 0
<1>1. PICK r \in f : r.who = a
  BY DEF Names
<1>2. p \in [Athlete -> Nat]
  OBVIOUS
<1>3. r \in Eligible(f) \ OverPlaceCap(rule, event, f)
  BY <1>1, <1>2, EarnersAreEligible
<1>4. /\ a \in Athlete
      /\ a \in Paid(rule, event, StandingFor(rule, f, p, r), Tie(rule, f, r))
      /\ Scored(rule, event, f, p).pool[a] = IF p[a] = 0 THEN Weight(event) ELSE p[a]
  BY <1>1, <1>2, <1>3, RowIsPaid
<1>5. p[a] \in {0, 1, 3} /\ Weight(event) \in {1, 3}
  BY <1>4, WeightIs
<1> QED BY <1>4, <1>5

LEMMA PoolIsKept == ASSUME MeetInv, Pooling PROVE PoolHolds
<1> SUFFICES ASSUME meet.scope = "meet"
             PROVE  /\ \A t \in Club : TeamWeight(pool, t) <= meet.cap
                    /\ stage = "scored" /\ event # "relay" => \A a \in DOMAIN points : points[a] > 0 => pool[a] > 0
  BY DEF PoolHolds
<1>1. \A t \in Club : TeamWeight(pool, t) <= meet.cap
  BY DEF Pooling
<1>2. ASSUME stage = "scored", ~Relay(event), NEW a \in DOMAIN points, points[a] > 0 PROVE pool[a] > 0
  <2>1. Scene /\ Settled /\ before \in [Athlete -> {0, 1, 3}]
    BY <1>2, OnceScored
  <2>2. meet \in Rule /\ event \in Kind /\ Fair(field)
    BY <2>1 DEF Scene
  <2>3. a \in Names(field)
    <3>1. points \in [Names(field) -> Nat]
      BY <2>1, <2>2, ScoredGives DEF Settled
    <3> QED BY <1>2, <3>1
  <2>4. ByPool(meet, event)
    BY <1>2 DEF ByPool, Relay
  <2>5. points[a] # 0
    BY <1>2
  <2> QED BY <2>1, <2>2, <2>3, <2>4, <2>5, ScorersArePooled DEF Settled
<1> QED BY <1>1, <1>2 DEF Relay

(* A team has had no more entries than it has raced. *)
LEMMA EntriesCounted ==
  ASSUME NEW f, IsField(f), NEW rule \in Rule, NEW ev \in Kind, NEW p \in [Athlete -> Nat], NEW t \in Club
  PROVE  \A i \in 0 .. Len(Groups(f)) : Standings(rule, ev, f, p)[i].used[t] <= Cardinality(Of(Names(Done(f, i)), t))
<1> DEFINE S == Standings(rule, ev, f, p)
           N == Len(Groups(f))
           names(i) == Names(Done(f, i))
           D == {i \in Nat : S[i].used[t] <= Cardinality(Of(names(i), t))}
<1>0. N \in Nat
  BY GroupFacts
<1>1. /\ S[0] = Nothing(f, p)
      /\ \A i \in 0 .. N : S[i] \in Standing(f)
      /\ \A i \in 1 .. N : S[i] = GroupScored(rule, ev, S[i - 1], Group(f, i))
  BY StandingsAre
<1>2. \A i : names(i) \in SUBSET Athlete
  <2>1. \A r \in f : r.who \in Athlete
    BY DEF IsField, Row
  <2> QED BY <2>1 DEF Names, Done, Eligible
<1>3. 0 \in D
  <2>1. S[0].used[t] = 0
    BY <1>1 DEF Nothing
  <2>2. Cardinality(Of(names(0), t)) \in Nat
    BY <1>2, TeamCount
  <2> HIDE DEF S, names
  <2> QED BY <2>1, <2>2
<1>4. ASSUME NEW i \in 0 + 1 .. N, i - 1 \in D PROVE i \in D
  <2> DEFINE acc == S[i - 1]
             g == Group(f, i)
             paid == Paid(rule, ev, acc, g)
             A == Of(names(i - 1), t)
             B == Of(paid, t)
  <2>1. i \in Nat /\ i \in 1 .. N /\ g \in SUBSET f /\ acc \in Standing(f) /\ S[i] \in Standing(f) /\ S[i] = GroupScored(rule, ev, acc, g)
    BY <1>0, <1>1, GroupFacts
  <2>2. Leaves(S[i], f, rule, ev, acc, g)
    BY <2>1, GroupGives
  <2>3. paid \subseteq Names(Eligible(g)) /\ Eligible(g) = {r \in Eligible(f) : Nth(f, r) = i}
    BY <2>1, PaidIsIn, GroupFacts
  <2>4. \A r \in Eligible(f) : r \in f /\ Nth(f, r) \in Nat
    <3>1. \A r \in Eligible(f) : r \in f
      BY DEF Eligible
    <3> QED BY <1>0, <3>1, GroupFacts
  <2>5. paid \subseteq names(i) /\ names(i - 1) \subseteq names(i)
    <3>1. Eligible(g) \subseteq Done(f, i)
      BY <2>1, <2>3, <2>4 DEF Done
    <3>2. Done(f, i - 1) \subseteq Done(f, i)
      BY <2>1, <2>4 DEF Done
    <3> HIDE DEF paid, g
    <3> QED BY <2>3, <3>1, <3>2 DEF Names
  <2>6. paid \cap names(i - 1) = {}
    <3>1. ASSUME NEW a \in paid, a \in names(i - 1) PROVE FALSE
      <4>1. PICK q \in Eligible(f) : q.who = a /\ Nth(f, q) = i
        BY <2>3, <3>1 DEF Names
      <4>2. PICK r \in Eligible(f) : r.who = a /\ Nth(f, r) <= i - 1
        BY <3>1 DEF Names, Done
      <4>3. q = r
        BY <2>4, <4>1, <4>2 DEF IsField
      <4> QED BY <2>1, <2>4, <4>1, <4>2, <4>3
    <3> QED BY <3>1
  <2>7. paid \in SUBSET Athlete
    BY <1>2, <2>5
  <2> HIDE DEF names, paid, acc, g
  <2>8. /\ IsFiniteSet(A) /\ IsFiniteSet(B) /\ Cardinality(A) \in Nat /\ Cardinality(B) \in Nat
        /\ IsFiniteSet(Of(names(i), t)) /\ Cardinality(Of(names(i), t)) \in Nat
    BY <1>2, <2>7, TeamCount
  <2>9. A \cap B = {} /\ A \cup B \subseteq Of(names(i), t)
    BY <2>5, <2>6 DEF Of
  <2> HIDE DEF A, B
  <2>10. Cardinality(A \cup B) = Cardinality(A) + Cardinality(B) /\ Cardinality(A \cup B) <= Cardinality(Of(names(i), t))
    <3>1. A \cap B = {}
      BY <2>9
    <3>2. Cardinality(A \cup B) = Cardinality(A) + Cardinality(B)
      <4>1. Cardinality(A \cap B) = 0
        BY <3>1, FS_EmptySet
      <4>2. Cardinality(A \cup B) = Cardinality(A) + Cardinality(B) - Cardinality(A \cap B)
        BY <2>8, FS_Union
      <4> QED BY <2>8, <4>1, <4>2
    <3>3. Cardinality(A \cup B) <= Cardinality(Of(names(i), t))
      BY <2>8, <2>9, FS_Subset
    <3> QED BY <3>2, <3>3
  <2>11. S[i].used[t] = acc.used[t] + Cardinality(B)
    BY <2>2 DEF Leaves, paid, B
  <2>12. acc.used[t] <= Cardinality(A) /\ acc.used[t] \in Nat
    BY <1>4, <2>1 DEF A, acc, Standing
  <2> HIDE DEF S
  <2> QED BY <2>1, <2>8, <2>10, <2>11, <2>12
<1>5. \A i \in 0 .. N : i \in D
  <2>1. D \in SUBSET Nat /\ 0 \in Nat
    OBVIOUS
  <2> HIDE DEF D
  <2> QED BY <1>0, <1>3, <1>4, <2>1, CountUpTo
<1> HIDE DEF S
<1> QED BY <1>5 DEF S

(* No team has more athletes than there are numbers: as many entries are   *)
(* no cap on a relay event.                                                *)
LEMMA RelayTakesAll ==
  ASSUME NEW f, IsField(f), NEW rule \in Rule, NEW ev \in Kind, Relay(ev), rule.relayCap = Cardinality(Number),
         NEW p \in [Athlete -> Nat], NEW i \in 1 .. Len(Groups(f)), NEW a \in Entered(rule, ev, Group(f, i))
  PROVE  a \in Taken(rule, ev, Standings(rule, ev, f, p)[i - 1], Group(f, i))
<1> DEFINE acc == Standings(rule, ev, f, p)[i - 1]
           g == Group(f, i)
           in == Entered(rule, ev, g)
           t == a[1]
           A == Of(Names(Done(f, i - 1)), t)
           e == Earlier(in, a)
<1>0. i - 1 \in 0 .. Len(Groups(f)) /\ i \in Nat /\ Len(Groups(f)) \in Nat
  BY GroupFacts
<1>1. acc \in Standing(f) /\ g \in SUBSET f /\ acc.used[t] \in Nat /\ t \in Club /\ in \subseteq Athlete
  <2>1. acc \in Standing(f) /\ g \in SUBSET f
    BY <1>0, StandingsAre, GroupFacts
  <2>2. in \subseteq Athlete
    BY <2>1, PaidIsIn, NamesPart
  <2>3. t \in Club
    BY <2>2 DEF Athlete
  <2> HIDE DEF acc, t
  <2> QED BY <2>1, <2>2, <2>3 DEF Standing
<1>2. ~Weighed(rule, ev) /\ ~Uncapped(rule, ev) /\ Cap(rule, ev) = Cardinality(Number)
  <2>1. Limit(rule, ev) = [rule EXCEPT !.scope = "event", !.cap = rule.relayCap]
    BY DEF Limit, Relay
  <2>2. Limit(rule, ev).scope = "event" /\ Limit(rule, ev).cap = rule.relayCap
    BY <2>1 DEF Rule
  <2> QED BY <2>2 DEF Weighed, Uncapped, Cap
<1>3. a \in Taken(rule, ev, acc, g)
        <=> a \notin in \/ acc.used[t] + 1 * Cardinality(e) <= Cardinality(Number)
  <2>1. Counts(rule, ev, acc, g) = in /\ Load(rule, ev, acc, t) = acc.used[t] /\ Unit(rule, ev) = 1
    BY <1>2 DEF Counts, Fresh, Load, Unit
  <2>2. \A b \in in : b \in Taken(rule, ev, acc, g)
          <=> b \notin Counts(rule, ev, acc, g)
              \/ Load(rule, ev, acc, b[1]) + Unit(rule, ev) * Cardinality(Earlier(Counts(rule, ev, acc, g), b)) <= Cap(rule, ev)
    <3> HIDE DEF acc, g
    <3> QED BY <1>1, <1>2, TakenFills DEF g
  <2> HIDE DEF acc, g, in
  <2> QED BY <1>2, <2>1, <2>2 DEF in, g
<1>4. acc.used[t] <= Cardinality(A)
  BY <1>0, <1>1, EntriesCounted
<1>5. e \cap A = {}
  <2>1. ASSUME NEW b \in e, b \in A PROVE FALSE
    <3>1. b \in Names(Eligible(g)) /\ Eligible(g) = {r \in Eligible(f) : Nth(f, r) = i}
      <4>1. b \in in
        BY <2>1 DEF Earlier
      <4>2. in \subseteq Names(Eligible(g))
        BY DEF Entered
      <4>3. Eligible(g) = {r \in Eligible(f) : Nth(f, r) = i}
        BY GroupFacts
      <4> QED BY <4>1, <4>2, <4>3
    <3>2. PICK q \in Eligible(f) : q.who = b /\ Nth(f, q) = i
      BY <3>1 DEF Names
    <3>3. PICK r \in Eligible(f) : r.who = b /\ Nth(f, r) <= i - 1
      BY <2>1 DEF Of, Names, Done
    <3>4. q \in f /\ r \in f
      BY DEF Eligible
    <3>5. q = r
      BY <3>2, <3>3, <3>4 DEF IsField
    <3>6. Nth(f, q) \in Nat
      BY <1>0, <3>4, GroupFacts
    <3> QED BY <1>0, <3>2, <3>3, <3>5, <3>6
  <2> QED BY <2>1
<1>6. e \subseteq Of(Athlete, t) /\ A \subseteq Of(Athlete, t)
  <2>1. e \subseteq Of(Athlete, t)
    BY <1>1 DEF Earlier, Of
  <2>2. \A r \in f : r.who \in Athlete
    BY DEF IsField, Row
  <2>3. A \subseteq Of(Athlete, t)
    BY <2>2 DEF Of, Names, Done, Eligible
  <2> QED BY <2>1, <2>3
<1>7. IsFiniteSet(Of(Athlete, t)) /\ Cardinality(Of(Athlete, t)) <= Cardinality(Number)
      /\ Cardinality(Of(Athlete, t)) \in Nat /\ Cardinality(Number) \in Nat
  <2>1. Athlete \in SUBSET Athlete
    OBVIOUS
  <2> QED BY <1>1, <2>1, TeamCount
<1> HIDE DEF acc, g, in, t, A, e
<1>8. IsFiniteSet(e) /\ IsFiniteSet(A) /\ Cardinality(e) \in Nat /\ Cardinality(A) \in Nat
  BY <1>6, <1>7, FS_Subset, FS_CardinalityType
<1>9. Cardinality(A) + Cardinality(e) <= Cardinality(Number)
  <2>1. Cardinality(e \cap A) = 0
    BY <1>5, FS_EmptySet
  <2>2. Cardinality(e \cup A) = Cardinality(e) + Cardinality(A) - Cardinality(e \cap A) /\ IsFiniteSet(e \cup A)
    BY <1>8, FS_Union
  <2>3. e \cup A \in SUBSET Of(Athlete, t)
    BY <1>6
  <2>4. Cardinality(e \cup A) <= Cardinality(Of(Athlete, t))
    BY <1>7, <2>3, FS_Subset
  <2> QED BY <1>7, <1>8, <2>1, <2>2, <2>4
<1>10. acc.used[t] + 1 * Cardinality(e) <= Cardinality(Number)
  BY <1>1, <1>4, <1>7, <1>8, <1>9
<1> QED BY <1>3, <1>10 DEF acc, g

LEMMA NoCapsIs ==
  ASSUME meet \in Rule
  PROVE  /\ NoCaps \in Rule /\ NoCaps.roster = Athlete /\ NoCaps.relayCap = Cardinality(Number)
         /\ NoCaps.behavior = meet.behavior /\ OverPlaceCap(NoCaps, event, field) = {}
         /\ ~Relay(event) => Uncapped(NoCaps, event)
<1>1. Cardinality(Number) \in Nat
  BY MeetSizes, FS_CardinalityType
<1>2. NoCaps \in Rule
  BY <1>1 DEF NoCaps, Rule
<1>3. NoCaps.roster = Athlete /\ NoCaps.relayCap = Cardinality(Number) /\ NoCaps.behavior = meet.behavior
      /\ NoCaps.placeCap = 0 /\ NoCaps.scope = "none"
  BY DEF NoCaps, Rule
<1>4. ~Relay(event) => Limit(NoCaps, event) = NoCaps
  BY DEF Limit, Relay
<1> QED BY <1>2, <1>3, <1>4 DEF OverPlaceCap, Uncapped

(* The rows are scored the same under any caps that hold places. *)
LEMMA SameLines ==
  ASSUME NEW f, NEW rule, NEW other, rule.behavior # "removed", other.behavior # "removed", NEW r
  PROVE  /\ Lines(rule, event, f) = Lines(other, event, f) /\ Hold(rule, f) = Hold(other, f)
         /\ Scoring(rule, f, r) = Scoring(other, f, r) /\ TurnOf(rule, f, r) = TurnOf(other, f, r) /\ Tie(rule, f, r) = Tie(other, f, r)
<1>1. Lines(rule, event, f) = Lines(other, event, f)
  BY DEF Lines, Remaining
<1>2. Hold(rule, f) = Hold(other, f)
  BY DEF Hold, Holding, Racing
<1>3. Scoring(rule, f, r) = Scoring(other, f, r)
  BY <1>2 DEF Scoring
<1>4. TurnOf(rule, f, r) = TurnOf(other, f, r)
  BY <1>1, <1>3 DEF TurnOf
<1> QED BY <1>1, <1>2, <1>3, <1>4 DEF Tie

LEMMA SameShare ==
  ASSUME NEW ev, ~Timed(ev), NEW acc, NEW other, NEW g
  PROVE  Each(ev, acc, g) = Each(ev, other, g) /\ (Reached(ev, acc, g) <=> Reached(ev, other, g))
<1>1. FirstPlace(ev, acc, g) = FirstPlace(ev, other, g)
  <2>1. CASE Eligible(g) = {}
    BY <2>1 DEF FirstPlace
  <2>2. CASE Eligible(g) # {}
    <3> DEFINE place == Place(CHOOSE r \in Eligible(g) : TRUE)
    <3>1. FirstPlace(ev, acc, g) = place
      BY <2>2 DEF FirstPlace, Timed
    <3>2. FirstPlace(ev, other, g) = place
      BY <2>2 DEF FirstPlace, Timed
    <3> QED BY <3>1, <3>2
  <2> QED BY <2>1, <2>2
<1> QED BY <1>1 DEF Each, Reached

(* The pool takes again whom it has taken. *)
LEMMA PooledIsTaken ==
  ASSUME NEW rule, NEW ev, Limit(rule, ev).scope = "meet", NEW acc, NEW g, NEW a \in Entered(rule, ev, g), acc.pool[a] > 0
  PROVE  a \in Taken(rule, ev, acc, g)
BY DEF Taken, Admitted

LEMMA RivalsKeep == ASSUME Scene, Settled PROVE RivalsKeepTheirPoints
<1> DEFINE free == Scored(NoCaps, event, field, before).points
           Held(a) == meet.scope = "meet" /\ event # "relay" /\ meet.placeCap = 0 /\ a \in meet.roster /\ pool[a] > 0
<1> SUFFICES ASSUME ~Timed(event), meet.behavior = "holds-place", NEW a \in DOMAIN points
             PROVE  points[a] = free[a] \/ (points[a] = 0 /\ ~Held(a))
  BY DEF RivalsKeepTheirPoints, Timed
<1>1. meet \in Rule /\ event \in Kind /\ Fair(field) /\ before \in [Athlete -> Nat]
  BY DEF Scene
<1>2. points = Scored(meet, event, field, before).points /\ pool = Scored(meet, event, field, before).pool
  BY DEF Settled
<1>3. PICK r \in field : r.who = a
  <2> DEFINE last == Final(meet, event, field, before)
  <2>1. points = [b \in Names(field) |-> IF b \in Names(OverPlaceCap(meet, event, field)) THEN 0 ELSE last.points[b]]
    BY <1>2, ScoredIs
  <2> HIDE DEF last
  <2> QED BY <2>1 DEF Names
<1>4. CASE r \notin Eligible(field) \ OverPlaceCap(meet, event, field)
  <2>1. points[a] = 0
    BY <1>1, <1>2, <1>3, <1>4, EarnersAreEligible
  <2>2. CASE r \in Eligible(field)
    <3>1. meet.placeCap # 0 \/ Relay(event)
      BY <1>4, <2>2 DEF OverPlaceCap, Relay
    <3> QED BY <2>1, <3>1 DEF Relay
  <2>3. CASE r \notin Eligible(field)
    <3>1. free[a] = 0
      BY <1>1, <1>3, <2>3, NoCapsIs, EarnersAreEligible
    <3> QED BY <2>1, <3>1
  <2> QED BY <2>2, <2>3
<1>5. CASE r \in Eligible(field) \ OverPlaceCap(meet, event, field)
  <2> DEFINE acc == StandingFor(meet, field, before, r)
             open == StandingFor(NoCaps, field, before, r)
             g == Tie(meet, field, r)
             L == Lines(meet, event, field)
  <2>1. /\ points[a] = IF a \in Paid(meet, event, acc, g) THEN Each(event, acc, g) ELSE 0
        /\ pool[a] = IF ByPool(meet, event) /\ a \in Paid(meet, event, acc, g) /\ before[a] = 0
                     THEN Weight(event) ELSE before[a]
        /\ acc.pool[a] = before[a]
    BY <1>1, <1>2, <1>3, <1>5, RowIsPaid
  <2>2. /\ NoCaps \in Rule /\ NoCaps.roster = Athlete /\ NoCaps.relayCap = Cardinality(Number)
        /\ NoCaps.behavior = meet.behavior /\ OverPlaceCap(NoCaps, event, field) = {}
        /\ ~Relay(event) => Uncapped(NoCaps, event)
    BY <1>1, NoCapsIs
  <2>3. /\ Lines(NoCaps, event, field) = L /\ Tie(NoCaps, field, r) = g /\ TurnOf(NoCaps, field, r) = TurnOf(meet, field, r)
        /\ Scoring(NoCaps, field, r) = Scoring(meet, field, r)
    BY <2>2, SameLines
  <2>4. /\ IsField(L) /\ Scoring(NoCaps, field, r) \in L /\ a \in Names(Eligible(g)) /\ a \in Athlete
        /\ Scored(NoCaps, event, field, before).points[a] = IF a \in Paid(NoCaps, event, open, g) THEN Each(event, open, g) ELSE 0
    <3>1. r \in Eligible(field) \ OverPlaceCap(NoCaps, event, field)
      BY <1>5, <2>2
    <3> HIDE DEF g, L
    <3> QED BY <1>1, <1>3, <2>2, <2>3, <3>1, RowIsPaid
  <2>5. Each(event, acc, g) = Each(event, open, g) /\ (Reached(event, acc, g) <=> Reached(event, open, g))
    <3> HIDE DEF acc, open, g
    <3> QED BY SameShare
  <2>6. a \in Taken(NoCaps, event, open, g)
    <3>1. a \in Entered(NoCaps, event, g)
      BY <2>2, <2>4 DEF Entered
    <3>2. CASE Relay(event)
      <4>1. TurnOf(NoCaps, field, r) \in 1 .. Len(Groups(L))
        BY <2>3, <2>4, GroupFacts DEF TurnOf
      <4>2. g = Group(L, TurnOf(NoCaps, field, r)) /\ open = Standings(NoCaps, event, L, before)[TurnOf(NoCaps, field, r) - 1]
        BY <2>3 DEF Tie, StandingFor
      <4> HIDE DEF g, open, L
      <4> QED BY <1>1, <2>2, <2>4, <3>1, <3>2, <4>1, <4>2, RelayTakesAll
    <3>3. CASE ~Relay(event)
      BY <1>1, <2>2, <3>1, <3>3, UncappedTakes
    <3> QED BY <3>2, <3>3
  <2>7. free[a] = Each(event, acc, g)
    <3> HIDE DEF acc, open, g
    <3> QED BY <2>4, <2>5, <2>6 DEF Paid, Each
  <2>8. ASSUME Held(a) PROVE points[a] = Each(event, acc, g)
    <3>1. CASE ~Reached(event, acc, g)
      BY <2>1, <3>1 DEF Paid, Each
    <3>2. CASE Reached(event, acc, g)
      <4>1. CASE a \in Paid(meet, event, acc, g)
        BY <2>1, <4>1
      <4>2. CASE a \notin Paid(meet, event, acc, g)
        <5>1. acc.pool[a] > 0
          BY <2>1, <2>8, <4>2
        <5>2. a \in Entered(meet, event, g)
          BY <2>4, <2>8 DEF Entered
        <5>3. Limit(meet, event).scope = "meet"
          BY <2>8 DEF Limit
        <5> HIDE DEF acc, g
        <5>4. a \in Taken(meet, event, acc, g)
          BY <5>1, <5>2, <5>3, PooledIsTaken
        <5> QED BY <3>2, <4>2, <5>4 DEF Paid
      <4> QED BY <4>1, <4>2
    <3> QED BY <3>1, <3>2
  <2> HIDE DEF acc, open, g, free, Held
  <2> QED BY <2>1, <2>7, <2>8
<1> QED BY <1>4, <1>5

(* Caps bring nobody behind the place they would have without.            *)
LEMMA LadderBehind ==
  ASSUME NEW f, Fair(f), NEW rule \in Rule, event \in Kind, Timed(event), NEW p \in [Athlete -> Nat],
         NEW r \in Eligible(f) \ OverPlaceCap(rule, event, f)
  PROVE  StandingFor(rule, f, p, r).place \in Nat /\ StandingFor(rule, f, p, r).place <= Cardinality(Ahead(Eligible(f), r))
<1> DEFINE L == Lines(rule, event, f)
           x == Scoring(rule, f, r)
           h == Hold(rule, f)
           i == TurnOf(rule, f, r) - 1
           U == {q \in Eligible(h) : RankedAbove(q, r)}
           m == [q \in U |-> PrintAs(h, q)]
<1>1. IsField(f) /\ IsField(L) /\ x \in L /\ h \in SUBSET f /\ r \in h /\ Eligible(L) = Eligible(Reprinted(h))
  BY LinesFair, ScoringRow DEF Hold
<1>2. i \in 0 .. Len(Groups(L)) /\ i = Nth(L, x) - 1
  <2>1. Nth(L, x) \in 1 .. Len(Groups(L)) /\ Len(Groups(L)) \in Nat
    <3> HIDE DEF L, x
    <3> QED BY <1>1, GroupFacts
  <2>2. i = Nth(L, x) - 1
    BY DEF TurnOf
  <2> HIDE DEF i, L, x
  <2> QED BY <2>1, <2>2
<1>3. StandingFor(rule, f, p, r).place \in Nat /\ StandingFor(rule, f, p, r).place <= Cardinality(Done(L, i))
  <2>1. StandingFor(rule, f, p, r).place = Standings(rule, event, L, p)[i].place
    BY DEF StandingFor
  <2> HIDE DEF L, i
  <2> QED BY <1>1, <1>2, <2>1, LadderLags
<1>4. Eligible(L) = {PrintAs(h, q) : q \in Eligible(h)}
  BY <1>1, ReprintedFacts
<1>5. Done(L, i) = {m[q] : q \in U}
  <2>1. \A q \in Eligible(L) : q \in L /\ Nth(L, q) \in Nat /\ Nth(L, x) \in Nat
    <3>1. \A q \in Eligible(L) : q \in L
      BY DEF Eligible
    <3> HIDE DEF L, x
    <3> QED BY <1>1, <3>1, GroupFacts
  <2>2. \A q \in Eligible(L) : Nth(L, q) <= i <=> RankedAbove(q, x)
    <3>1. \A q \in L : Nth(L, q) < Nth(L, x) <=> RankedAbove(q, x)
      <4> HIDE DEF L, x
      <4> QED BY <1>1, SameGroup
    <3> HIDE DEF L, x, i
    <3> QED BY <1>2, <2>1, <3>1
  <2>3. \A q \in Eligible(h) : RankedAbove(PrintAs(h, q), x) <=> RankedAbove(q, r)
    <3>1. \A q \in Eligible(h) : q \in h
      BY DEF Eligible
    <3> HIDE DEF h
    <3> QED BY <1>1, <3>1, PrintIsOrder DEF Scoring, h
  <2> HIDE DEF L, x, h, i
  <2> QED BY <1>4, <2>2, <2>3 DEF Done
<1>6. U \subseteq Ahead(Eligible(f), r)
  <2>1. \A q \in f : q.tier = "FIN"
    BY DEF Fair, Tiers, Timed
  <2> QED BY <1>1, <2>1, TierOrderFacts DEF Ahead, RankedAbove, Eligible
<1>7. IsFiniteSet(Ahead(Eligible(f), r)) /\ Cardinality(Ahead(Eligible(f), r)) \in Nat
  <2>1. Eligible(f) \in SUBSET f /\ r \in f
    BY DEF Eligible
  <2> QED BY <1>1, <2>1, AheadFacts
<1>8. \A q \in U, s \in U : m[q] = m[s] => q = s
  <2>1. \A q \in U : q \in f /\ m[q] = PrintAs(h, q)
    BY <1>1 DEF Eligible
  <2>2. \A q \in U : m[q].who = q.who
    <3> HIDE DEF h, U, m
    <3> QED BY <1>1, <2>1, PrintKeeps
  <2> HIDE DEF m, U
  <2> QED BY <1>1, <2>1, <2>2 DEF IsField
<1> HIDE DEF U, m, L, i
<1>9. IsFiniteSet(U) /\ Cardinality(U) <= Cardinality(Ahead(Eligible(f), r))
  BY <1>6, <1>7, FS_Subset
<1>10. Cardinality({m[q] : q \in U}) = Cardinality(U)
  BY <1>8, <1>9, ImageCount
<1>11. Cardinality(Done(L, i)) = Cardinality(U) /\ Cardinality(U) \in Nat
  BY <1>5, <1>9, <1>10, FS_CardinalityType
<1> QED BY <1>3, <1>7, <1>9, <1>11

LEMMA ShareStays ==
  ASSUME NEW f, Fair(f), NEW rule \in Rule, event \in Kind, ~Relay(event), NEW p \in [Athlete -> Nat],
         NEW r \in Eligible(f) \ OverPlaceCap(rule, event, f), NEW other, OverPlaceCap(other, event, f) = {},
         SeatOf(other, f, r) <= Len(Table)
  PROVE  /\ Reached(event, StandingFor(rule, f, p, r), Tie(rule, f, r))
         /\ FirstPlace(event, StandingFor(rule, f, p, r), Tie(rule, f, r)) \in 1 .. SeatOf(other, f, r)
<1> DEFINE L == Lines(rule, event, f)
           x == Scoring(rule, f, r)
           acc == StandingFor(rule, f, p, r)
           g == Tie(rule, f, r)
           first == FirstPlace(event, acc, g)
<1>1. /\ IsField(L) /\ x \in L /\ acc \in Standing(L) /\ g \in SUBSET L /\ Eligible(g) # {}
  BY RowIsPaid
<1>2. Len(Table) \in Nat
  BY LadderIsTable
<1>3. first \in 1 .. SeatOf(other, f, r) /\ first <= Len(Table)
  <2>1. CASE Timed(event)
    <3>1. acc.place \in Nat /\ acc.place <= Cardinality(Ahead(Eligible(f), r))
      BY <2>1, LadderBehind
    <3>2. first = acc.place + 1
      BY <1>1, <2>1 DEF FirstPlace, Timed
    <3>3. /\ SeatOf(other, f, r) = 1 + Cardinality(Ahead(Eligible(f), r)) /\ Cardinality(Ahead(Eligible(f), r)) \in Nat
          /\ SeatOf(other, f, r) <= Len(Table)
      <4>1. IsField(f) /\ Eligible(f) \in SUBSET f /\ r \in f
        BY DEF Fair, Eligible
      <4> QED BY <2>1, <4>1, AheadFacts DEF SeatOf
    <3> HIDE DEF first, acc
    <3> QED BY <1>2, <3>1, <3>2, <3>3
  <2>2. CASE ~Timed(event)
    <3> DEFINE h == Hold(rule, f)
               all == Hold(other, f)
               R == Reprinted(h)
    <3>1. IsField(f) /\ h \in SUBSET f /\ all \in SUBSET f /\ h \subseteq all /\ r \in f
      <4>1. ~(event \in {"relay", "timed final"})
        BY <2>2 DEF Relay, Timed
      <4>2. all = f \ Exhibitions(f)
        BY <4>1 DEF Hold, Holding, Racing
      <4>3. h \subseteq f \ Exhibitions(f)
        BY <4>1 DEF Hold, Holding, Racing
      <4> QED BY <4>2, <4>3 DEF Fair, Eligible
    <3> DEFINE b == IF r.tier = "B" THEN Bracket ELSE 0
    <3>2. SeatOf(other, f, r) = b + 1 + Cardinality(Ahead(all, r)) /\ SeatOf(other, f, r) <= Len(Table)
      BY <2>2 DEF SeatOf
    <3>3. Cardinality(Ahead(h, r)) <= Cardinality(Ahead(all, r)) /\ Cardinality(Ahead(h, r)) \in Nat /\ Cardinality(Ahead(all, r)) \in Nat
      <4>1. Ahead(h, r) \subseteq Ahead(all, r)
        BY <3>1 DEF Ahead
      <4>2. IsFiniteSet(Ahead(all, r)) /\ Cardinality(Ahead(all, r)) \in Nat /\ Cardinality(Ahead(h, r)) \in Nat
        <5> HIDE DEF h, all
        <5> QED BY <3>1, AheadFacts
      <4> QED BY <4>1, <4>2, FS_Subset
    <3>4. b \in Nat
      BY MeetSizes
    <3>5. Fair(R) /\ Eligible(L) = Eligible(R) /\ x \in Eligible(L) /\ Seat(R, x) = b + 1 + Cardinality(Ahead(h, r))
      BY LinesFair, ScoringRow DEF Hold
    <3>6. g = Group(L, Nth(L, x))
      BY DEF Tie, TurnOf
    <3> HIDE DEF L, R, x, b, h, all
    <3>7. FirstPlace(event, acc, Group(L, Nth(L, x))) = IF Seat(R, x) <= Len(Table) THEN Seat(R, x) ELSE 0
      BY <1>1, <2>2, <3>5, FirstOfFinal
    <3>8. Seat(R, x) \in 1 .. SeatOf(other, f, r) /\ Seat(R, x) <= Len(Table)
      BY <1>2, <3>2, <3>3, <3>4, <3>5
    <3> QED BY <3>6, <3>7, <3>8
  <2> QED BY <2>1, <2>2
<1>4. InTable(first)
  <2> HIDE DEF first
  <2> QED BY <1>2, <1>3 DEF InTable
<1> QED BY <1>3, <1>4 DEF Reached

(* In a table that falls no earlier place is worth nothing if a later one  *)
(* is worth something.                                                     *)
LEMMA ValuesFall ==
  ASSUME Falls, NEW m \in Nat \ {0}, NEW i \in Nat, m <= i PROVE Values[i] <= Values[m]
<1> DEFINE D == {j \in Nat : Values[j] <= Values[m]}
<1>1. m \in D /\ \A j \in Nat : Values[j] \in Nat
  BY ValueIsNat
<1>2. ASSUME NEW j \in m + 1 .. i, j - 1 \in D PROVE j \in D
  <2>1. j \in Nat /\ j > 1 /\ j - 1 \in Nat \ {0} /\ Values[j - 1] <= Values[m]
    BY <1>2
  <2>2. CASE j \in 1 .. Len(Table)
    <3>1. j \in DOMAIN Table /\ j - 1 \in 1 .. Len(Table)
      BY <2>1, <2>2, LadderIsTable, MeetSizes
    <3>2. Table[j] <= Table[j - 1]
      BY <2>1, <3>1 DEF Falls
    <3>3. Values[j] = Table[j] /\ Values[j - 1] = Table[j - 1]
      BY <2>1, <2>2, <3>1 DEF Values, Value, InTable
    <3>4. Values[j] \in Nat /\ Values[j - 1] \in Nat /\ Values[m] \in Nat
      BY <1>1, <2>1
    <3> QED BY <2>1, <3>2, <3>3, <3>4
  <2>3. CASE j \notin 1 .. Len(Table)
    <3>1. Values[j] = 0 /\ Values[m] \in Nat
      BY <1>1, <2>1, <2>3 DEF Values, Value, InTable
    <3> QED BY <2>1, <3>1
  <2> QED BY <2>2, <2>3
<1>3. D \in SUBSET Nat
  OBVIOUS
<1> HIDE DEF D
<1>4. i \in m .. i
  OBVIOUS
<1>5. i \in D
  BY <1>1, <1>2, <1>3, <1>4, CountUpTo
<1> QED BY <1>5 DEF D

LEMMA WorthFalls ==
  ASSUME Falls, NEW seat \in Nat \ {0}, NEW k \in Nat \ {0}, Worth(seat, k) # 0, NEW first \in 1 .. seat, NEW n \in Nat \ {0}
  PROVE  Worth(first, n) # 0
<1> DEFINE S == seat .. seat + k - 1
           T == first .. first + n - 1
<1>0. /\ IsFiniteSet(S) /\ S \subseteq Int /\ seat \in S
      /\ IsFiniteSet(T) /\ T \subseteq Int /\ first \in T /\ \A p \in T : Values[p] \in Nat
  BY IntervalFacts, ValueIsNat
<1>1. Values[seat] # 0
  <2>1. ASSUME Values[seat] = 0, NEW p \in S PROVE Values[p] = 0
    <3>1. p \in Nat /\ seat <= p /\ Values[p] \in Nat
      BY ValueIsNat
    <3>2. Values[p] <= Values[seat]
      BY <3>1, ValuesFall
    <3> QED BY <2>1, <3>1, <3>2
  <2> HIDE DEF S
  <2>2. Values[seat] = 0 => Total(Values, S) = 0
    BY <1>0, <2>1, TotalOfZeros
  <2> QED BY <2>2 DEF Worth, S
<1>2. Values[first] \in Nat \ {0}
  <2>1. Values[seat] <= Values[first] /\ Values[seat] \in Nat /\ Values[first] \in Nat
    BY ValuesFall, ValueIsNat
  <2> QED BY <1>1, <2>1
<1>3. Total(Values, T) = Values[first] + Total(Values, T \ {first})
  <2> HIDE DEF T
  <2> QED BY <1>0, SumTakesAny
<1>4. Total(Values, T \ {first}) \in Nat
  <2>1. IsFiniteSet(T \ {first}) /\ \A p \in T \ {first} : Values[p] \in Nat
    <3> HIDE DEF T
    <3> QED BY <1>0, FS_Subset
  <2> HIDE DEF T
  <2> QED BY <2>1, SumIsNat
<1>5. Total(Values, T) # 0
  <2> HIDE DEF T
  <2> QED BY <1>2, <1>3, <1>4
<1> QED BY <1>5 DEF Worth

(* Whoever is at a place of the table and does not take it was turned away *)
(* by a cap that stays full from then on.                                  *)
StandingAfter(rule, f, p, i) == Standings(rule, event, Lines(rule, event, f), p)[i]
Turned(rule, f, p, r) ==
  LET acc == StandingFor(rule, f, p, r)
      g == Tie(rule, f, r)
  IN r.who \in Entered(rule, event, g) /\ Reached(event, acc, g) /\ r.who \notin Paid(rule, event, acc, g)
Overfull(rule, f, p, i, t) == Load(rule, event, StandingAfter(rule, f, p, i), t) + Unit(rule, event) > Cap(rule, event)

LEMMA Refused ==
  ASSUME NEW f, Fair(f), NEW rule \in Rule, event \in Kind, ~Uncapped(rule, event), NEW p \in [Athlete -> Nat],
         NEW r \in Eligible(f) \ OverPlaceCap(rule, event, f), Turned(rule, f, p, r)
  PROVE  /\ r.who \in Counts(rule, event, StandingFor(rule, f, p, r), Tie(rule, f, r))
         /\ r.who \notin Taken(rule, event, StandingFor(rule, f, p, r), Tie(rule, f, r))
         /\ r.who[1] \in Club
         /\ \A i \in TurnOf(rule, f, r) .. Len(Groups(Lines(rule, event, f))) : Overfull(rule, f, p, i, r.who[1])
<1> DEFINE L == Lines(rule, event, f)
           x == Scoring(rule, f, r)
           acc == StandingFor(rule, f, p, r)
           g == Tie(rule, f, r)
           n == TurnOf(rule, f, r)
           N == Len(Groups(L))
           t == r.who[1]
           S == Standings(rule, event, L, p)
<1>1. /\ IsField(L) /\ x \in L /\ acc \in Standing(L) /\ g \in SUBSET L /\ r.who \in Athlete
  BY RowIsPaid
<1>2. t \in Club
  BY <1>1 DEF Athlete
<1>3. n \in 1 .. N /\ N \in Nat /\ g = Group(L, n) /\ acc = S[n - 1]
  <2>1. Nth(L, x) \in 1 .. N /\ N \in Nat
    <3> HIDE DEF L, x
    <3> QED BY <1>1, GroupFacts
  <2> QED BY <2>1 DEF TurnOf, Tie, StandingFor
<1>4. r.who \in Entered(rule, event, g) /\ Reached(event, acc, g)
  BY DEF Turned
<1>5. r.who \notin Taken(rule, event, acc, g)
  <2>1. r.who \notin Paid(rule, event, acc, g)
    BY DEF Turned
  <2> HIDE DEF acc, g
  <2> QED BY <1>4, <2>1 DEF Paid
<1> HIDE DEF L, x, acc, g, n, N, t
<1>6. Leaves(S[n], L, rule, event, acc, g)
  <2>1. S[n] = GroupScored(rule, event, acc, g)
    BY <1>1, <1>3, StandingsAre DEF N
  <2> QED BY <1>1, <2>1, GroupGives
<1>7. t = r.who[1]
  BY DEF t
<1> HIDE DEF S
<1>8. r.who \in Counts(rule, event, acc, g) /\ Load(rule, event, S[n], t) + Unit(rule, event) > Cap(rule, event)
  BY <1>1, <1>2, <1>4, <1>5, <1>6, <1>7, CapFills
<1>9. ASSUME NEW i \in n .. N PROVE Load(rule, event, S[i], t) + Unit(rule, event) > Cap(rule, event)
  <2>1. n \in 0 .. N
    BY <1>3
  <2>2. Load(rule, event, S[n], t) <= Load(rule, event, S[i], t) /\ Load(rule, event, S[i], t) \in Nat
    BY <1>1, <1>2, <1>9, <2>1, LoadRises DEF S, N
  <2>3. Load(rule, event, S[n], t) \in Nat
    <3>1. n \in n .. N
      BY <1>3
    <3> QED BY <1>1, <1>2, <2>1, <3>1, LoadRises DEF S, N
  <2>4. Unit(rule, event) \in {1, 3} /\ Cap(rule, event) \in Nat
    BY <1>1, <1>2, LoadIs
  <2> QED BY <1>8, <2>2, <2>3, <2>4
<1> QED BY <1>2, <1>5, <1>8, <1>9 DEF Overfull, StandingAfter, S, N, L, n, t, acc, g

(* A teammate behind finds it full, or is in the pool already. *)
LEMMA RefusedBehind ==
  ASSUME NEW f, Fair(f), NEW rule \in Rule, event \in Kind, ~Uncapped(rule, event), NEW p \in [Athlete -> Nat],
         NEW r \in Eligible(f) \ OverPlaceCap(rule, event, f), Turned(rule, f, p, r),
         NEW q \in Eligible(f) \ OverPlaceCap(rule, event, f), q.who[1] = r.who[1], FinishedBefore(r, q), p[q.who] = 0
  PROVE  q.who \notin Paid(rule, event, StandingFor(rule, f, p, q), Tie(rule, f, q))
<1> DEFINE L == Lines(rule, event, f)
           acc == StandingFor(rule, f, p, q)
           g == Tie(rule, f, q)
           n == TurnOf(rule, f, q)
           x == Scoring(rule, f, r)
           y == Scoring(rule, f, q)
           t == r.who[1]
           in == Entered(rule, event, g)
           fresh == Counts(rule, event, acc, g)
           e == Earlier(fresh, q.who)
           b == Load(rule, event, acc, t)
           unit == Unit(rule, event)
           cap == Cap(rule, event)
<1>1. /\ IsField(L) /\ x \in L /\ y \in L /\ acc \in Standing(L) /\ g \in SUBSET L /\ q.who \in Athlete /\ acc.pool[q.who] = p[q.who]
  BY RowIsPaid
<1>2. /\ r.who \in Counts(rule, event, StandingFor(rule, f, p, r), Tie(rule, f, r))
      /\ r.who \notin Taken(rule, event, StandingFor(rule, f, p, r), Tie(rule, f, r))
      /\ r.who \in Entered(rule, event, Tie(rule, f, r))
      /\ t \in Club
      /\ \A i \in TurnOf(rule, f, r) .. Len(Groups(L)) : Overfull(rule, f, p, i, t)
  <2>1. r.who \in Entered(rule, event, Tie(rule, f, r))
    BY DEF Turned
  <2> QED BY <2>1, Refused
<1>3. \/ RankedAbove(x, y)
      \/ Ranked(x) = Ranked(y) /\ r.who[2] < q.who[2]
  BY ScoringRows DEF FinishedBefore
<1>4. q.who \in in => q.who \in fresh
  BY <1>1 DEF Counts, Fresh
<1> HIDE DEF L, x, y, acc, g, n, t
<1>5. /\ in \subseteq Athlete /\ fresh \subseteq in /\ IsFiniteSet(fresh)
      /\ \A a \in in : a \in Taken(rule, event, acc, g)
                         <=> a \notin fresh \/ Load(rule, event, acc, a[1]) + unit * Cardinality(Earlier(fresh, a)) <= cap
  BY <1>1, TakenFills
<1>6. b \in Nat /\ unit \in {1, 3} /\ cap \in Nat
  BY <1>1, <1>2, LoadIs
<1>7. ASSUME q.who \in in PROVE b + unit * Cardinality(e) > cap
  <2>1. q.who \in fresh /\ q.who \in e /\ IsFiniteSet(e) /\ Cardinality(e) \in Nat
    <3>1. q.who \in fresh
      BY <1>4, <1>7
    <3>2. q.who[2] \in Nat
      <4>1. q.who[2] \in Number
        BY <1>1 DEF Athlete
      <4> QED BY <4>1, MeetSizes
    <3>3. q.who \in e /\ e \subseteq fresh
      <4> HIDE DEF fresh
      <4> QED BY <3>1, <3>2 DEF Earlier
    <3> HIDE DEF e, fresh
    <3> QED BY <1>5, <3>1, <3>3, FS_Subset, FS_CardinalityType
  <2>2. CASE RankedAbove(x, y)
    <3>1. TurnOf(rule, f, r) < n /\ n \in 1 .. Len(Groups(L)) /\ TurnOf(rule, f, r) \in 1 .. Len(Groups(L)) /\ Len(Groups(L)) \in Nat
      <4>1. Nth(L, x) < Nth(L, y)
        BY <1>1, <2>2, SameGroup
      <4>2. Nth(L, x) \in 1 .. Len(Groups(L)) /\ Nth(L, y) \in 1 .. Len(Groups(L)) /\ Len(Groups(L)) \in Nat
        BY <1>1, GroupFacts
      <4> QED BY <4>1, <4>2 DEF TurnOf, n, L, x, y
    <3>2. n - 1 \in TurnOf(rule, f, r) .. Len(Groups(L))
      BY <3>1
    <3>3. acc = StandingAfter(rule, f, p, n - 1)
      BY DEF acc, StandingFor, StandingAfter, n
    <3>4. b + unit > cap
      BY <1>2, <3>2, <3>3 DEF Overfull
    <3>5. Cardinality(e) # 0
      <4> HIDE DEF e
      <4> QED BY <2>1, FS_EmptySet
    <3> HIDE DEF b, unit, cap, e
    <3> QED BY <1>6, <2>1, <3>4, <3>5
  <2>3. CASE Ranked(x) = Ranked(y) /\ r.who[2] < q.who[2]
    <3>1. TurnOf(rule, f, r) = n
      <4>1. Nth(L, x) = Nth(L, y)
        BY <1>1, <2>3, SameGroup
      <4> QED BY <4>1 DEF TurnOf, n, L, x, y
    <3>2. Tie(rule, f, r) = g /\ StandingFor(rule, f, p, r) = acc
      BY <3>1 DEF Tie, StandingFor, g, acc, n
    <3> DEFINE d == Earlier(fresh, r.who)
    <3>3. ~(Load(rule, event, acc, t) + unit * Cardinality(d) <= cap)
      <4>1. r.who \in fresh /\ r.who \notin Taken(rule, event, acc, g) /\ r.who \in in
        BY <1>2, <3>2
      <4> HIDE DEF in, fresh, unit, cap
      <4> QED BY <1>5, <4>1 DEF t
    <3>4. d \subseteq e
      <4>1. \A a \in fresh : a[2] \in Nat
        <5> SUFFICES ASSUME NEW a \in fresh PROVE a[2] \in Nat
          OBVIOUS
        <5>1. a \in Club \X Number
          BY <1>5 DEF Athlete
        <5>2. a[2] \in Number
          BY <5>1
        <5> QED BY <5>2, MeetSizes
      <4>2. r.who[2] \in Nat /\ q.who[2] \in Nat
        <5>1. r.who \in fresh
          BY <1>2, <3>2
        <5> QED BY <2>1, <4>1, <5>1
      <4> HIDE DEF fresh
      <4> QED BY <2>3, <4>1, <4>2 DEF Earlier
    <3>5. Cardinality(d) <= Cardinality(e) /\ Cardinality(d) \in Nat
      <4> HIDE DEF d, e
      <4> QED BY <2>1, <3>4, FS_Subset, FS_CardinalityType
    <3> HIDE DEF d, e, b, unit, cap
    <3> QED BY <1>6, <2>1, <3>3, <3>5 DEF b
  <2> QED BY <1>3, <2>2, <2>3
<1>8. q.who \notin Taken(rule, event, acc, g)
  <2>1. CASE q.who \in in
    <3>1. Load(rule, event, acc, q.who[1]) = b
      BY DEF t
    <3>2. Cardinality(e) \in Nat
      <4>1. e \subseteq fresh
        BY DEF Earlier
      <4> QED BY <1>5, <4>1, FS_Subset, FS_CardinalityType
    <3>3. ~(Load(rule, event, acc, q.who[1]) + unit * Cardinality(e) <= cap)
      <4>1. b + unit * Cardinality(e) > cap
        BY <1>7, <2>1
      <4> HIDE DEF b, unit, cap, e
      <4> QED BY <1>6, <3>1, <3>2, <4>1
    <3> HIDE DEF in, fresh, unit, cap, b
    <3> QED BY <1>4, <1>5, <2>1, <3>3
  <2>2. CASE q.who \notin in
    BY <1>1, <2>2, TakenIs
  <2> QED BY <2>1, <2>2
<1> QED BY <1>8 DEF Paid, acc, g

LEMMA SlotsInOrder == ASSUME MeetInv, Pooling PROVE SlotsGoToTheFirst
<1> DEFINE free == Scored(NoCaps, event, field, before).points
           contestants == Eligible(field) \ OverPlaceCap(meet, event, field)
           TurnedAway(r) ==
             IF meet.scope = "meet" THEN pool[r.who] = 0 ELSE Falls /\ free[r.who] > 0 /\ points[r.who] = 0
           TookASlot(q) == IF meet.scope = "meet" THEN pool[q.who] # before[q.who] ELSE points[q.who] > 0
<1> SUFFICES ASSUME stage = "scored", ~Relay(event), meet.scope # "none", NEW r \in contestants,
                    r.who \in meet.roster \/ Timed(event), InTable(PlaceTaken(r)), TurnedAway(r)
             PROVE  /\ \A q \in contestants : q.who[1] = r.who[1] /\ FinishedBefore(r, q) => ~TookASlot(q)
                    /\ meet.scope = "meet" => TeamWeight(pool, r.who[1]) + Weight(event) > meet.cap
  BY DEF SlotsGoToTheFirst, Relay, Timed
<1>1. /\ meet \in Rule /\ event \in Kind /\ Fair(field) /\ before \in [Athlete -> Nat] /\ before \in [Athlete -> {0, 1, 3}]
      /\ Settled /\ Cardinality(field) <= meet.rows /\ Divides(meet.rows) /\ meet.rows \in Nat
  BY OnceScored DEF Scene, Shared
<1>2. points = Scored(meet, event, field, before).points /\ pool = Scored(meet, event, field, before).pool
  BY <1>1 DEF Settled
<1>3. /\ ~Uncapped(meet, event) /\ (Weighed(meet, event) <=> meet.scope = "meet") /\ Cap(meet, event) = meet.cap
      /\ ByPool(meet, event) <=> meet.scope = "meet"
  <2>1. Limit(meet, event) = meet
    BY DEF Limit, Relay
  <2> QED BY <2>1 DEF Uncapped, Weighed, Cap, ByPool, Relay
<1> DEFINE acc == StandingFor(meet, field, before, r)
           g == Tie(meet, field, r)
<1>4. /\ NoCaps \in Rule /\ NoCaps.roster = Athlete /\ OverPlaceCap(NoCaps, event, field) = {} /\ Uncapped(NoCaps, event)
      /\ PlaceTaken(r) = SeatOf(NoCaps, field, r) /\ SeatOf(NoCaps, field, r) <= Len(Table)
  <2>1. /\ NoCaps \in Rule /\ NoCaps.roster = Athlete /\ OverPlaceCap(NoCaps, event, field) = {} /\ Uncapped(NoCaps, event)
    BY <1>1, NoCapsIs
  <2>2. PlaceTaken(r) = SeatOf(NoCaps, field, r)
    BY <1>1, <2>1, SeatTaken
  <2> QED BY <2>1, <2>2 DEF InTable
<1>5. Reached(event, acc, g) /\ FirstPlace(event, acc, g) \in 1 .. SeatOf(NoCaps, field, r)
  BY <1>1, <1>4, ShareStays
<1>6. ASSUME NEW q \in contestants
      PROVE  LET paid == Paid(meet, event, StandingFor(meet, field, before, q), Tie(meet, field, q))
             IN  /\ q.who \in Athlete
                 /\ points[q.who] = IF q.who \in paid THEN Each(event, StandingFor(meet, field, before, q), Tie(meet, field, q)) ELSE 0
                 /\ pool[q.who] = IF meet.scope = "meet" /\ q.who \in paid /\ before[q.who] = 0
                                  THEN Weight(event) ELSE before[q.who]
  BY <1>1, <1>2, <1>3, RowIsPaid
<1>7. /\ acc \in Standing(Lines(meet, event, field)) /\ g \in SUBSET Lines(meet, event, field) /\ Eligible(g) # {}
      /\ r.who \in Names(Eligible(g)) /\ acc.pool[r.who] = before[r.who] /\ r.who \in Athlete
      /\ IsField(Lines(meet, event, field)) /\ Scoring(meet, field, r) \in Lines(meet, event, field)
  BY <1>1, RowIsPaid
<1>8. r.who \notin Paid(meet, event, acc, g)
  <2>1. CASE meet.scope = "meet"
    <3>1. pool[r.who] = 0 /\ Weight(event) \in {1, 3}
      BY <1>1, <2>1, WeightIs
    <3>2. pool[r.who] = IF meet.scope = "meet" /\ r.who \in Paid(meet, event, acc, g) /\ before[r.who] = 0
                        THEN Weight(event) ELSE before[r.who]
      BY <1>6
    <3> HIDE DEF acc, g
    <3> QED BY <2>1, <3>1, <3>2
  <2>2. CASE meet.scope # "meet"
    <3>1. Falls /\ free[r.who] > 0 /\ points[r.who] = 0
      BY <2>2
    <3> DEFINE k == Cardinality({q \in Eligible(field) : Ranked(q) = Ranked(r)})
               seat == SeatOf(NoCaps, field, r)
               first == FirstPlace(event, acc, g)
               n == Cardinality(Eligible(g))
    <3>2. free[r.who] \in Nat /\ k \in Nat \ {0} /\ seat \in Nat \ {0} /\ free[r.who] * k = Worth(seat, k)
      <4>1. r.who \in NoCaps.roster /\ r \in Eligible(field)
        BY <1>4, <1>7
      <4> HIDE DEF free, k, seat
      <4> QED BY <1>1, <1>4, <4>1, FreeRow DEF free, k, seat
    <3>3. n \in Nat \ {0} /\ first \in Nat /\ (first # 0 => Each(event, acc, g) * n = Worth(first, n))
      <4>1. Cardinality(Lines(meet, event, field)) <= meet.rows
        BY <1>1, LinesAreFew
      <4> HIDE DEF acc, g
      <4> QED BY <1>1, <1>7, <4>1, EachIsWorth
    <3> HIDE DEF k, seat, first, n, free, acc, g
    <3>4. Worth(seat, k) # 0
      BY <3>1, <3>2
    <3>5. Worth(first, n) # 0 /\ first # 0
      <4>1. first \in 1 .. seat
        BY <1>5 DEF first, seat
      <4> QED BY <3>1, <3>2, <3>3, <3>4, <4>1, WorthFalls
    <3>6. Each(event, acc, g) # 0
      <4>1. Each(event, acc, g) * n # 0
        BY <3>3, <3>5
      <4>2. Each(event, acc, g) = 0 => Each(event, acc, g) * n = 0
        BY <3>3
      <4> QED BY <4>1, <4>2
    <3>7. points[r.who] = IF r.who \in Paid(meet, event, acc, g) THEN Each(event, acc, g) ELSE 0
      BY <1>6 DEF acc, g
    <3> QED BY <3>1, <3>6, <3>7
  <2> QED BY <2>1, <2>2
<1>9. Turned(meet, field, before, r)
  <2>1. r.who \in Entered(meet, event, g)
    BY <1>7 DEF Entered, Timed
  <2> QED BY <1>5, <1>8, <2>1 DEF Turned
<1> HIDE DEF free
<1>10. ASSUME NEW q \in contestants, q.who[1] = r.who[1], FinishedBefore(r, q) PROVE ~TookASlot(q)
  <2> DEFINE paid == Paid(meet, event, StandingFor(meet, field, before, q), Tie(meet, field, q))
  <2>1. before[q.who] = 0 => q.who \notin paid
    BY <1>1, <1>3, <1>9, <1>10, RefusedBehind
  <2>2. CASE meet.scope = "meet"
    <3>1. pool[q.who] = IF meet.scope = "meet" /\ q.who \in paid /\ before[q.who] = 0 THEN Weight(event) ELSE before[q.who]
      BY <1>6
    <3> HIDE DEF paid
    <3>2. pool[q.who] = before[q.who]
      BY <2>1, <3>1
    <3> QED BY <2>2, <3>2
  <2>3. CASE meet.scope # "meet"
    <3>1. before = [a \in Athlete |-> 0] /\ q.who \in Athlete
      BY <1>6, <2>3 DEF Pooling
    <3>2. before[q.who] = 0
      BY <3>1
    <3>3. points[q.who] = 0
      BY <1>6, <2>1, <3>2
    <3> QED BY <2>3, <3>3
  <2> QED BY <2>2, <2>3
<1> HIDE DEF TookASlot, TurnedAway
<1>11. ASSUME meet.scope = "meet" PROVE TeamWeight(pool, r.who[1]) + Weight(event) > meet.cap
  <2> DEFINE L == Lines(meet, event, field)
             N == Len(Groups(L))
  <2>1. N \in TurnOf(meet, field, r) .. N
    <3>1. Nth(L, Scoring(meet, field, r)) \in 1 .. N /\ N \in Nat
      <4> HIDE DEF L
      <4> QED BY <1>7, GroupFacts DEF L
    <3>2. TurnOf(meet, field, r) = Nth(L, Scoring(meet, field, r))
      BY DEF TurnOf
    <3> HIDE DEF L, N
    <3> QED BY <3>1, <3>2
  <2>2. Overfull(meet, field, before, N, r.who[1])
    <3>1. \A i \in TurnOf(meet, field, r) .. N : Overfull(meet, field, before, i, r.who[1])
      BY <1>1, <1>3, <1>9, Refused
    <3> QED BY <2>1, <3>1
  <2>3. Load(meet, event, StandingAfter(meet, field, before, N), r.who[1]) = TeamWeight(pool, r.who[1])
    <3>1. StandingAfter(meet, field, before, N) = Final(meet, event, field, before)
      BY DEF StandingAfter, Final
    <3> DEFINE last == Final(meet, event, field, before)
    <3>2. pool = last.pool /\ Scored(meet, event, field, before).points
             = [a \in Names(field) |-> IF a \in Names(OverPlaceCap(meet, event, field)) THEN 0 ELSE last.points[a]]
      BY <1>2, ScoredIs
    <3> HIDE DEF last, N
    <3> QED BY <1>3, <1>11, <3>1, <3>2 DEF Load, last
  <2>4. Unit(meet, event) = Weight(event)
    BY <1>3, <1>11 DEF Unit
  <2> HIDE DEF N
  <2> QED BY <1>3, <2>2, <2>3, <2>4 DEF Overfull
<1> QED BY <1>10, <1>11

(* No pool takes more than its cap, whoever takes a place, be it worth 0,  *)
(* and is turned away found the team full, and no rival's points move      *)
(* (admitTieGroupToMeetPool, admitTieGroupToEventCap).                     *)
THEOREM CapsKept == ScoringSpec => []CapsAreKept
<1>1. ScoringInit => MeetInv /\ Pooling
  BY ReadingInit, PoolingInit
<1>2. MeetInv /\ Pooling /\ [ScoringNext]_scoringVars => (MeetInv /\ Pooling)'
  BY ReadingStep, PoolingStep
<1>3. MeetInv /\ Pooling => CapsAreKept
  <2> SUFFICES ASSUME MeetInv, Pooling PROVE RivalsKeepTheirPoints /\ PoolHolds /\ SlotsGoToTheFirst
    BY DEF CapsAreKept
  <2>1. RivalsKeepTheirPoints
    <3>1. CASE stage = "scored"
      BY <3>1, OnceScored, RivalsKeep
    <3>2. CASE stage # "scored"
      BY <3>2 DEF RivalsKeepTheirPoints
    <3> QED BY <3>1, <3>2
  <2> QED BY <2>1, PoolIsKept, SlotsInOrder
<1> QED BY <1>1, <1>2, <1>3, PTL DEF ScoringSpec
-----------------------------------------------------------------------------
(* Whoever does not count leaves the others as if they had swum alone.  Two *)
(* events are matched if the same athletes can earn points in them, in the  *)
(* same order and, in a final, at the same places.                          *)
Matched(f, h, ev) ==
  /\ Names(Eligible(f)) = Names(Eligible(h))
  /\ \A q, r \in Eligible(f), x, y \in Eligible(h) :
       q.who = x.who /\ r.who = y.who => (RankedAbove(q, r) <=> RankedAbove(x, y))
  /\ ~Timed(ev) => \A q \in Eligible(f), x \in Eligible(h) : q.who = x.who => Place(q) = Place(x)

LEMMA MatchedBack == ASSUME NEW f, NEW h, NEW ev, Matched(f, h, ev) PROVE Matched(h, f, ev)
<1>1. Names(Eligible(h)) = Names(Eligible(f))
  BY DEF Matched
<1>2. \A q, r \in Eligible(h), x, y \in Eligible(f) :
        q.who = x.who /\ r.who = y.who => (RankedAbove(q, r) <=> RankedAbove(x, y))
  BY DEF Matched
<1>3. ~Timed(ev) => \A q \in Eligible(h), x \in Eligible(f) : q.who = x.who => Place(q) = Place(x)
  BY DEF Matched
<1> QED BY <1>1, <1>2, <1>3 DEF Matched

(* When the same have been scored of both, the last of them are the same, *)
LEMMA SameLast ==
  ASSUME NEW f, IsField(f), NEW h, IsField(h), NEW ev, Matched(f, h, ev), NEW i \in Nat, NEW j \in Nat,
         Names(Done(f, i)) = Names(Done(h, j)), Eligible(Group(h, j)) # {}
  PROVE  Names(Eligible(Group(f, i))) \subseteq Names(Eligible(Group(h, j)))
<1> SUFFICES ASSUME NEW q \in Eligible(Group(f, i)) PROVE q.who \in Names(Eligible(Group(h, j)))
  BY DEF Names
<1>1. /\ \A k : Eligible(Group(f, k)) = {r \in Eligible(f) : Nth(f, r) = k}
      /\ \A k : Eligible(Group(h, k)) = {r \in Eligible(h) : Nth(h, r) = k}
      /\ \A r \in f : Nth(f, r) \in Nat
      /\ \A r \in h : Nth(h, r) \in Nat
  BY GroupFacts
<1>2. Eligible(f) \subseteq f /\ Eligible(h) \subseteq h
  BY DEF Eligible
<1>3. q \in Eligible(f) /\ Nth(f, q) = i /\ q \in Done(f, i)
  BY <1>1 DEF Done
<1>4. PICK y \in Done(h, j) : y.who = q.who
  BY <1>3 DEF Names
<1>5. y \in Eligible(h) /\ Nth(h, y) <= j
  BY <1>4 DEF Done
<1>6. PICK x \in Eligible(h) : Nth(h, x) = j
  BY <1>1
<1>7. x \in Done(h, j)
  BY <1>6 DEF Done
<1>8. PICK r \in Done(f, i) : r.who = x.who
  BY <1>7 DEF Names
<1>9. r \in Eligible(f) /\ Nth(f, r) <= i
  BY <1>8 DEF Done
<1>10. ~RankedAbove(q, r)
  <2>1. q \in f /\ r \in f /\ Nth(f, r) \in Nat
    BY <1>1, <1>2, <1>3, <1>9
  <2>2. Nth(f, q) < Nth(f, r) <=> RankedAbove(q, r)
    BY <2>1, SameGroup
  <2> QED BY <1>3, <1>9, <2>1, <2>2
<1>11. ~RankedAbove(y, x)
  BY <1>3, <1>4, <1>5, <1>6, <1>8, <1>9, <1>10 DEF Matched
<1>12. Nth(h, y) = j
  <2>1. y \in h /\ x \in h /\ Nth(h, y) \in Nat
    BY <1>1, <1>2, <1>5, <1>6
  <2>2. Nth(h, y) < Nth(h, x) <=> RankedAbove(y, x)
    BY <2>1, SameGroup
  <2> QED BY <1>5, <1>6, <1>11, <2>1, <2>2
<1>13. y \in Eligible(Group(h, j))
  BY <1>1, <1>5, <1>12
<1> QED BY <1>4, <1>13 DEF Names

(* and so are those before them. *)
LEMMA DoneBefore ==
  ASSUME NEW f, IsField(f), NEW i \in Nat \ {0}
  PROVE  Names(Done(f, i - 1)) = Names(Done(f, i)) \ Names(Eligible(Group(f, i)))
<1>1. /\ Eligible(Group(f, i)) = {r \in Eligible(f) : Nth(f, r) = i}
      /\ \A r \in Eligible(f) : Nth(f, r) \in Nat
  BY GroupFacts DEF Eligible
<1>2. Done(f, i - 1) = Done(f, i) \ Eligible(Group(f, i)) /\ Eligible(Group(f, i)) \subseteq Done(f, i)
  BY <1>1 DEF Done
<1>3. Done(f, i) \subseteq f
  BY DEF Done, Eligible
<1>4. \A q, r \in f : q.who = r.who => q = r
  BY DEF IsField
<1> HIDE DEF Done
<1> QED BY <1>2, <1>3, <1>4 DEF Names

(* Two rules that differ in the place cap only, and standings that tell of *)
(* the same.                                                               *)
Alike(rule, other) == other \in Rule /\ other.scope = rule.scope /\ other.cap = rule.cap /\ other.roster = rule.roster
Even(s, t, names) ==
  s.place = t.place /\ s.pool = t.pool /\ s.used = t.used /\ \A a \in names : s.points[a] = t.points[a]

LEMMA PlaceByRank ==
  ASSUME NEW q \in Row, NEW r \in Row, Ranked(q) = Ranked(r) PROVE Place(q) = Place(r)
<1>1. TierOrder[q.tier] = TierOrder[r.tier] /\ q.rank = r.rank
  BY DEF Ranked
<1>2. q.tier = "B" <=> r.tier = "B"
  BY <1>1, TierOrderFacts DEF Row
<1> HIDE DEF Ranked
<1> QED BY <1>1, <1>2 DEF Place

LEMMA SamePlace ==
  ASSUME NEW f, IsField(f), NEW h, IsField(h), NEW ev, ~Timed(ev), Matched(f, h, ev), NEW i, NEW j,
         Names(Eligible(Group(f, i))) = Names(Eligible(Group(h, j))), Eligible(Group(f, i)) # {}
  PROVE  Place(CHOOSE r \in Eligible(Group(f, i)) : TRUE) = Place(CHOOSE r \in Eligible(Group(h, j)) : TRUE)
<1> DEFINE g == Eligible(Group(f, i))
           e == Eligible(Group(h, j))
           q == CHOOSE r \in g : TRUE
           x == CHOOSE r \in e : TRUE
<1>1. q \in g
  OBVIOUS
<1>2. e # {}
  BY DEF Names
<1>3. x \in e
  BY <1>2
<1>4. /\ g = {r \in Eligible(f) : Nth(f, r) = i}
      /\ e = {r \in Eligible(h) : Nth(h, r) = j}
      /\ Eligible(f) \subseteq f /\ Eligible(h) \subseteq h /\ f \subseteq Row /\ h \subseteq Row
  BY GroupFacts DEF Eligible, IsField
<1> HIDE DEF g, e, q, x
<1>5. PICK y \in e : y.who = q.who
  BY <1>1 DEF Names, g, e
<1>6. Place(q) = Place(y)
  BY <1>1, <1>4, <1>5 DEF Matched
<1>7. Ranked(y) = Ranked(x)
  BY <1>3, <1>4, <1>5, SameGroup
<1>8. Place(y) = Place(x)
  BY <1>3, <1>4, <1>5, <1>7, PlaceByRank
<1> QED BY <1>6, <1>8 DEF q, x, g, e

LEMMA FirstOfGroup ==
  ASSUME NEW ev, ~Timed(ev), NEW acc, NEW g, Eligible(g) # {} PROVE FirstPlace(ev, acc, g) = Place(CHOOSE r \in Eligible(g) : TRUE)
BY DEF FirstPlace, Timed

LEMMA EachAlike ==
  ASSUME NEW f, IsField(f), NEW h, IsField(h), NEW ev, Matched(f, h, ev), NEW i, NEW j,
         Names(Eligible(Group(f, i))) = Names(Eligible(Group(h, j))), Eligible(Group(f, i)) # {},
         NEW s, NEW t, s.place = t.place
  PROVE  /\ Each(ev, s, Group(f, i)) = Each(ev, t, Group(h, j))
         /\ Reached(ev, s, Group(f, i)) <=> Reached(ev, t, Group(h, j))
         /\ Cardinality(Eligible(Group(f, i))) = Cardinality(Eligible(Group(h, j)))
<1> DEFINE g == Group(f, i)
           e == Group(h, j)
<1>1. g \in SUBSET f /\ e \in SUBSET h
  BY GroupFacts
<1>2. Cardinality(Eligible(g)) = Cardinality(Eligible(e))
  <2>1. Cardinality(Names(Eligible(g))) = Cardinality(Eligible(g)) /\ Cardinality(Names(Eligible(e))) = Cardinality(Eligible(e))
    <3> HIDE DEF g, e
    <3> QED BY <1>1, NamesPart
  <2> QED BY <2>1
<1>3. FirstPlace(ev, s, g) = FirstPlace(ev, t, e)
  <2>0. Eligible(e) # {}
    BY DEF Names
  <2>1. CASE Timed(ev)
    BY <2>0, <2>1 DEF FirstPlace, Timed
  <2>2. CASE ~Timed(ev)
    BY <2>0, <2>2, SamePlace, FirstOfGroup
  <2> QED BY <2>1, <2>2
<1> HIDE DEF g, e
<1> QED BY <1>2, <1>3 DEF Each, Reached, g, e

LEMMA TakenAlike ==
  ASSUME NEW rule \in Rule, NEW other, Alike(rule, other), NEW ev \in Kind, ~Relay(ev), NEW g, NEW e,
         Names(Eligible(g)) = Names(Eligible(e)), NEW s, NEW t, s.pool = t.pool, s.used = t.used
  PROVE  Taken(rule, ev, s, g) = Taken(other, ev, t, e)
<1>1. Entered(rule, ev, g) = Entered(other, ev, e)
  BY DEF Entered, Alike
<1>2. Limit(rule, ev) = rule /\ Limit(other, ev) = other
  BY DEF Limit, Relay
<1>3. other \in Rule /\ other.scope = rule.scope /\ other.cap = rule.cap /\ rule.scope \in {"none", "event", "meet"}
  BY DEF Alike, Rule
<1> DEFINE in == Entered(rule, ev, g)
<1>4. /\ rule.scope = "none" => Taken(rule, ev, s, g) = in
      /\ rule.scope = "event" => Taken(rule, ev, s, g) = {a \in in : s.used[a[1]] + Cardinality(Earlier(in, a)) <= rule.cap}
      /\ rule.scope = "meet" => Taken(rule, ev, s, g) =
           {a \in in : \/ s.pool[a] > 0
                       \/ TeamWeight(s.pool, a[1]) + Weight(ev) * Cardinality({b \in Earlier(in, a) : s.pool[b] = 0}) <= rule.cap}
  BY <1>2 DEF Taken, Admitted
<1>5. /\ rule.scope = "none" => Taken(other, ev, t, e) = in
      /\ rule.scope = "event" => Taken(other, ev, t, e) = {a \in in : t.used[a[1]] + Cardinality(Earlier(in, a)) <= rule.cap}
      /\ rule.scope = "meet" => Taken(other, ev, t, e) =
           {a \in in : \/ t.pool[a] > 0
                       \/ TeamWeight(t.pool, a[1]) + Weight(ev) * Cardinality({b \in Earlier(in, a) : t.pool[b] = 0}) <= rule.cap}
  BY <1>1, <1>2, <1>3 DEF Taken, Admitted
<1> HIDE DEF in
<1>6. CASE rule.scope = "none"
  BY <1>4, <1>5, <1>6
<1>7. CASE rule.scope = "event"
  BY <1>4, <1>5, <1>7
<1>8. CASE rule.scope = "meet"
  BY <1>4, <1>5, <1>8
<1> QED BY <1>3, <1>6, <1>7, <1>8

(* A group scored of each leaves the standings even. *)
LEMMA StepAlike ==
  ASSUME NEW f, IsField(f), NEW h, IsField(h), NEW rule \in Rule, NEW other, Alike(rule, other), NEW ev \in Kind, ~Relay(ev),
         Matched(f, h, ev), NEW i, NEW j,
         Names(Eligible(Group(f, i))) = Names(Eligible(Group(h, j))), Eligible(Group(f, i)) # {},
         NEW s \in Standing(f), NEW t \in Standing(h), Even(s, t, Names(Eligible(f)))
  PROVE  Even(GroupScored(rule, ev, s, Group(f, i)), GroupScored(other, ev, t, Group(h, j)), Names(Eligible(f)))
<1> DEFINE g == Group(f, i)
           e == Group(h, j)
           u == GroupScored(rule, ev, s, g)
           v == GroupScored(other, ev, t, e)
<1>1. g \in SUBSET f /\ e \in SUBSET h /\ other \in Rule
  BY GroupFacts DEF Alike
<1>2. Each(ev, s, g) = Each(ev, t, e) /\ (Reached(ev, s, g) <=> Reached(ev, t, e)) /\ Cardinality(Eligible(g)) = Cardinality(Eligible(e))
  BY EachAlike DEF Even
<1>3. Taken(rule, ev, s, g) = Taken(other, ev, t, e)
  BY TakenAlike DEF Even
<1>4. Names(Eligible(f)) \subseteq Names(f) /\ Names(Eligible(f)) \subseteq Names(h) /\ Names(f) \subseteq Athlete
  <2>1. Names(Eligible(f)) = Names(Eligible(h))
    BY DEF Matched
  <2>2. f \in SUBSET f /\ h \in SUBSET h
    OBVIOUS
  <2>3. Names(Eligible(f)) \subseteq Names(f) /\ Names(f) \subseteq Athlete /\ Names(Eligible(h)) \subseteq Names(h)
    BY <2>2, NamesPart
  <2> QED BY <2>1, <2>3
<1> HIDE DEF g, e
<1>5. Leaves(u, f, rule, ev, s, g) /\ Leaves(v, h, other, ev, t, e)
  BY <1>1, GroupGives
<1> HIDE DEF u, v
<1>6. /\ (Advances(rule, ev, s, g) <=> Advances(other, ev, t, e))
      /\ Paid(rule, ev, s, g) = Paid(other, ev, t, e)
  BY <1>2, <1>3 DEF Paid, Advances, Alike
<1>7. ByPool(rule, ev) <=> ByPool(other, ev)
  BY DEF ByPool, Alike
<1>8. s.place = t.place /\ s.pool = t.pool /\ s.used = t.used /\ \A a \in Names(Eligible(f)) : s.points[a] = t.points[a]
  BY DEF Even
<1>9. u.place = v.place
  BY <1>2, <1>5, <1>6, <1>8 DEF Leaves
<1>10. u.pool = v.pool
  <2>1. \A a \in Athlete : u.pool[a] = v.pool[a]
    BY <1>5, <1>6, <1>7, <1>8 DEF Leaves
  <2>2. u.pool \in [Athlete -> Nat] /\ v.pool \in [Athlete -> Nat]
    BY <1>5 DEF Leaves, Standing
  <2> QED BY <2>1, <2>2
<1>11. u.used = v.used
  <2>1. \A k \in Club : u.used[k] = v.used[k]
    BY <1>5, <1>6, <1>8 DEF Leaves
  <2>2. u.used \in [Club -> Nat] /\ v.used \in [Club -> Nat]
    BY <1>5 DEF Leaves, Standing
  <2> QED BY <2>1, <2>2
<1>12. ASSUME NEW a \in Names(Eligible(f)) PROVE u.points[a] = v.points[a]
  <2>1. a \in Names(f) /\ a \in Names(h)
    BY <1>4
  <2>2. u.points[a] = IF a \in Paid(rule, ev, s, g) THEN Each(ev, s, g) ELSE s.points[a]
    BY <1>5, <2>1 DEF Leaves
  <2>3. v.points[a] = IF a \in Paid(other, ev, t, e) THEN Each(ev, t, e) ELSE t.points[a]
    BY <1>5, <2>1 DEF Leaves
  <2> QED BY ONLY <1>2, <1>6, <1>8, <2>2, <2>3
<1> QED BY <1>9, <1>10, <1>11, <1>12 DEF Even, u, v, g, e

(* A group nobody can earn points in leaves the standing as it was. *)
LEMMA IdleGroup ==
  ASSUME NEW f, IsField(f), NEW rule \in Rule, NEW ev \in Kind, NEW s \in Standing(f), NEW g \in SUBSET f, Eligible(g) = {}
  PROVE  Even(GroupScored(rule, ev, s, g), s, Names(f))
<1> DEFINE u == GroupScored(rule, ev, s, g)
<1>1. Leaves(u, f, rule, ev, s, g)
  BY GroupGives
<1> HIDE DEF u
<1>2. ~Advances(rule, ev, s, g) /\ Paid(rule, ev, s, g) = {}
  BY ReachedIs DEF Paid, Advances
<1>3. u.place = s.place /\ \A a \in Names(f) : u.points[a] = s.points[a]
  BY <1>1, <1>2 DEF Leaves
<1>4. u.pool = s.pool
  <2>1. u.pool \in [Athlete -> Nat] /\ s.pool \in [Athlete -> Nat] /\ \A a \in Athlete : u.pool[a] = s.pool[a]
    BY <1>1, <1>2 DEF Leaves, Standing
  <2> QED BY <2>1
<1>5. u.used = s.used
  <2>1. \A t \in Club : Of({}, t) = {}
    BY DEF Of
  <2>2. Cardinality({}) = 0
    BY FS_EmptySet
  <2>3. u.used \in [Club -> Nat] /\ s.used \in [Club -> Nat] /\ \A t \in Club : u.used[t] = s.used[t] + Cardinality(Of({}, t))
    BY <1>1, <1>2 DEF Leaves, Standing
  <2>4. \A t \in Club : u.used[t] = s.used[t]
    <3> TAKE t \in Club
    <3>1. u.used[t] = s.used[t] + Cardinality(Of({}, t)) /\ s.used[t] \in Nat
      BY <2>3
    <3>2. Cardinality(Of({}, t)) = 0
      BY <2>1, <2>2
    <3> QED BY <3>1, <3>2
  <2> QED BY <2>3, <2>4
<1> QED BY <1>3, <1>4, <1>5 DEF Even, u

LEMMA EvenFacts ==
  ASSUME NEW s, NEW t, NEW u, NEW names
  PROVE  /\ Even(s, t, names) => Even(t, s, names)
         /\ Even(s, t, names) /\ Even(t, u, names) => Even(s, u, names)
BY DEF Even

(* Whenever the same have been scored of two matched events, the standings *)
(* are even.                                                               *)
LEMMA StandingsAlike ==
  ASSUME NEW f, IsField(f), NEW h, IsField(h), NEW rule \in Rule, NEW other, Alike(rule, other), NEW ev \in Kind, ~Relay(ev),
         Matched(f, h, ev), NEW p \in [Athlete -> Nat]
  PROVE  \A i \in 0 .. Len(Groups(f)), j \in 0 .. Len(Groups(h)) :
           Names(Done(f, i)) = Names(Done(h, j)) => Even(Standings(rule, ev, f, p)[i], Standings(other, ev, h, p)[j], Names(Eligible(f)))
<1> DEFINE S == Standings(rule, ev, f, p)
           T == Standings(other, ev, h, p)
           N == Len(Groups(f))
           M == Len(Groups(h))
           E == Names(Eligible(f))
           D == {n \in Nat : \A i \in 0 .. N, j \in 0 .. M : i + j <= n /\ Names(Done(f, i)) = Names(Done(h, j)) => Even(S[i], T[j], E)}
<1>1. /\ N \in Nat /\ M \in Nat /\ other \in Rule
      /\ \A i : Group(f, i) \in SUBSET f
      /\ \A i : Group(h, i) \in SUBSET h
  BY GroupFacts DEF Alike
<1>2. /\ S[0] = Nothing(f, p)
      /\ \A i \in 0 .. N : S[i] \in Standing(f)
      /\ \A i \in 1 .. N : S[i] = GroupScored(rule, ev, S[i - 1], Group(f, i))
  BY StandingsAre
<1>3. /\ T[0] = Nothing(h, p)
      /\ \A i \in 0 .. M : T[i] \in Standing(h)
      /\ \A i \in 1 .. M : T[i] = GroupScored(other, ev, T[i - 1], Group(h, i))
  BY <1>1, StandingsAre
<1>4. E \subseteq Names(f) /\ E \subseteq Names(h) /\ E = Names(Eligible(h))
  BY DEF Matched, Names, Eligible
<1>5. Even(S[0], T[0], E)
  <2> HIDE DEF S, T, E
  <2>1. /\ Nothing(f, p).place = Nothing(h, p).place /\ Nothing(f, p).pool = Nothing(h, p).pool
        /\ Nothing(f, p).used = Nothing(h, p).used
        /\ \A a \in E : Nothing(f, p).points[a] = Nothing(h, p).points[a]
    BY <1>4 DEF Nothing
  <2> QED BY <1>2, <1>3, <2>1 DEF Even
<1> HIDE DEF S, T, N, M, E
<1>6. 0 \in D
  <2> SUFFICES ASSUME NEW i \in 0 .. N, NEW j \in 0 .. M, i + j <= 0 PROVE Even(S[i], T[j], E)
    OBVIOUS
  <2>1. i = 0 /\ j = 0
    BY <1>1
  <2> QED BY <1>5, <2>1
<1>7. ASSUME NEW n \in D PROVE n + 1 \in D
  <2>1. n + 1 \in Nat /\ n \in Nat
    OBVIOUS
  <2> SUFFICES ASSUME NEW i \in 0 .. N, NEW j \in 0 .. M, i + j <= n + 1, Names(Done(f, i)) = Names(Done(h, j))
               PROVE  Even(S[i], T[j], E)
    BY <2>1
  <2>2. \A k \in 0 .. N, l \in 0 .. M : k + l <= n /\ Names(Done(f, k)) = Names(Done(h, l)) => Even(S[k], T[l], E)
    OBVIOUS
  <2> HIDE DEF D
  <2>3. i \in Nat /\ j \in Nat /\ i <= N /\ j <= M
    BY <1>1
  <2>4. /\ i # 0 => Names(Done(f, i - 1)) = Names(Done(f, i)) \ Names(Eligible(Group(f, i)))
        /\ j # 0 => Names(Done(h, j - 1)) = Names(Done(h, j)) \ Names(Eligible(Group(h, j)))
    BY <2>3, DoneBefore
  <2>5. Names({}) = {}
    BY DEF Names
  <2>6. CASE i # 0 /\ Eligible(Group(f, i)) = {}
    <3>1. i - 1 \in 0 .. N /\ i - 1 + j <= n /\ i \in 1 .. N
      BY <1>1, <2>1, <2>3, <2>6
    <3>2. Even(S[i - 1], T[j], E)
      BY <2>2, <2>4, <2>5, <2>6, <3>1
    <3>3. Even(S[i], S[i - 1], Names(f))
      BY <1>1, <1>2, <2>6, <3>1, IdleGroup
    <3>4. Even(S[i], S[i - 1], E)
      BY <1>4, <3>3 DEF Even
    <3> QED BY <3>2, <3>4, EvenFacts
  <2>7. CASE j # 0 /\ Eligible(Group(h, j)) = {}
    <3>1. j - 1 \in 0 .. M /\ i + (j - 1) <= n /\ j \in 1 .. M
      BY <1>1, <2>1, <2>3, <2>7
    <3>2. Even(S[i], T[j - 1], E)
      BY <2>2, <2>4, <2>5, <2>7, <3>1
    <3>3. Even(T[j], T[j - 1], Names(h))
      BY <1>1, <1>3, <2>7, <3>1, IdleGroup
    <3>4. Even(T[j - 1], T[j], E)
      BY <1>4, <3>3 DEF Even
    <3> QED BY <3>2, <3>4, EvenFacts
  <2>8. CASE (i = 0 \/ Eligible(Group(f, i)) # {}) /\ (j = 0 \/ Eligible(Group(h, j)) # {})
    <3>1. Done(f, 0) = {} /\ Done(h, 0) = {}
      <4>1. /\ \A r \in f : Nth(f, r) \in 1 .. Len(Groups(f))
            /\ \A r \in h : Nth(h, r) \in 1 .. Len(Groups(h))
        BY GroupFacts
      <4> QED BY <4>1 DEF Done, Eligible
    <3>2. /\ Eligible(Group(f, i)) # {} => Names(Done(f, i)) # {}
          /\ Eligible(Group(h, j)) # {} => Names(Done(h, j)) # {}
      <4>1. /\ Eligible(Group(f, i)) = {r \in Eligible(f) : Nth(f, r) = i}
            /\ Eligible(Group(h, j)) = {r \in Eligible(h) : Nth(h, r) = j}
        BY GroupFacts
      <4>2. Eligible(Group(f, i)) \subseteq Done(f, i) /\ Eligible(Group(h, j)) \subseteq Done(h, j)
        BY <2>3, <4>1 DEF Done
      <4> QED BY <4>2 DEF Names
    <3>3. i = 0 <=> j = 0
      BY <2>5, <2>8, <3>1, <3>2
    <3>4. CASE i = 0
      BY <1>5, <3>3, <3>4
    <3>5. CASE i # 0
      <4>1. j # 0 /\ Eligible(Group(f, i)) # {} /\ Eligible(Group(h, j)) # {}
        BY <2>8, <3>3, <3>5
      <4>2. Names(Eligible(Group(f, i))) = Names(Eligible(Group(h, j)))
        <5>1. Names(Eligible(Group(f, i))) \subseteq Names(Eligible(Group(h, j)))
          BY <2>3, <4>1, SameLast
        <5>2. Matched(h, f, ev)
          BY MatchedBack
        <5>3. Names(Eligible(Group(h, j))) \subseteq Names(Eligible(Group(f, i)))
          BY <2>3, <4>1, <5>2, SameLast
        <5> QED BY <5>1, <5>3
      <4>3. Names(Done(f, i - 1)) = Names(Done(h, j - 1))
        BY <2>4, <3>5, <4>1, <4>2
      <4>4. i - 1 \in 0 .. N /\ j - 1 \in 0 .. M /\ (i - 1) + (j - 1) <= n /\ i \in 1 .. N /\ j \in 1 .. M
        BY <1>1, <2>1, <2>3, <3>5, <4>1
      <4>5. Even(S[i - 1], T[j - 1], E) /\ S[i - 1] \in Standing(f) /\ T[j - 1] \in Standing(h)
        BY <1>2, <1>3, <2>2, <4>3, <4>4
      <4>6. Even(GroupScored(rule, ev, S[i - 1], Group(f, i)), GroupScored(other, ev, T[j - 1], Group(h, j)), E)
        BY <4>1, <4>2, <4>5, StepAlike DEF E
      <4> QED BY <1>2, <1>3, <4>4, <4>6
    <3> QED BY <3>4, <3>5
  <2> QED BY <2>6, <2>7, <2>8
<1>8. D = Nat
  BY <1>6, <1>7, NumberInduction
<1>9. ASSUME NEW i \in 0 .. N, NEW j \in 0 .. M, Names(Done(f, i)) = Names(Done(h, j)) PROVE Even(S[i], T[j], E)
  <2>1. i + j \in Nat /\ i + j <= i + j
    BY <1>1
  <2>2. i + j \in D
    BY <1>8, <2>1
  <2> HIDE DEF S, T
  <2> QED BY <1>9, <2>1, <2>2
<1> QED BY <1>9 DEF S, T, N, M, E

LEMMA IneligibleEarnNothing ==
  ASSUME NEW f, IsField(f), NEW rule \in Rule, NEW ev \in Kind, NEW p \in [Athlete -> Nat], NEW a \in Names(f), a \notin Names(Eligible(f))
  PROVE  Standings(rule, ev, f, p)[Len(Groups(f))].points[a] = 0
<1>1. PICK r \in f : r.who = a
  BY DEF Names
<1> DEFINE g == Group(f, Nth(f, r))
           acc == Standings(rule, ev, f, p)[Nth(f, r) - 1]
           last == Standings(rule, ev, f, p)[Len(Groups(f))]
<1>2. last.points[r.who] = IF r.who \in Paid(rule, ev, acc, g) THEN Each(ev, acc, g) ELSE 0
  BY RowEarns
<1>3. g \in SUBSET f
  BY GroupFacts
<1> HIDE DEF g, acc, last
<1>4. Paid(rule, ev, acc, g) \subseteq Names(Eligible(g))
  BY <1>3, PaidIsIn
<1>5. Names(Eligible(g)) \subseteq Names(Eligible(f))
  BY <1>3 DEF Names, Eligible
<1> QED BY <1>1, <1>2, <1>4, <1>5 DEF last

(* Matched events come to the same. *)
LEMMA EventsAlike ==
  ASSUME NEW f, IsField(f), NEW h, IsField(h), NEW rule \in Rule, NEW other, Alike(rule, other), NEW ev \in Kind, ~Relay(ev),
         Matched(f, h, ev), NEW p \in [Athlete -> Nat]
  PROVE  LET s == Standings(rule, ev, f, p)[Len(Groups(f))]
             t == Standings(other, ev, h, p)[Len(Groups(h))]
         IN  s.pool = t.pool /\ \A a \in Names(f) \cap Names(h) : s.points[a] = t.points[a]
<1> DEFINE s == Standings(rule, ev, f, p)[Len(Groups(f))]
           t == Standings(other, ev, h, p)[Len(Groups(h))]
<1>1. Len(Groups(f)) \in 0 .. Len(Groups(f)) /\ Len(Groups(h)) \in 0 .. Len(Groups(h)) /\ other \in Rule
  BY GroupFacts DEF Alike
<1>2. Done(f, Len(Groups(f))) = Eligible(f) /\ Done(h, Len(Groups(h))) = Eligible(h)
  <2>1. (\A r \in f : Nth(f, r) <= Len(Groups(f))) /\ \A r \in h : Nth(h, r) <= Len(Groups(h))
    BY GroupFacts
  <2> QED BY <2>1 DEF Done, Eligible
<1>3. Names(Eligible(f)) = Names(Eligible(h))
  BY DEF Matched
<1>4. Even(s, t, Names(Eligible(f)))
  BY <1>1, <1>2, <1>3, StandingsAlike
<1>5. ASSUME NEW a \in Names(f) \cap Names(h), a \notin Names(Eligible(f)) PROVE s.points[a] = 0 /\ t.points[a] = 0
  BY <1>1, <1>3, <1>5, IneligibleEarnNothing
<1> HIDE DEF s, t
<1>6. s.pool = t.pool /\ \A a \in Names(f) \cap Names(h) : s.points[a] = t.points[a]
  <2>1. s.pool = t.pool /\ \A a \in Names(Eligible(f)) : s.points[a] = t.points[a]
    BY <1>4 DEF Even
  <2> QED BY <1>5, <2>1
<1> QED BY <1>6 DEF s, t

(* Who is eligible in either of two printings of an event, one of which     *)
(* leaves out rows that cannot earn points.                                *)
LEMMA PrintingsMatch ==
  ASSUME NEW f, IsField(f), NEW h \in SUBSET f, NEW k \in SUBSET h, Eligible(h) = Eligible(k), NEW ev, ~Timed(ev) => h = k,
         NEW d, Eligible(d) = Eligible(Reprinted(h)), NEW e, Eligible(e) = Eligible(Reprinted(k))
  PROVE  Matched(d, e, ev)
<1>1. IsField(h) /\ IsField(k) /\ k \in SUBSET f
  BY FieldPart
<1>2. Eligible(d) = {PrintAs(h, r) : r \in Eligible(h)} /\ Eligible(e) = {PrintAs(k, r) : r \in Eligible(h)}
  BY <1>1, ReprintedFacts
<1>3. Eligible(h) \subseteq h /\ Eligible(h) \subseteq k /\ Eligible(h) \subseteq f
  BY <1>1 DEF Eligible
<1>4. \A r \in Eligible(h) : PrintAs(h, r).who = r.who /\ PrintAs(k, r).who = r.who
  BY <1>1, <1>3, PrintKeeps
<1>5. \A q, r \in Eligible(h) : q.who = r.who => q = r
  BY <1>3 DEF IsField
<1>6. \A q, r \in Eligible(h) : /\ RankedAbove(PrintAs(h, q), PrintAs(h, r)) <=> RankedAbove(q, r)
                                /\ RankedAbove(PrintAs(k, q), PrintAs(k, r)) <=> RankedAbove(q, r)
  BY <1>1, <1>3, PrintIsOrder
<1>7. Names(Eligible(d)) = Names(Eligible(e))
  BY <1>2, <1>4 DEF Names
<1>8. ASSUME NEW q \in Eligible(d), NEW x \in Eligible(e), q.who = x.who
      PROVE  \E r \in Eligible(h) : q = PrintAs(h, r) /\ x = PrintAs(k, r)
  BY <1>2, <1>4, <1>5, <1>8
<1>9. ASSUME NEW q \in Eligible(d), NEW r \in Eligible(d), NEW x \in Eligible(e), NEW y \in Eligible(e), q.who = x.who, r.who = y.who
      PROVE  RankedAbove(q, r) <=> RankedAbove(x, y)
  <2>1. PICK u \in Eligible(h) : q = PrintAs(h, u) /\ x = PrintAs(k, u)
    BY <1>8, <1>9
  <2>2. PICK v \in Eligible(h) : r = PrintAs(h, v) /\ y = PrintAs(k, v)
    BY <1>8, <1>9
  <2> QED BY <1>6, <2>1, <2>2
<1>10. ASSUME ~Timed(ev), NEW q \in Eligible(d), NEW x \in Eligible(e), q.who = x.who PROVE Place(q) = Place(x)
  BY <1>8, <1>10
<1> QED BY <1>7, <1>9, <1>10 DEF Matched

LEMMA MatchedItself == ASSUME NEW f, IsField(f), NEW ev PROVE Matched(f, f, ev)
<1>1. \A q, r \in Eligible(f) : q.who = r.who => q = r
  BY DEF IsField, Eligible
<1> QED BY <1>1 DEF Matched

(* A contestant removed by the place cap. *)
LEMMA RemovedAlike == ASSUME Scene, Settled PROVE RemovedAreAsAbsent
<1> SUFFICES ASSUME ~Relay(event), meet.behavior = "removed"
             PROVE  LET rest == field \ OverPlaceCap(meet, event, field)
                        result == Scored([meet EXCEPT !.placeCap = 0], event, Reprinted(rest), before)
                    IN  result.pool = pool /\ \A a \in Names(rest) : points[a] = result.points[a]
  BY DEF RemovedAreAsAbsent, Relay
<1> DEFINE over == OverPlaceCap(meet, event, field)
           rest == field \ over
           other == [meet EXCEPT !.placeCap = 0]
           R == Reprinted(rest)
           L == Lines(meet, event, field)
<1>1. /\ Fair(field) /\ IsField(field) /\ Printed(field) /\ meet \in Rule /\ event \in Kind /\ before \in [Athlete -> Nat]
      /\ points = Scored(meet, event, field, before).points /\ pool = Scored(meet, event, field, before).pool
  BY DEF Scene, Settled, Fair
<1>2. other \in Rule /\ Alike(meet, other) /\ other.behavior = "removed" /\ other.placeCap = 0
  BY <1>1 DEF Alike, Rule
<1>3. over \subseteq field /\ rest \in SUBSET field
  BY OverIsPart
<1>4. Remaining(meet, event, field) = R
  <2>1. Shifted(field \ over, over) = R
    BY <1>1, <1>3, ShiftedIsPrinted
  <2> HIDE DEF R
  <2> QED BY <2>1 DEF Remaining
<1>5. Fair(R) /\ IsField(R) /\ Printed(R) /\ Names(R) = Names(rest)
  <2> HIDE DEF rest
  <2>1. Fair(R)
    BY <1>1, <1>3, FairPart
  <2>2. Names(R) = Names(rest)
    BY <1>1, <1>3, ReprintedFacts
  <2> QED BY <2>1, <2>2 DEF Fair
<1> HIDE DEF over, rest, other, R
<1>6. OverPlaceCap(other, event, R) = {}
  BY <1>2 DEF OverPlaceCap
<1>7. Remaining(other, event, R) = R
  <2>1. R \ {} = R /\ {} \in SUBSET R
    OBVIOUS
  <2>2. Shifted(R \ {}, {}) = Reprinted(R \ {})
    BY <1>5, <2>1, ShiftedIsPrinted
  <2>3. Reprinted(R) = R
    BY <1>5, PrintedStays
  <2> QED BY <1>2, <1>6, <2>1, <2>2, <2>3 DEF Remaining
<1>8. Lines(other, event, R) = L
  BY <1>4, <1>7 DEF Lines
<1>9. IsField(L) /\ Names(field) \ Names(over) \subseteq Names(L)
  BY <1>1, LinesFair DEF over
<1> HIDE DEF L
<1>10. Matched(L, L, event)
  BY <1>9, MatchedItself
<1> DEFINE one == Standings(meet, event, L, before)[Len(Groups(L))]
           two == Standings(other, event, L, before)[Len(Groups(L))]
<1>11. one.pool = two.pool /\ \A a \in Names(L) : one.points[a] = two.points[a]
  BY <1>1, <1>2, <1>9, <1>10, EventsAlike
<1>12. Final(meet, event, field, before) = one /\ Final(other, event, R, before) = two
  BY <1>8 DEF Final, L
<1> HIDE DEF one, two
<1>13. /\ pool = one.pool
       /\ points = [a \in Names(field) |-> IF a \in Names(over) THEN 0 ELSE one.points[a]]
  BY <1>1, <1>12, ScoredIs DEF over
<1>14. /\ Scored(other, event, R, before).pool = two.pool
       /\ Scored(other, event, R, before).points = [a \in Names(rest) |-> IF a \in Names({}) THEN 0 ELSE two.points[a]]
  <2>1. /\ Scored(other, event, R, before).pool = two.pool
        /\ Scored(other, event, R, before).points = [a \in Names(R) |-> IF a \in Names(OverPlaceCap(other, event, R)) THEN 0 ELSE two.points[a]]
    BY <1>12, ScoredIs
  <2> QED BY <1>5, <1>6, <2>1
<1>15. ASSUME NEW a \in Names(rest) PROVE points[a] = Scored(other, event, R, before).points[a]
  <2>1. a \in Names(field) /\ a \notin Names(over)
    BY <1>1, <1>3 DEF Names, rest, over, IsField
  <2>2. Names({}) = {}
    BY DEF Names
  <2> QED BY <1>9, <1>11, <1>13, <1>14, <2>1, <2>2
<1> QED BY <1>11, <1>13, <1>14, <1>15 DEF over, rest, other, R

(* The place cap takes the same contestants from either printing. *)
LEMMA FinishPrinted ==
  ASSUME NEW f, IsField(f), NEW h \in SUBSET f, NEW q \in h, NEW r \in h
  PROVE  FinishedBefore(PrintAs(h, q), PrintAs(h, r)) <=> FinishedBefore(q, r)
<1>1. PrintAs(h, q).who = q.who /\ PrintAs(h, r).who = r.who
  BY PrintKeeps
<1>2. /\ RankedAbove(PrintAs(h, q), PrintAs(h, r)) <=> RankedAbove(q, r)
      /\ Ranked(PrintAs(h, q)) = Ranked(PrintAs(h, r)) <=> Ranked(q) = Ranked(r)
  BY PrintIsOrder
<1> QED BY <1>1, <1>2 DEF FinishedBefore

LEMMA OverPrinted ==
  ASSUME NEW f, IsField(f), NEW h \in SUBSET f, Eligible(h) = Eligible(f), NEW rule \in Rule, NEW ev
  PROVE  OverPlaceCap(rule, ev, Reprinted(h)) = {PrintAs(h, r) : r \in OverPlaceCap(rule, ev, f)}
<1> DEFINE E == Eligible(f)
           m == [r \in E |-> PrintAs(h, r)]
           Mates(r) == {q \in E : q.who[1] = r.who[1] /\ FinishedBefore(q, r)}
           Again(r) == {q \in Eligible(Reprinted(h)) : q.who[1] = PrintAs(h, r).who[1] /\ FinishedBefore(q, PrintAs(h, r))}
<1>1. Eligible(Reprinted(h)) = {PrintAs(h, r) : r \in E}
  BY ReprintedFacts
<1>2. E \subseteq h /\ E \subseteq f /\ IsFiniteSet(E)
  <2>1. E \subseteq h /\ E \subseteq f
    BY DEF Eligible
  <2> QED BY <2>1, FS_Subset DEF IsField
<1> HIDE DEF E
<1>3. \A r \in E : PrintAs(h, r).who = r.who
  BY <1>2, PrintKeeps
<1>4. \A q, r \in E : FinishedBefore(PrintAs(h, q), PrintAs(h, r)) <=> FinishedBefore(q, r)
  BY <1>2, FinishPrinted
<1>5. \A q, r \in E : PrintAs(h, q) = PrintAs(h, r) => q = r
  BY <1>2, <1>3 DEF IsField
<1>6. ASSUME NEW r \in E PROVE Cardinality(Again(r)) = Cardinality(Mates(r))
  <2>1. Again(r) = {m[q] : q \in Mates(r)}
    <3>1. Again(r) = {PrintAs(h, q) : q \in Mates(r)}
      BY <1>1, <1>3, <1>4
    <3> QED BY <3>1
  <2>2. IsFiniteSet(Mates(r))
    BY <1>2, FS_Subset
  <2>3. \A x, y \in Mates(r) : m[x] = m[y] => x = y
    BY <1>5
  <2> HIDE DEF Again, Mates, m
  <2> QED BY <2>1, <2>2, <2>3, ImageCount
<1>7. OverCap(rule, Reprinted(h)) = {PrintAs(h, r) : r \in OverCap(rule, f)}
  <2>1. OverCap(rule, f) = {r \in E : Cardinality(Mates(r)) >= rule.placeCap}
    BY DEF OverCap, E
  <2>2. OverCap(rule, Reprinted(h))
          = {x \in Eligible(Reprinted(h)) :
               Cardinality({q \in Eligible(Reprinted(h)) : q.who[1] = x.who[1] /\ FinishedBefore(q, x)}) >= rule.placeCap}
    BY DEF OverCap
  <2>3. OverCap(rule, Reprinted(h)) = {PrintAs(h, r) : r \in {s \in E : Cardinality(Again(s)) >= rule.placeCap}}
    BY <1>1, <2>2
  <2>4. {s \in E : Cardinality(Again(s)) >= rule.placeCap} = {s \in E : Cardinality(Mates(s)) >= rule.placeCap}
    <3> HIDE DEF Again, Mates
    <3> QED BY <1>6
  <2> HIDE DEF Again, Mates
  <2> QED BY <2>1, <2>3, <2>4
<1> QED BY <1>7 DEF OverPlaceCap

(* Those who hold a place, in a meet without its exhibition swims. *)
LEMMA HoldingPrinted ==
  ASSUME NEW f, IsField(f), Printed(f), NEW rule \in Rule, NEW ev \in Kind, ~Relay(ev)
  PROVE  LET others == f \ Exhibitions(f)
             X == Reprinted(others)
             H == Holding(rule, ev, f)
             k == H \ Exhibitions(f)
         IN  /\ k \subseteq H /\ k \subseteq others /\ Eligible(k) = Eligible(H) /\ (~Timed(ev) => H = k)
             /\ Reprinted(Holding(rule, ev, X)) = Reprinted(k)
             /\ Names(OverPlaceCap(rule, ev, X)) = Names(OverPlaceCap(rule, ev, f))
<1> DEFINE others == f \ Exhibitions(f)
           X == Reprinted(others)
           H == Holding(rule, ev, f)
           k == H \ Exhibitions(f)
           over == OverPlaceCap(rule, ev, f)
<1>1. others \in SUBSET f /\ Eligible(others) = Eligible(f)
  BY DEF Eligible, Exhibitions
<1>2. over \subseteq Eligible(f) /\ Eligible(f) \subseteq others
  BY <1>1, OverIsPart DEF Eligible
<1>3. /\ X = {PrintAs(others, r) : r \in others}
      /\ Exhibitions(X) = {}
  <2>1. X = {PrintAs(others, r) : r \in others} /\ Exhibitions(X) = {PrintAs(others, r) : r \in Exhibitions(others)}
    <3> HIDE DEF others
    <3> QED BY <1>1, ReprintedFacts
  <2>2. Exhibitions(others) = {}
    BY DEF Exhibitions
  <2> HIDE DEF X, others
  <2> QED BY <2>1, <2>2
<1>4. OverPlaceCap(rule, ev, X) = {PrintAs(others, r) : r \in over}
  <2> HIDE DEF others
  <2> QED BY <1>1, OverPrinted
<1>5. k = Racing(rule, ev, f) \ Exhibitions(f) /\ k \subseteq H /\ k \subseteq others /\ (~Timed(ev) => H = k) /\ H \subseteq f
  <2>1. Racing(rule, ev, f) \subseteq f
    BY DEF Racing
  <2>2. H = IF Timed(ev) THEN Racing(rule, ev, f) ELSE Racing(rule, ev, f) \ Exhibitions(f)
    BY DEF Holding, Timed, Relay
  <2> HIDE DEF H
  <2> QED BY <2>1, <2>2
<1>6. Eligible(k) = Eligible(H)
  <2> HIDE DEF H
  <2> QED BY <1>5 DEF Eligible, Exhibitions
<1>7. Holding(rule, ev, X) = {PrintAs(others, r) : r \in k}
  <2>1. Holding(rule, ev, X) = Racing(rule, ev, X)
    <3>1. Racing(rule, ev, X) \ Exhibitions(X) = Racing(rule, ev, X)
      BY <1>3
    <3>2. Exhibitions(X) \cap Racing(rule, ev, X) = {}
      BY <1>3
    <3> HIDE DEF X
    <3> QED BY <3>1 DEF Holding, Exhibitions
  <2>2. \A q, r \in others : PrintAs(others, q) = PrintAs(others, r) => q = r
    <3>1. \A r \in others : PrintAs(others, r).who = r.who
      <4> HIDE DEF others
      <4> QED BY <1>1, PrintKeeps
    <3>2. \A q, r \in others : q.who = r.who => q = r
      BY <1>1 DEF IsField
    <3> HIDE DEF others
    <3> QED BY <3>1, <3>2
  <2> HIDE DEF X, H, others, over
  <2>3. k = Racing(rule, ev, f) \cap others
    BY <1>5 DEF others, Racing
  <2>4. CASE rule.behavior = "removed"
    <3>1. k = others \ over
      BY <1>1, <2>3, <2>4 DEF Racing, over
    <3>2. Racing(rule, ev, X) = X \ OverPlaceCap(rule, ev, X)
      BY <2>4 DEF Racing
    <3> HIDE DEF k
    <3>3. X \ OverPlaceCap(rule, ev, X) = {PrintAs(others, r) : r \in k}
      BY <1>2, <1>3, <1>4, <2>2, <3>1
    <3> QED BY <2>1, <3>2, <3>3
  <2>5. CASE rule.behavior # "removed"
    <3>1. k = others
      BY <1>1, <2>3, <2>5 DEF Racing
    <3>2. Racing(rule, ev, X) = X
      BY <2>5 DEF Racing
    <3> QED BY <1>3, <2>1, <3>1, <3>2
  <2> QED BY <2>4, <2>5
<1>8. Reprinted(Holding(rule, ev, X)) = Reprinted(k)
  <2> HIDE DEF X, H, others, k
  <2>0. k \in SUBSET others
    BY <1>5
  <2>1. Reprinted({PrintAs(others, r) : r \in k}) = Reprinted(k)
    <3>1. IsField(f) /\ others \in SUBSET f
      BY <1>1
    <3>2. {PrintAs(others, r) : r \in k} = RowsFor(others, k)
      BY DEF RowsFor
    <3>3. Reprinted(RowsFor(others, k)) = Reprinted(k)
      BY ONLY <2>0, <3>1, PrintAgain
    <3> QED BY ONLY <3>2, <3>3
  <2> QED BY <1>7, <2>1
<1>9. Names(OverPlaceCap(rule, ev, X)) = Names(over)
  <2>1. \A r \in over : PrintAs(others, r).who = r.who
    <3> HIDE DEF others, over
    <3> QED BY <1>1, <1>2, PrintKeeps
  <2> HIDE DEF X, others, over
  <2> QED BY <1>4, <2>1 DEF Names
<1> QED BY <1>5, <1>6, <1>8, <1>9

(* An exhibition swim. *)
LEMMA ExhibitionsAlike == ASSUME Scene, Settled PROVE ExhibitionsAreAsAbsent
<1> SUFFICES ASSUME ~Relay(event)
             PROVE  LET others == field \ Exhibitions(field)
                        result == Scored(meet, event, Reprinted(others), before)
                    IN  result.pool = pool /\ \A a \in Names(others) : points[a] = result.points[a]
  BY DEF ExhibitionsAreAsAbsent, Relay
<1> DEFINE others == field \ Exhibitions(field)
           X == Reprinted(others)
           H == Holding(meet, event, field)
           k == H \ Exhibitions(field)
           D == Lines(meet, event, field)
           E == Lines(meet, event, X)
           gone == Names(OverPlaceCap(meet, event, field))
<1>1. /\ Fair(field) /\ IsField(field) /\ Printed(field) /\ meet \in Rule /\ event \in Kind /\ before \in [Athlete -> Nat]
      /\ points = Scored(meet, event, field, before).points /\ pool = Scored(meet, event, field, before).pool
  BY DEF Scene, Settled, Fair
<1>2. others \in SUBSET field
  OBVIOUS
<1>3. Fair(X) /\ Names(X) = Names(others)
  <2> HIDE DEF others
  <2> QED BY <1>1, <1>2, FairPart, ReprintedFacts
<1>4. /\ k \in SUBSET H /\ Eligible(k) = Eligible(H) /\ (~Timed(event) => H = k)
      /\ Reprinted(Holding(meet, event, X)) = Reprinted(k)
      /\ Names(OverPlaceCap(meet, event, X)) = gone
  BY <1>1, HoldingPrinted
<1>5. /\ IsField(D) /\ Eligible(D) = Eligible(Reprinted(H)) /\ H \in SUBSET field
      /\ Names(field) \ gone \subseteq Names(D)
  BY <1>1, LinesFair
<1> HIDE DEF others, X, H, k, D, E, gone
<1>6. /\ IsField(E) /\ Eligible(E) = Eligible(Reprinted(k)) /\ Names(others) \ gone \subseteq Names(E)
  <2>1. /\ IsField(E) /\ Eligible(E) = Eligible(Reprinted(Holding(meet, event, X)))
        /\ Names(X) \ Names(OverPlaceCap(meet, event, X)) \subseteq Names(E)
    BY <1>1, <1>3, LinesFair DEF E
  <2> QED BY <1>3, <1>4, <2>1
<1>7. Matched(D, E, event)
  BY <1>1, <1>4, <1>5, <1>6, PrintingsMatch
<1>8. Alike(meet, meet)
  BY <1>1 DEF Alike
<1> DEFINE one == Standings(meet, event, D, before)[Len(Groups(D))]
           two == Standings(meet, event, E, before)[Len(Groups(E))]
<1>9. one.pool = two.pool /\ \A a \in Names(D) \cap Names(E) : one.points[a] = two.points[a]
  BY <1>1, <1>5, <1>6, <1>7, <1>8, EventsAlike
<1>10. Final(meet, event, field, before) = one /\ Final(meet, event, X, before) = two
  BY DEF Final, D, E
<1> HIDE DEF one, two
<1>11. pool = one.pool /\ points = [a \in Names(field) |-> IF a \in gone THEN 0 ELSE one.points[a]]
  BY <1>1, <1>10, ScoredIs DEF gone
<1>12. /\ Scored(meet, event, X, before).pool = two.pool
       /\ Scored(meet, event, X, before).points = [a \in Names(others) |-> IF a \in gone THEN 0 ELSE two.points[a]]
  <2>1. /\ Scored(meet, event, X, before).pool = two.pool
        /\ Scored(meet, event, X, before).points = [a \in Names(X) |-> IF a \in Names(OverPlaceCap(meet, event, X)) THEN 0 ELSE two.points[a]]
    BY <1>10, ScoredIs
  <2> QED BY <1>3, <1>4, <2>1
<1>13. ASSUME NEW a \in Names(others) PROVE points[a] = Scored(meet, event, X, before).points[a]
  <2>1. a \in Names(field)
    BY <1>2 DEF Names
  <2> QED BY <1>5, <1>6, <1>9, <1>11, <1>12, <2>1
<1> QED BY <1>9, <1>11, <1>12, <1>13 DEF others, X

(* An exhibition swim, and a contestant that the place cap removes, leave  *)
(* the others the points and the pool of a meet without them: every group  *)
(* of theirs is scored at the same turn, by the same standing.  A place     *)
(* worth 0 is a place like any other.                                      *)
THEOREM OthersUndisturbed == ScoringSpec => []OthersAreUndisturbed
<1>1. MeetInv => OthersAreUndisturbed
  <2> SUFFICES ASSUME MeetInv PROVE ExhibitionsAreAsAbsent /\ RemovedAreAsAbsent
    BY DEF OthersAreUndisturbed
  <2>1. CASE stage = "scored"
    BY <2>1, OnceScored, ExhibitionsAlike, RemovedAlike
  <2>2. CASE stage # "scored"
    BY <2>2 DEF ExhibitionsAreAsAbsent, RemovedAreAsAbsent
  <2> QED BY <2>1, <2>2
<1> QED BY <1>1, AlwaysReading, PTL
=============================================================================
