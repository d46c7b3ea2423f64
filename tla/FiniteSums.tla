------------------------------ MODULE FiniteSums ------------------------------
(***************************************************************************)
(* Sums over finite sets (SumFunctionOnSet of the community modules).      *)
(*                                                                         *)
(* What a fold computes is shown by induction over the subsets of a finite *)
(* set, with the property given as a set of sets: an induction theorem     *)
(* that takes the property as an operator cannot be instantiated by the    *)
(* provers, one that takes a set can.                                      *)
(***************************************************************************)
EXTENDS Integers, FiniteSets, Functions, FiniteSetTheorems, NaturalsInduction,
        WellFoundedInduction, TLAPS

----------------------------------------------------------------------------
(* Sums over finite sets.                                                  *)

\* Induction over the naturals, for a property given as a set.
LEMMA NatSetInduction ==
  ASSUME NEW T, 0 \in T, \A n \in Nat : n \in T => n + 1 \in T
  PROVE  Nat \subseteq T
<1> SUFFICES ASSUME Nat \ T # {} PROVE FALSE
  OBVIOUS
<1>1. PICK R : R = {ss \in Nat \X Nat : ss[1] < ss[2]}
  OBVIOUS
<1>a. IsWellFoundedOn(R, Nat)
  BY <1>1, NatLessThanWellFounded DEF OpToRel
<1>2. PICK n \in Nat \ T : \A k \in Nat \ T : ~(<<k, n>> \in R)
  BY <1>a, WFMin, Zenon
<1>3. \A k \in Nat : k < n => k \in T
  BY <1>1, <1>2
<1> QED
  BY <1>3

Picked(s) == CHOOSE x \in s : TRUE

\* g computes the sums of f over the sets in D.
Sums(g, f, D) ==
  g = [s \in D |-> IF s = {} THEN 0 ELSE f[Picked(s)] + g[s \ {Picked(s)}]]

\* SumFunctionOnSet is the value at S of a function that satisfies the recursion.
LEMMA SumDef ==
  ASSUME NEW f, NEW S
  PROVE  SumFunctionOnSet(f, S) = (CHOOSE g : Sums(g, f, SUBSET S))[S]
  BY DEF SumFunctionOnSet, FoldFunctionOnSet, MapThenFoldSet, Sums, Picked

Small(S, n) == {s \in SUBSET S : Cardinality(s) <= n}

\* Taking the picked element out leads from the sets of size n + 1 to those of
\* size n.
LEMMA SmallStep ==
  ASSUME NEW S, IsFiniteSet(S), NEW n \in Nat, NEW s \in Small(S, n + 1), s # {}
  PROVE  Picked(s) \in s /\ s \ {Picked(s)} \in Small(S, n)
<1>1. Picked(s) \in s
  BY DEF Picked
<1>2. IsFiniteSet(s)
  BY FS_Subset DEF Small
<1>3. Cardinality(s \ {Picked(s)}) = Cardinality(s) - 1
  BY <1>1, <1>2, FS_RemoveElement
<1>4. Cardinality(s) \in Nat /\ Cardinality(s) <= n + 1
  BY <1>2, FS_CardinalityType DEF Small
<1> QED
  BY <1>1, <1>3, <1>4 DEF Small

\* The recursion has a solution on the subsets of each size.
LEMMA SumsExist ==
  ASSUME NEW f, NEW S, IsFiniteSet(S), NEW n \in Nat
  PROVE  \E g : Sums(g, f, Small(S, n))
<1> DEFINE T == {k \in Nat : \E g : Sums(g, f, Small(S, k))}
<1>1. 0 \in T
  <2>1. \A s \in Small(S, 0) : s = {}
    <3> SUFFICES ASSUME NEW s \in Small(S, 0) PROVE s = {}
      OBVIOUS
    <3>1. IsFiniteSet(s) /\ Cardinality(s) \in Nat /\ Cardinality(s) <= 0
      BY FS_Subset, FS_CardinalityType DEF Small
    <3> QED
      BY <3>1, FS_EmptySet
  <2>2. Sums([s \in Small(S, 0) |-> 0], f, Small(S, 0))
    BY <2>1 DEF Sums
  <2> QED
    BY <2>2
<1>2. ASSUME NEW k \in Nat, k \in T
      PROVE  k + 1 \in T
  <2>1. PICK g : Sums(g, f, Small(S, k))
    BY <1>2
  <2> DEFINE h == [s \in Small(S, k + 1) |->
                     IF s = {} THEN 0 ELSE f[Picked(s)] + g[s \ {Picked(s)}]]
  <2>2. ASSUME NEW s \in Small(S, k)
        PROVE  s \in Small(S, k + 1) /\ h[s] = g[s]
    <3>1. s \in Small(S, k + 1)
      <4>1. IsFiniteSet(s) /\ Cardinality(s) \in Nat
        BY FS_Subset, FS_CardinalityType DEF Small
      <4> QED
        BY <4>1 DEF Small
    <3>2. g[s] = IF s = {} THEN 0 ELSE f[Picked(s)] + g[s \ {Picked(s)}]
      BY <2>1 DEF Sums
    <3> QED
      BY <3>1, <3>2
  <2>3. \A s \in Small(S, k + 1) : s # {} => h[s \ {Picked(s)}] = g[s \ {Picked(s)}]
    BY <2>2, SmallStep
  <2>4. h = [s \in Small(S, k + 1) |-> IF s = {} THEN 0 ELSE f[Picked(s)] + h[s \ {Picked(s)}]]
    BY <2>3
  <2>5. Sums(h, f, Small(S, k + 1))
    BY <2>4 DEF Sums
  <2> QED
    BY <2>5
<1> HIDE DEF T
<1>3. Nat \subseteq T
  BY <1>1, <1>2, NatSetInduction
<1> QED
  BY <1>3 DEF T

\* A property of sets, given as a set T of sets, that passes from all proper
\* subsets of a set to the set itself holds of every subset of a finite set.
LEMMA SubsetInduction ==
  ASSUME NEW S, IsFiniteSet(S), NEW T,
         \A s \in SUBSET S : (\A r \in SUBSET s : r # s => r \in T) => s \in T
  PROVE  SUBSET S \subseteq T
<1> DEFINE N == {k \in Nat : Small(S, k) \subseteq T}
<1>1. \A s \in SUBSET S : IsFiniteSet(s) /\ Cardinality(s) \in Nat
  BY FS_Subset, FS_CardinalityType
<1>s. \A s \in SUBSET S : \A r \in SUBSET s : r # s => Cardinality(r) < Cardinality(s)
  <2> SUFFICES ASSUME NEW s \in SUBSET S, NEW r \in SUBSET s, r # s
               PROVE  Cardinality(r) < Cardinality(s)
    OBVIOUS
  <2>1. IsFiniteSet(s)
    BY <1>1
  <2> QED
    BY <1>1, <2>1, FS_Subset
<1>2. 0 \in N
  <2> SUFFICES ASSUME NEW s \in Small(S, 0) PROVE s \in T
    OBVIOUS
  <2>1. s \in SUBSET S /\ Cardinality(s) = 0
    BY <1>1 DEF Small
  <2>2. \A r \in SUBSET s : r # s => r \in T
    BY <2>1, <1>s, <1>1
  <2> QED
    BY <2>1, <2>2
<1>3. ASSUME NEW k \in Nat, k \in N
      PROVE  k + 1 \in N
  <2> SUFFICES ASSUME NEW s \in Small(S, k + 1) PROVE s \in T
    OBVIOUS
  <2>1. s \in SUBSET S /\ Cardinality(s) <= k + 1
    BY DEF Small
  <2>2. ASSUME NEW r \in SUBSET s, r # s PROVE r \in T
    <3>1. r \in SUBSET S /\ Cardinality(r) < Cardinality(s)
      BY <2>1, <2>2, <1>s
    <3>2. Cardinality(r) <= k
      BY <1>1, <2>1, <3>1
    <3> QED
      BY <1>3, <3>1, <3>2 DEF Small
  <2> QED
    BY <2>1, <2>2
<1> HIDE DEF N
<1>4. Nat \subseteq N
  BY <1>2, <1>3, NatSetInduction
<1> QED
  BY <1>1, <1>4 DEF N, Small

\* The same, one element at a time.
LEMMA ElementInduction ==
  ASSUME NEW S, IsFiniteSet(S), NEW T, {} \in T,
         \A s \in SUBSET S : \A x \in S \ s : s \in T => s \cup {x} \in T
  PROVE  S \in T
<1>1. ASSUME NEW s \in SUBSET S, \A r \in SUBSET s : r # s => r \in T
      PROVE  s \in T
  <2>1. CASE s = {}
    BY <2>1
  <2>2. CASE s # {}
    <3>1. PICK x : x \in s
      BY <2>2
    <3>2. s \ {x} \in T /\ s = (s \ {x}) \cup {x}
      BY <1>1, <3>1
    <3> QED
      BY <3>1, <3>2
  <2> QED
    BY <2>1, <2>2
<1> QED
  BY <1>1, SubsetInduction

SumsOn(g, f, S) == Sums(g, f, SUBSET S)

\* Two solutions agree on the subsets they share, when they add the same values.
LEMMA SumsAgree ==
  ASSUME NEW f, NEW h, NEW S, IsFiniteSet(S), NEW R \in SUBSET S,
         \A x \in R : f[x] = h[x],
         NEW g, SumsOn(g, f, S), NEW k, SumsOn(k, h, R)
  PROVE  g[R] = k[R]
<1> DEFINE T == {s \in SUBSET R : g[s] = k[s]}
<1>1. ASSUME NEW s \in SUBSET R, \A r \in SUBSET s : r # s => r \in T
      PROVE  s \in T
  <2>1. /\ g[s] = IF s = {} THEN 0 ELSE f[Picked(s)] + g[s \ {Picked(s)}]
        /\ k[s] = IF s = {} THEN 0 ELSE h[Picked(s)] + k[s \ {Picked(s)}]
    BY DEF Sums, SumsOn
  <2>2. s # {} => Picked(s) \in s /\ s \ {Picked(s)} \in T
    BY <1>1 DEF Picked
  <2> QED
    BY <2>1, <2>2
<1>2. IsFiniteSet(R)
  BY FS_Subset
<1> HIDE DEF T
<1>3. SUBSET R \subseteq T
  BY <1>1, <1>2, SubsetInduction
<1> QED
  BY <1>3 DEF T

\* The sum over a finite set is the value of a solution.
LEMMA SumIsDefined ==
  ASSUME NEW f, NEW S, IsFiniteSet(S)
  PROVE  \E g : SumsOn(g, f, S) /\ SumFunctionOnSet(f, S) = g[S]
<1>1. Cardinality(S) \in Nat /\ \A s \in SUBSET S : Cardinality(s) <= Cardinality(S)
  BY FS_CardinalityType, FS_Subset
<1>2. Small(S, Cardinality(S)) = SUBSET S
  BY <1>1 DEF Small
<1>3. \E g : Sums(g, f, SUBSET S)
  <2>1. PICK D : D = Small(S, Cardinality(S))
    OBVIOUS
  <2>2. PICK g : Sums(g, f, D)
    BY <1>1, <2>1, SumsExist
  <2>3. D = SUBSET S
    BY <1>2, <2>1
  <2> QED
    BY <2>2, <2>3
<1>4. Sums(CHOOSE g : Sums(g, f, SUBSET S), f, SUBSET S)
  BY <1>3
<1> QED
  BY <1>4, SumDef DEF SumsOn

\* Equal values have equal sums.
LEMMA SumAgrees ==
  ASSUME NEW f, NEW h, NEW S, IsFiniteSet(S), \A x \in S : f[x] = h[x]
  PROVE  SumFunctionOnSet(f, S) = SumFunctionOnSet(h, S)
<1>1. PICK g : SumsOn(g, f, S) /\ SumFunctionOnSet(f, S) = g[S]
  BY SumIsDefined
<1>2. PICK k : SumsOn(k, h, S) /\ SumFunctionOnSet(h, S) = k[S]
  BY SumIsDefined
<1>3. S \in SUBSET S
  OBVIOUS
<1>4. g[S] = k[S]
  BY <1>1, <1>2, <1>3, SumsAgree
<1> QED
  BY <1>1, <1>2, <1>4

\* The empty sum is 0.
LEMMA SumEmpty ==
  ASSUME NEW f
  PROVE  SumFunctionOnSet(f, {}) = 0
<1>1. IsFiniteSet({})
  BY FS_EmptySet
<1>2. PICK g : SumsOn(g, f, {}) /\ SumFunctionOnSet(f, {}) = g[{}]
  BY <1>1, SumIsDefined
<1> QED
  BY <1>2 DEF Sums, SumsOn

\* The sum over a set is its picked element and the sum of the rest.
LEMMA SumPicked ==
  ASSUME NEW f, NEW S, IsFiniteSet(S), S # {}
  PROVE  /\ Picked(S) \in S
         /\ SumFunctionOnSet(f, S) = f[Picked(S)] + SumFunctionOnSet(f, S \ {Picked(S)})
<1>1. Picked(S) \in S
  BY DEF Picked
<1>2. PICK g : SumsOn(g, f, S) /\ SumFunctionOnSet(f, S) = g[S]
  BY SumIsDefined
<1>3. PICK R : R = S \ {Picked(S)}
  OBVIOUS
<1>4. IsFiniteSet(R) /\ R \in SUBSET S
  BY <1>3, FS_Subset
<1>5. PICK k : SumsOn(k, f, R) /\ SumFunctionOnSet(f, R) = k[R]
  BY <1>4, SumIsDefined
<1>6. \A x \in R : f[x] = f[x]
  OBVIOUS
<1>7. g[R] = k[R]
  BY <1>2, <1>4, <1>5, <1>6, SumsAgree
<1>8. S \in SUBSET S
  OBVIOUS
<1>9. g[S] = f[Picked(S)] + g[R]
  BY <1>2, <1>3, <1>8 DEF Sums, SumsOn
<1> QED
  BY <1>1, <1>2, <1>3, <1>5, <1>7, <1>9

\* A sum of integers is one.
LEMMA SumInt ==
  ASSUME NEW f, NEW S, IsFiniteSet(S), \A x \in S : f[x] \in Int
  PROVE  SumFunctionOnSet(f, S) \in Int
<1> DEFINE T == {s \in SUBSET S : SumFunctionOnSet(f, s) \in Int}
<1>1. ASSUME NEW s \in SUBSET S, \A r \in SUBSET s : r # s => r \in T
      PROVE  s \in T
  <2>1. CASE s = {}
    BY <2>1, SumEmpty
  <2>2. CASE s # {}
    <3>1. IsFiniteSet(s)
      BY FS_Subset
    <3>2. Picked(s) \in s /\ SumFunctionOnSet(f, s) = f[Picked(s)] + SumFunctionOnSet(f, s \ {Picked(s)})
      BY <2>2, <3>1, SumPicked
    <3>3. s \ {Picked(s)} \in T
      BY <1>1, <3>2
    <3> QED
      BY <3>2, <3>3
  <2> QED
    BY <2>1, <2>2
<1> HIDE DEF T
<1>2. SUBSET S \subseteq T
  BY <1>1, SubsetInduction
<1> QED
  BY <1>2 DEF T

\* Any element may be added last.
LEMMA SumRemove ==
  ASSUME NEW f, NEW S, IsFiniteSet(S), \A x \in S : f[x] \in Int, NEW e \in S
  PROVE  SumFunctionOnSet(f, S) = f[e] + SumFunctionOnSet(f, S \ {e})
<1> DEFINE Su(s) == SumFunctionOnSet(f, s)
<1> DEFINE T == {s \in SUBSET S : \A x \in s : Su(s) = f[x] + Su(s \ {x})}
<1>1. ASSUME NEW s \in SUBSET S, \A r \in SUBSET s : r # s => r \in T
      PROVE  s \in T
  <2> SUFFICES ASSUME NEW x \in s PROVE Su(s) = f[x] + Su(s \ {x})
    OBVIOUS
  <2>f. \A r \in SUBSET S : IsFiniteSet(r) /\ Su(r) \in Int
    <3> SUFFICES ASSUME NEW r \in SUBSET S PROVE IsFiniteSet(r) /\ Su(r) \in Int
      OBVIOUS
    <3>1. IsFiniteSet(r)
      BY FS_Subset
    <3> QED
      BY <3>1, SumInt
  <2>1. Picked(s) \in s /\ Su(s) = f[Picked(s)] + Su(s \ {Picked(s)})
    BY <2>f, SumPicked
  <2>2. CASE x = Picked(s)
    BY <2>1, <2>2
  <2>3. CASE x # Picked(s)
    <3>1. PICK p : p = Picked(s)
      OBVIOUS
    <3>2. PICK r : r = (s \ {p}) \ {x}
      OBVIOUS
    <3>3. r = (s \ {x}) \ {p} /\ r \in SUBSET S
      BY <3>2
    <3>4. s \ {p} \in T /\ x \in s \ {p} /\ s \ {x} \in T /\ p \in s \ {x}
      BY <1>1, <2>1, <2>3, <3>1
    <3>5. Su(s \ {p}) = f[x] + Su(r)
      BY <3>2, <3>4
    <3>6. Su(s \ {x}) = f[p] + Su(r)
      BY <3>3, <3>4
    <3>7. f[x] \in Int /\ f[p] \in Int /\ Su(r) \in Int
      BY <2>1, <2>f, <3>1, <3>3
    <3>8. Su(s) = f[p] + Su(s \ {p})
      BY <2>1, <3>1
    <3> HIDE DEF Su
    <3> QED
      BY <3>5, <3>6, <3>7, <3>8
  <2> QED
    BY <2>2, <2>3
<1> HIDE DEF T
<1>2. SUBSET S \subseteq T
  BY <1>1, SubsetInduction
<1> QED
  BY <1>2 DEF T

\* The same, for an element that was not there.
LEMMA SumAdd ==
  ASSUME NEW f, NEW S, IsFiniteSet(S), NEW x, x \notin S, \A y \in S \cup {x} : f[y] \in Int
  PROVE  SumFunctionOnSet(f, S \cup {x}) = SumFunctionOnSet(f, S) + f[x]
<1>1. PICK U : U = S \cup {x}
  OBVIOUS
<1>2. IsFiniteSet(U) /\ x \in U /\ U \ {x} = S
  BY <1>1, FS_AddElement
<1>3. SumFunctionOnSet(f, U) = f[x] + SumFunctionOnSet(f, S)
  <2>1. PICK V : V = U \ {x}
    OBVIOUS
  <2>2. SumFunctionOnSet(f, U) = f[x] + SumFunctionOnSet(f, V)
    BY <1>1, <1>2, <2>1, SumRemove
  <2>3. V = S
    BY <1>2, <2>1
  <2> QED
    BY <2>2, <2>3
<1>4. SumFunctionOnSet(f, S) \in Int
  BY SumInt
<1>5. f[x] \in Int
  BY <1>1, <1>2
<1> QED
  BY <1>1, <1>2, <1>3, <1>4, <1>5

\* Elements of one sign move the sum one way.
LEMMA SumMoves ==
  ASSUME NEW f, NEW S, IsFiniteSet(S), \A y \in S : f[y] \in Int, NEW R \in SUBSET S
  PROVE  /\ (\A y \in S \ R : f[y] >= 0) => SumFunctionOnSet(f, R) <= SumFunctionOnSet(f, S)
         /\ (\A y \in S \ R : f[y] <= 0) => SumFunctionOnSet(f, S) <= SumFunctionOnSet(f, R)
<1> DEFINE Su(s) == SumFunctionOnSet(f, s)
<1>1. PICK D : D = S \ R
  OBVIOUS
<1>2. IsFiniteSet(D) /\ IsFiniteSet(R) /\ D \cup R = S /\ {} \cup R = R
  BY <1>1, FS_Subset
<1>3. \A s \in SUBSET S : IsFiniteSet(s) /\ Su(s) \in Int
  <2> SUFFICES ASSUME NEW s \in SUBSET S PROVE IsFiniteSet(s) /\ Su(s) \in Int
    OBVIOUS
  <2>1. IsFiniteSet(s) /\ \A y \in s : f[y] \in Int
    BY FS_Subset
  <2> QED
    BY <2>1, SumInt
<1>4. ASSUME NEW s \in SUBSET D, NEW x \in D \ s
      PROVE  Su((s \cup {x}) \cup R) = Su(s \cup R) + f[x] /\ f[x] \in Int
  <2>1. PICK u : u = s \cup R
    OBVIOUS
  <2>2. u \in SUBSET S /\ x \notin u /\ x \in S /\ (s \cup {x}) \cup R = u \cup {x}
    BY <1>1, <1>4, <2>1
  <2>3. IsFiniteSet(u) /\ \A y \in u \cup {x} : f[y] \in Int
    BY <1>3, <2>2
  <2>4. Su(u \cup {x}) = Su(u) + f[x]
    BY <2>2, <2>3, SumAdd
  <2>5. f[x] \in Int
    BY <2>2
  <2> QED
    BY <2>1, <2>2, <2>4, <2>5
<1>5. \A s \in SUBSET D : Su(s \cup R) \in Int
  BY <1>1, <1>3
<1> DEFINE Up == {s \in SUBSET D : Su(R) <= Su(s \cup R)}
           Down == {s \in SUBSET D : Su(s \cup R) <= Su(R)}
<1>6. Su(R) \in Int
  BY <1>3
<1> HIDE DEF Su
<1>7. {} \in Up /\ {} \in Down
  BY <1>2, <1>6
<1>8. ASSUME \A y \in D : f[y] >= 0
      PROVE  Su(R) <= Su(S)
  <2>1. \A s \in SUBSET D : \A x \in D \ s : s \in Up => s \cup {x} \in Up
    <3> SUFFICES ASSUME NEW s \in SUBSET D, NEW x \in D \ s, s \in Up PROVE s \cup {x} \in Up
      OBVIOUS
    <3>1. Su((s \cup {x}) \cup R) = Su(s \cup R) + f[x] /\ f[x] \in Int /\ Su(s \cup R) \in Int
      BY <1>4, <1>5
    <3>2. Su(R) <= Su((s \cup {x}) \cup R)
      BY <1>6, <1>8, <3>1
    <3> QED
      BY <3>2
  <2> HIDE DEF Up
  <2>2. D \in Up
    BY <1>2, <1>7, <2>1, ElementInduction
  <2> QED
    BY <1>2, <2>2 DEF Up
<1>9. ASSUME \A y \in D : f[y] <= 0
      PROVE  Su(S) <= Su(R)
  <2>1. \A s \in SUBSET D : \A x \in D \ s : s \in Down => s \cup {x} \in Down
    <3> SUFFICES ASSUME NEW s \in SUBSET D, NEW x \in D \ s, s \in Down PROVE s \cup {x} \in Down
      OBVIOUS
    <3>1. Su((s \cup {x}) \cup R) = Su(s \cup R) + f[x] /\ f[x] \in Int /\ Su(s \cup R) \in Int
      BY <1>4, <1>5
    <3>2. Su((s \cup {x}) \cup R) <= Su(R)
      BY <1>6, <1>9, <3>1
    <3> QED
      BY <3>2
  <2> HIDE DEF Down
  <2>2. D \in Down
    BY <1>2, <1>7, <2>1, ElementInduction
  <2> QED
    BY <1>2, <2>2 DEF Down
<1> QED
  BY <1>1, <1>8, <1>9 DEF Su

\* A sum of zeros and ones is at most the number of its terms, and less if one
\* of them is zero.
LEMMA SumOfOnes ==
  ASSUME NEW f, NEW S, IsFiniteSet(S), \A x \in S : f[x] \in {0, 1}
  PROVE  /\ SumFunctionOnSet(f, S) <= Cardinality(S)
         /\ \A e \in S : f[e] = 0 => SumFunctionOnSet(f, S) < Cardinality(S)
<1> DEFINE Su(s) == SumFunctionOnSet(f, s)
<1> DEFINE T == {s \in SUBSET S : Su(s) <= Cardinality(s)}
<1>1. \A s \in SUBSET S : IsFiniteSet(s) /\ Cardinality(s) \in Nat /\ Su(s) \in Int
  <2> SUFFICES ASSUME NEW s \in SUBSET S
               PROVE  IsFiniteSet(s) /\ Cardinality(s) \in Nat /\ Su(s) \in Int
    OBVIOUS
  <2>1. IsFiniteSet(s) /\ \A x \in s : f[x] \in Int
    BY FS_Subset
  <2> QED
    BY <2>1, FS_CardinalityType, SumInt
<1>2. {} \in T
  BY SumEmpty, FS_EmptySet
<1>3. ASSUME NEW s \in SUBSET S, NEW x \in S \ s, s \in T
      PROVE  s \cup {x} \in T
  <2>1. Su(s \cup {x}) = Su(s) + f[x]
    <3>1. IsFiniteSet(s) /\ x \notin s /\ \A y \in s \cup {x} : f[y] \in Int
      BY <1>1
    <3> QED
      BY <3>1, SumAdd
  <2>2. Cardinality(s \cup {x}) = Cardinality(s) + 1
    BY <1>1, FS_AddElement
  <2>3. f[x] \in {0, 1} /\ Su(s) <= Cardinality(s)
    BY <1>3
  <2> QED
    BY <1>1, <2>1, <2>2, <2>3
<1> HIDE DEF T
<1>4. \A s \in SUBSET S : s \in T
  <2> SUFFICES ASSUME NEW s \in SUBSET S PROVE s \in T
    OBVIOUS
  <2>1. \A r \in SUBSET s : \A x \in s \ r : r \in T => r \cup {x} \in T
    BY <1>3
  <2> QED
    BY <1>1, <1>2, <2>1, ElementInduction
<1>5. \A s \in SUBSET S : Su(s) <= Cardinality(s)
  BY <1>4 DEF T
<1>6. ASSUME NEW e \in S, f[e] = 0 PROVE Su(S) < Cardinality(S)
  <2>1. PICK R : R = S \ {e}
    OBVIOUS
  <2>2. Su(S) = f[e] + Su(R)
    BY <2>1, SumRemove
  <2>3. Cardinality(R) = Cardinality(S) - 1
    BY <2>1, FS_RemoveElement
  <2>4. Su(R) <= Cardinality(R) /\ Su(R) \in Int /\ Cardinality(R) \in Nat /\ Cardinality(S) \in Nat
    BY <1>1, <1>5, <2>1
  <2> QED
    BY <1>6, <2>2, <2>3, <2>4
<1> QED
  BY <1>5, <1>6

=============================================================================
