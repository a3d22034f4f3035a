--------------------------- MODULE SequenceLemmas ---------------------------
(***************************************************************************)
(* Facts about numbers, sets, sums, folds, sequences, the pieces and the   *)
(* tokens of a text and parse_cmd that the proofs of several modules rest  *)
(* on.                                                                     *)
(***************************************************************************)
EXTENDS CommandParser, SequenceTheorems, FiniteSetTheorems, TLAPS

\* A run of n consecutive numbers from a on is a sequence of length n.
LEMMA RunOfNumbers ==
    ASSUME NEW S, NEW a \in Int, NEW n \in Nat, \A i \in 1..n : a + i \in S
    PROVE  /\ [i \in 1..n |-> a + i] \in Seq(S)
           /\ Len([i \in 1..n |-> a + i]) = n
<1> DEFINE r == [i \in 1..n |-> a + i]
<1>1. r \in [1..n -> S]
  OBVIOUS
<1>2. r \in Seq(S)
  BY <1>1, SeqDef
<1>3. DOMAIN r = 1..n /\ DOMAIN r = 1..Len(r) /\ Len(r) \in Nat
  BY <1>2, LenProperties
<1>4. Len(r) = n
  BY <1>3
<1> QED
  BY <1>2, <1>4

\* v is w with the elements m to n of b appended ...
SliceAppended(S, v, w, b, m, n) ==
    /\ w \in Seq(S) /\ b \in Seq(S)
    /\ m \in Nat /\ n \in Nat /\ 1 <= m /\ m <= n /\ n <= Len(b)
    /\ v = w \o SubSeq(b, m, n)

\* ... and what that means element by element.
Longer(S, v, w, b, m, n) ==
    /\ v \in Seq(S)
    /\ Len(v) = Len(w) + (n - m + 1)
    /\ \A i \in 1..Len(w) : v[i] = w[i]
    /\ \A i \in m..n : v[Len(w) + (i - m + 1)] = b[i]

\* Appending a slice keeps the old elements and adds those of the slice.
LEMMA AppendSlice ==
    ASSUME NEW S, NEW v, NEW w, NEW b, NEW m, NEW n, SliceAppended(S, v, w, b, m, n)
    PROVE  Longer(S, v, w, b, m, n)
<1> USE DEF SliceAppended
<1>1. Len(w) \in Nat /\ Len(b) \in Nat
  BY LenProperties
<1> DEFINE s == SubSeq(b, m, n)
<1>2. \A i \in m..n : b[i] \in S
  <2> SUFFICES ASSUME NEW i \in m..n PROVE b[i] \in S
      OBVIOUS
  <2>1. i \in 1..Len(b)
    BY <1>1
  <2> QED
    BY <2>1, ElementOfSeq
<1>3. s \in Seq(S) /\ Len(s) = (IF m <= n THEN n - m + 1 ELSE 0)
      /\ \A i \in 1..(n - m + 1) : s[i] = b[m + i - 1]
  BY <1>2, SubSeqProperties
<1>4. Len(s) = n - m + 1
  BY <1>3
<1>0. v = w \o s
  OBVIOUS
<1> HIDE DEF s
<1>5. /\ w \o s \in Seq(S)
      /\ Len(w \o s) = Len(w) + Len(s)
      /\ \A i \in 1..(Len(w) + Len(s)) :
            (w \o s)[i] = IF i <= Len(w) THEN w[i] ELSE s[i - Len(w)]
  BY <1>3, ConcatProperties
<1>6. ASSUME NEW i \in 1..Len(w) PROVE (w \o s)[i] = w[i]
  BY <1>1, <1>4, <1>5
<1>7. ASSUME NEW i \in m..n PROVE (w \o s)[Len(w) + (i - m + 1)] = b[i]
  <2> DEFINE j == i - m + 1
  <2>1. j \in 1..(n - m + 1) /\ m + j - 1 = i
    OBVIOUS
  <2> HIDE DEF j
  <2>2. Len(w) + j \in 1..(Len(w) + Len(s)) /\ ~(Len(w) + j <= Len(w))
        /\ (Len(w) + j) - Len(w) = j
    BY <1>1, <1>4, <2>1
  <2>3. (w \o s)[Len(w) + j] = s[j]
    BY <1>5, <2>2
  <2>4. s[j] = b[i]
    BY <1>3, <2>1
  <2> QED
    BY <2>3, <2>4 DEF j
<1> QED
  BY <1>0, <1>4, <1>5, <1>6, <1>7 DEF Longer
-----------------------------------------------------------------------------
(* Induction, with the property given as a set. *)

\* A set that holds 0 and the successor of each natural number in it holds all.
\* Otherwise the successor would map the part of it below a missing n one-to-one
\* into that part without 0.
LEMMA SetInduction ==
    ASSUME NEW X, 0 \in X, \A n \in Nat : n \in X => n + 1 \in X
    PROVE  Nat \subseteq X
<1> SUFFICES ASSUME NEW n \in Nat, n \notin X PROVE FALSE
    OBVIOUS
<1> DEFINE A == {i \in 0..n : i \in X}
           f == [i \in A |-> i + 1]
<1>1. IsFiniteSet(A)
  <2>1. IsFiniteSet(0..n)
    BY FS_Interval
  <2> QED
    BY <2>1, FS_Subset
<1>2. IsFiniteSet(A \ {0}) /\ Cardinality(A \ {0}) = Cardinality(A) - 1
  <2>1. 0 \in A
    OBVIOUS
  <2> HIDE DEF A
  <2> QED
    BY <1>1, <2>1, FS_RemoveElement
<1>3. f \in [A -> A \ {0}]
  <2> SUFFICES ASSUME NEW i \in A PROVE i + 1 \in A \ {0}
      OBVIOUS
  <2>1. i # n
    OBVIOUS
  <2> QED
    BY <2>1
<1>4. Cardinality(A) \in Nat
  BY <1>1, FS_CardinalityType
<1>5. \E x, y \in A : x # y /\ f[x] = f[y]
  <2> HIDE DEF A, f
  <2> QED
    BY <1>1, <1>2, <1>3, <1>4, FS_PigeonHole
<1> QED
  BY <1>5

\* A non-empty set of natural numbers has a least element.
LEMMA LeastElement ==
    ASSUME NEW T, T \subseteq Nat, T # {}
    PROVE  \E m \in T : \A i \in T : m <= i
<1> SUFFICES ASSUME \A m \in T : \E i \in T : i < m PROVE FALSE
    OBVIOUS
<1> DEFINE X == {n \in Nat : \A i \in T : i > n}
<1>1. 0 \in X
  OBVIOUS
<1>2. ASSUME NEW n \in Nat, n \in X PROVE n + 1 \in X
  <2> SUFFICES ASSUME NEW i \in T, i <= n + 1 PROVE FALSE
      OBVIOUS
  <2>1. i > n
    BY <1>2
  <2>2. PICK k \in T : k < i
    OBVIOUS
  <2>3. k > n
    BY <1>2
  <2> QED
    BY <2>1, <2>2, <2>3
<1>3. Nat \subseteq X
  <2> HIDE DEF X
  <2> QED
    BY <1>1, <1>2, SetInduction
<1>4. PICK t \in T : TRUE
  OBVIOUS
<1>5. t \in X
  BY <1>3
<1> QED
  BY <1>4, <1>5

\* A non-empty set of integers below a bound has a greatest element.
LEMMA GreatestElement ==
    ASSUME NEW b \in Int, NEW S, S \subseteq Int, \A i \in S : i <= b, S # {}
    PROVE  \E m \in S : \A i \in S : i <= m
<1> DEFINE T == {n \in Nat : b - n \in S}
<1>1. T # {}
  <2>1. PICK i \in S : TRUE
    OBVIOUS
  <2>2. b - i \in Nat /\ b - (b - i) = i
    OBVIOUS
  <2> QED
    BY <2>1, <2>2
<1>2. PICK m \in T : \A i \in T : m <= i
  <2> HIDE DEF T
  <2>1. T \subseteq Nat
    BY DEF T
  <2> QED
    BY <1>1, <2>1, LeastElement
<1>3. b - m \in S
  OBVIOUS
<1>4. ASSUME NEW i \in S PROVE i <= b - m
  <2>1. b - i \in T
    <3>1. b - i \in Nat /\ b - (b - i) = i
      OBVIOUS
    <3> QED
      BY <3>1
  <2>2. m <= b - i
    BY <1>2, <2>1
  <2> QED
    BY <2>2
<1> QED
  BY <1>3, <1>4

\* The maximum of a set of integers is its upper bound in the set.
LEMMA MaxIs ==
    ASSUME NEW S, S \subseteq Int, NEW m \in S, \A i \in S : i <= m
    PROVE  Max(S) = m
<1>1. \A x \in S : (\A y \in S : x >= y) => x = m
  OBVIOUS
<1>2. \A y \in S : m >= y
  OBVIOUS
<1> QED
  BY <1>1, <1>2 DEF Max

\* The minimum of a set of integers is its lower bound in the set.
LEMMA MinIs ==
    ASSUME NEW S, S \subseteq Int, NEW m \in S, \A i \in S : m <= i
    PROVE  Min(S) = m
<1>1. \A x \in S : (\A y \in S : x =< y) => x = m
  OBVIOUS
<1>2. \A y \in S : m =< y
  OBVIOUS
<1> QED
  BY <1>1, <1>2 DEF Min

\* A non-empty set of positions has a maximum.
LEMMA MaxOfPositions ==
    ASSUME NEW n \in Nat, NEW S, S \subseteq 1..n, S # {}
    PROVE  Max(S) \in S /\ \A i \in S : i <= Max(S)
<1>1. n \in Int /\ S \subseteq Int /\ \A i \in S : i <= n
  OBVIOUS
<1>2. PICK m \in S : \A i \in S : i <= m
  BY <1>1, GreatestElement
<1> QED
  BY <1>1, <1>2, MaxIs

\* A set that holds the empty sequence, and each sequence in it with any element
\* appended, holds every sequence.
LEMMA SequenceInduction ==
    ASSUME NEW S, NEW X, <<>> \in X,
           \A s \in Seq(S) : \A e \in S : s \in X => Append(s, e) \in X
    PROVE  Seq(S) \subseteq X
<1> DEFINE N == {n \in Nat : \A s \in Seq(S) : Len(s) = n => s \in X}
<1>1. 0 \in N
  <2> SUFFICES ASSUME NEW s \in Seq(S), Len(s) = 0 PROVE s \in X
      OBVIOUS
  <2>1. s = <<>>
    BY EmptySeq
  <2> QED
    BY <2>1
<1>2. ASSUME NEW n \in Nat, n \in N PROVE n + 1 \in N
  <2> SUFFICES ASSUME NEW s \in Seq(S), Len(s) = n + 1 PROVE s \in X
      OBVIOUS
  <2>1. s # <<>>
    BY EmptySeq
  <2>2. PICK r \in Seq(S), e \in S : s = Append(r, e)
    BY <2>1, SequenceEmptyOrAppend
  <2>3. Len(r) = n
    <3>1. Len(Append(r, e)) = Len(r) + 1 /\ Len(r) \in Nat
      BY AppendProperties, LenProperties
    <3> QED
      BY <2>2, <3>1
  <2> QED
    BY <1>2, <2>2, <2>3
<1>3. Nat \subseteq N
  <2> HIDE DEF N
  <2> QED
    BY <1>1, <1>2, SetInduction
<1> QED
  BY <1>3, LenProperties
-----------------------------------------------------------------------------
(* Sums over finite sets. *)

\* The element that a fold takes next.
Taken(s) == CHOOSE x \in s : TRUE

\* What holds of the empty set, and of a set when it holds of the set without the
\* element taken first, holds of all subsets of a finite set.
LEMMA SubsetInduction ==
    ASSUME NEW D, IsFiniteSet(D), NEW X, {} \in X,
           \A s \in SUBSET D : s # {} /\ s \ {Taken(s)} \in X => s \in X
    PROVE  SUBSET D \subseteq X
<1> DEFINE Y == {n \in Nat : \A s \in SUBSET D : Cardinality(s) = n => s \in X}
<1>1. ASSUME NEW s \in SUBSET D PROVE IsFiniteSet(s) /\ Cardinality(s) \in Nat
  BY FS_Subset, FS_CardinalityType
<1>2. 0 \in Y
  BY <1>1, FS_EmptySet
<1>3. ASSUME NEW n \in Nat, n \in Y PROVE n + 1 \in Y
  <2> SUFFICES ASSUME NEW s \in SUBSET D, Cardinality(s) = n + 1 PROVE s \in X
      OBVIOUS
  <2>1. s # {}
    <3>1. Cardinality({}) = 0 /\ n + 1 # 0
      BY FS_EmptySet
    <3> QED
      BY <3>1
  <2>2. Taken(s) \in s
    BY <2>1 DEF Taken
  <2>3. Cardinality(s \ {Taken(s)}) = Cardinality(s) - 1
    BY <1>1, <2>2, FS_RemoveElement
  <2>4. s \ {Taken(s)} \in SUBSET D /\ Cardinality(s \ {Taken(s)}) = n
    BY <2>3
  <2> QED
    BY <1>3, <2>1, <2>4
<1>4. Nat \subseteq Y
  <2> HIDE DEF Y
  <2> QED
    BY <1>2, <1>3, SetInduction
<1> QED
  BY <1>1, <1>4

\* The partial sums of f that a fold computes.
IsSums(f, T, g) == g = [s \in T |-> IF s = {} THEN 0 ELSE f[Taken(s)] + g[s \ {Taken(s)}]]
Sums(f) == CHOOSE g : IsSums(f, SUBSET (DOMAIN f), g)

LEMMA SumIsSums == \A f : SumFunction(f) = Sums(f)[DOMAIN f]
  BY DEF SumFunction, SumFunctionOnSet, FoldFunctionOnSet, MapThenFoldSet, Sums, IsSums, Taken

\* The partial sums exist: they are natural numbers, each that of the set without
\* one element and this element.
LEMMA SumsDefined ==
    ASSUME NEW D, IsFiniteSet(D), NEW f \in [D -> Nat]
    PROVE  /\ Sums(f)[{}] = 0
           /\ \A s \in SUBSET D : s # {} =>
                Taken(s) \in s /\ Sums(f)[s] = f[Taken(s)] + Sums(f)[s \ {Taken(s)}]
           /\ \A s \in SUBSET D : Sums(f)[s] \in Nat
<1> DEFINE Small(n) == {s \in SUBSET D : Cardinality(s) <= n}
           X == {n \in Nat : \E g : IsSums(f, Small(n), g)}
<1>1. ASSUME NEW s \in SUBSET D
      PROVE  /\ IsFiniteSet(s) /\ Cardinality(s) \in Nat /\ Cardinality(s) <= Cardinality(D)
             /\ s = {} <=> Cardinality(s) = 0
             /\ s # {} => /\ Taken(s) \in s /\ s \ {Taken(s)} \in SUBSET D
                          /\ Cardinality(s \ {Taken(s)}) = Cardinality(s) - 1
  <2>1. IsFiniteSet(s) /\ Cardinality(s) \in Nat /\ Cardinality(s) <= Cardinality(D)
    BY FS_Subset, FS_CardinalityType
  <2>2. s = {} <=> Cardinality(s) = 0
    BY <2>1, FS_EmptySet
  <2>3. s # {} => Taken(s) \in s
    BY DEF Taken
  <2>4. s # {} => Cardinality(s \ {Taken(s)}) = Cardinality(s) - 1
    BY <2>1, <2>3, FS_RemoveElement
  <2> QED
    BY <2>1, <2>2, <2>3, <2>4
<1>2. 0 \in X
  <2> DEFINE g == [s \in Small(0) |-> 0]
  <2>1. ASSUME NEW s \in Small(0) PROVE s = {}
    <3>1. s \in SUBSET D /\ Cardinality(s) <= 0
      OBVIOUS
    <3>2. Cardinality(s) \in Nat /\ (s = {} <=> Cardinality(s) = 0)
      BY <1>1, <3>1
    <3>3. Cardinality(s) = 0
      BY <3>1, <3>2
    <3> QED
      BY <3>2, <3>3
  <2> HIDE DEF Small
  <2>2. IsSums(f, Small(0), g)
    BY <2>1 DEF IsSums
  <2> QED
    BY <2>2
<1>3. ASSUME NEW n \in Nat, n \in X PROVE n + 1 \in X
  <2>1. PICK g : IsSums(f, Small(n), g)
    BY <1>3
  <2> DEFINE h == [s \in Small(n + 1) |-> IF s = {} THEN 0 ELSE f[Taken(s)] + g[s \ {Taken(s)}]]
  <2>2. ASSUME NEW s \in Small(n) PROVE s \in Small(n + 1)
    <3>1. s \in SUBSET D /\ Cardinality(s) <= n
      OBVIOUS
    <3>2. Cardinality(s) \in Nat
      BY <1>1, <3>1
    <3>3. Cardinality(s) <= n + 1
      BY <3>1, <3>2
    <3> QED
      BY <3>1, <3>3
  <2>3. ASSUME NEW s \in Small(n + 1), s # {} PROVE s \ {Taken(s)} \in Small(n)
    <3>1. s \in SUBSET D /\ Cardinality(s) <= n + 1
      OBVIOUS
    <3>2. /\ Cardinality(s) \in Nat /\ s \ {Taken(s)} \in SUBSET D
          /\ Cardinality(s \ {Taken(s)}) = Cardinality(s) - 1
      BY <1>1, <2>3, <3>1
    <3>3. Cardinality(s \ {Taken(s)}) <= n
      BY <3>1, <3>2
    <3> QED
      BY <3>2, <3>3
  <2> HIDE DEF Small
  <2>4. \A s \in Small(n) : g[s] = h[s]
    <3> DEFINE v(s) == IF s = {} THEN 0 ELSE f[Taken(s)] + g[s \ {Taken(s)}]
    <3>1. g = [s \in Small(n) |-> v(s)] /\ h = [s \in Small(n + 1) |-> v(s)]
      BY <2>1 DEF IsSums
    <3> HIDE DEF v, h
    <3> QED
      BY <2>2, <3>1
  <2>5. \A s \in Small(n + 1) :
           s # {} => f[Taken(s)] + g[s \ {Taken(s)}] = f[Taken(s)] + h[s \ {Taken(s)}]
    <3> HIDE DEF h
    <3> QED
      BY <2>3, <2>4
  <2>6. \A s \in Small(n + 1) : h[s] = IF s = {} THEN 0 ELSE f[Taken(s)] + h[s \ {Taken(s)}]
    <3> SUFFICES ASSUME NEW s \in Small(n + 1)
                 PROVE h[s] = IF s = {} THEN 0 ELSE f[Taken(s)] + h[s \ {Taken(s)}]
        OBVIOUS
    <3>1. h[s] = IF s = {} THEN 0 ELSE f[Taken(s)] + g[s \ {Taken(s)}]
      OBVIOUS
    <3> HIDE DEF h
    <3> QED
      BY <2>5, <3>1
  <2>7. h = [s \in Small(n + 1) |-> h[s]]
    OBVIOUS
  <2> HIDE DEF h
  <2>8. IsSums(f, Small(n + 1), h)
    BY <2>6, <2>7 DEF IsSums
  <2> QED
    BY <2>8
<1>4. Nat \subseteq X
  <2> HIDE DEF X
  <2> QED
    BY <1>2, <1>3, SetInduction
<1>5. Small(Cardinality(D)) = SUBSET D
  BY <1>1
<1>6. \E g : IsSums(f, SUBSET (DOMAIN f), g)
  <2>1. Cardinality(D) \in Nat /\ DOMAIN f = D
    BY <1>1
  <2> QED
    BY <1>4, <1>5, <2>1
<1>7. IsSums(f, SUBSET D, Sums(f))
  <2>1. DOMAIN f = D
    OBVIOUS
  <2>2. IsSums(f, SUBSET (DOMAIN f), CHOOSE g : IsSums(f, SUBSET (DOMAIN f), g))
    BY <1>6
  <2> QED
    BY <2>1, <2>2 DEF Sums
<1>8. \A s \in SUBSET D :
        Sums(f)[s] = IF s = {} THEN 0 ELSE f[Taken(s)] + Sums(f)[s \ {Taken(s)}]
  <2> DEFINE g == Sums(f)
             v(s) == IF s = {} THEN 0 ELSE f[Taken(s)] + g[s \ {Taken(s)}]
  <2>1. g = [s \in SUBSET D |-> v(s)]
    BY <1>7 DEF IsSums
  <2> HIDE DEF g, v
  <2>2. \A s \in SUBSET D : g[s] = v(s)
    BY <2>1
  <2> QED
    BY <2>2 DEF g, v
<1>9. Sums(f)[{}] = 0
  BY <1>8
<1>10. \A s \in SUBSET D : Sums(f)[s] \in Nat
  <2> DEFINE Z == {s \in SUBSET D : Sums(f)[s] \in Nat}
  <2>1. {} \in Z
    BY <1>9
  <2>2. \A s \in SUBSET D : s # {} /\ s \ {Taken(s)} \in Z => s \in Z
    <3> SUFFICES ASSUME NEW s \in SUBSET D, s # {}, s \ {Taken(s)} \in Z PROVE Sums(f)[s] \in Nat
        OBVIOUS
    <3>1. Sums(f)[s] = f[Taken(s)] + Sums(f)[s \ {Taken(s)}] /\ f[Taken(s)] \in Nat
      BY <1>1, <1>8
    <3>2. Sums(f)[s \ {Taken(s)}] \in Nat
      OBVIOUS
    <3> QED
      BY <3>1, <3>2
  <2>3. SUBSET D \subseteq Z
    <3> HIDE DEF Z
    <3> QED
      BY <2>1, <2>2, SubsetInduction
  <2> QED
    BY <2>3
<1> QED
  BY <1>1, <1>8, <1>9, <1>10

\* A sum of natural numbers is one; it is zero when they are.
LEMMA SumOfNaturals ==
    ASSUME NEW D, IsFiniteSet(D), NEW f \in [D -> Nat]
    PROVE  SumFunction(f) \in Nat /\ ((\A x \in D : f[x] = 0) => SumFunction(f) = 0)
<1> DEFINE F == Sums(f)
           X == {s \in SUBSET D : F[s] = 0}
<1>1. /\ F[{}] = 0
      /\ \A s \in SUBSET D : s # {} => Taken(s) \in s /\ F[s] = f[Taken(s)] + F[s \ {Taken(s)}]
      /\ \A s \in SUBSET D : F[s] \in Nat
  BY SumsDefined
<1>2. SumFunction(f) = F[D]
  BY SumIsSums
<1> HIDE DEF F
<1>3. ASSUME \A x \in D : f[x] = 0 PROVE D \in X
  <2>1. {} \in X /\ \A s \in SUBSET D : s # {} /\ s \ {Taken(s)} \in X => s \in X
    BY <1>1, <1>3
  <2> HIDE DEF X
  <2> QED
    BY <2>1, SubsetInduction
<1> QED
  BY <1>1, <1>2, <1>3

\* A sum does not grow when no number does.
LEMMA SumMonotone ==
    ASSUME NEW D, IsFiniteSet(D), NEW f \in [D -> Nat], NEW h \in [D -> Nat], \A x \in D : f[x] <= h[x]
    PROVE  SumFunction(f) <= SumFunction(h)
<1> DEFINE F == Sums(f)
           H == Sums(h)
           X == {s \in SUBSET D : F[s] <= H[s]}
<1>1. /\ F[{}] = 0 /\ H[{}] = 0
      /\ \A s \in SUBSET D : s # {} =>
           /\ Taken(s) \in s /\ F[s] = f[Taken(s)] + F[s \ {Taken(s)}]
           /\ H[s] = h[Taken(s)] + H[s \ {Taken(s)}]
      /\ \A s \in SUBSET D : F[s] \in Nat /\ H[s] \in Nat
  <2>1. /\ F[{}] = 0
        /\ \A s \in SUBSET D : s # {} => Taken(s) \in s /\ F[s] = f[Taken(s)] + F[s \ {Taken(s)}]
        /\ \A s \in SUBSET D : F[s] \in Nat
    BY SumsDefined
  <2>2. /\ H[{}] = 0
        /\ \A s \in SUBSET D : s # {} => Taken(s) \in s /\ H[s] = h[Taken(s)] + H[s \ {Taken(s)}]
        /\ \A s \in SUBSET D : H[s] \in Nat
    BY SumsDefined
  <2> HIDE DEF F, H
  <2> QED
    BY <2>1, <2>2
<1>2. SumFunction(f) = F[D] /\ SumFunction(h) = H[D]
  BY SumIsSums
<1> HIDE DEF F, H
<1>3. \A s \in SUBSET D : s # {} /\ s \ {Taken(s)} \in X => s \in X
  <2> SUFFICES ASSUME NEW s \in SUBSET D, s # {}, s \ {Taken(s)} \in X PROVE F[s] <= H[s]
      OBVIOUS
  <2> DEFINE x == Taken(s)
             r == s \ {x}
  <2>1. x \in D /\ F[s] = f[x] + F[r] /\ H[s] = h[x] + H[r] /\ F[r] <= H[r]
        /\ F[r] \in Nat /\ H[r] \in Nat
    BY <1>1
  <2>2. f[x] \in Nat /\ h[x] \in Nat /\ f[x] <= h[x]
    BY <2>1
  <2> HIDE DEF x, r
  <2> QED
    BY <2>1, <2>2
<1>4. {} \in X
  BY <1>1
<1>5. D \in X
  <2> HIDE DEF X
  <2> QED
    BY <1>3, <1>4, SubsetInduction
<1> QED
  BY <1>2, <1>5

\* Changing one number of a sum changes the sum by as much.
LEMMA SumUpdate ==
    ASSUME NEW D, IsFiniteSet(D), NEW f \in [D -> Nat], NEW h \in [D -> Nat], NEW d \in D,
           \A x \in D \ {d} : f[x] = h[x]
    PROVE  SumFunction(f) + h[d] = SumFunction(h) + f[d]
<1> DEFINE F == Sums(f)
           H == Sums(h)
           X == {s \in SUBSET D : /\ d \notin s => F[s] = H[s]
                                  /\ d \in s => F[s] + h[d] = H[s] + f[d]}
<1>1. /\ F[{}] = 0 /\ H[{}] = 0
      /\ \A s \in SUBSET D : s # {} =>
           /\ Taken(s) \in s /\ F[s] = f[Taken(s)] + F[s \ {Taken(s)}]
           /\ H[s] = h[Taken(s)] + H[s \ {Taken(s)}]
      /\ \A s \in SUBSET D : F[s] \in Nat /\ H[s] \in Nat
  <2>1. /\ F[{}] = 0
        /\ \A s \in SUBSET D : s # {} => Taken(s) \in s /\ F[s] = f[Taken(s)] + F[s \ {Taken(s)}]
        /\ \A s \in SUBSET D : F[s] \in Nat
    BY SumsDefined
  <2>2. /\ H[{}] = 0
        /\ \A s \in SUBSET D : s # {} => Taken(s) \in s /\ H[s] = h[Taken(s)] + H[s \ {Taken(s)}]
        /\ \A s \in SUBSET D : H[s] \in Nat
    BY SumsDefined
  <2> HIDE DEF F, H
  <2> QED
    BY <2>1, <2>2
<1>2. SumFunction(f) = F[D] /\ SumFunction(h) = H[D]
  BY SumIsSums
<1> HIDE DEF F, H
<1>3. \A s \in SUBSET D : s # {} /\ s \ {Taken(s)} \in X => s \in X
  <2> SUFFICES ASSUME NEW s \in SUBSET D, s # {}, s \ {Taken(s)} \in X PROVE s \in X
      OBVIOUS
  <2> DEFINE x == Taken(s)
             r == s \ {x}
  <2>1. /\ x \in s /\ x \in D /\ F[s] = f[x] + F[r] /\ H[s] = h[x] + H[r]
        /\ F[r] \in Nat /\ H[r] \in Nat
    BY <1>1
  <2>2. f[x] \in Nat /\ h[x] \in Nat /\ f[d] \in Nat /\ h[d] \in Nat
    BY <2>1
  <2>3. /\ d \notin r => F[r] = H[r]
        /\ d \in r => F[r] + h[d] = H[r] + f[d]
    OBVIOUS
  <2>4. CASE x = d
    <3>1. d \notin r /\ d \in s
      BY <2>1, <2>4
    <3> HIDE DEF x, r
    <3>2. F[s] + h[d] = H[s] + f[d]
      BY <2>1, <2>2, <2>3, <2>4, <3>1
    <3> QED
      BY <3>1, <3>2
  <2>5. CASE x # d
    <3>1. d \in r <=> d \in s
      BY <2>5
    <3>2. f[x] = h[x]
      BY <2>1, <2>5
    <3> HIDE DEF x, r
    <3>3. d \notin s => F[s] = H[s]
      BY <2>1, <2>3, <3>1, <3>2
    <3>4. ASSUME d \in s PROVE F[s] + h[d] = H[s] + f[d]
      <4>1. F[r] + h[d] = H[r] + f[d]
        BY <2>3, <3>1, <3>4
      <4>2. F[s] = f[x] + F[r] /\ H[s] = f[x] + H[r]
        BY <2>1, <3>2
      <4> QED
        BY <2>1, <2>2, <4>1, <4>2
    <3> QED
      BY <3>3, <3>4
  <2> QED
    BY <2>4, <2>5
<1>4. {} \in X
  BY <1>1
<1>5. D \in X
  <2> HIDE DEF X
  <2> QED
    BY <1>3, <1>4, SubsetInduction
<1> QED
  BY <1>2, <1>5
\* The partial sum of a set is that of the set without any one element and this element.
LEMMA SumWithout ==
    ASSUME NEW D, IsFiniteSet(D), NEW f \in [D -> Nat], NEW s \in SUBSET D, NEW x \in s
    PROVE  Sums(f)[s] = f[x] + Sums(f)[s \ {x}]
<1> DEFINE F == Sums(f)
           X == {n \in Nat : \A r \in SUBSET D : Cardinality(r) = n =>
                    \A y \in r : F[r] = f[y] + F[r \ {y}]}
<1>1. /\ \A r \in SUBSET D : r # {} => Taken(r) \in r /\ F[r] = f[Taken(r)] + F[r \ {Taken(r)}]
      /\ \A r \in SUBSET D : F[r] \in Nat
  BY SumsDefined
<1> HIDE DEF F
<1>2. ASSUME NEW r \in SUBSET D
      PROVE  /\ IsFiniteSet(r) /\ Cardinality(r) \in Nat
             /\ \A y \in r : Cardinality(r \ {y}) = Cardinality(r) - 1
  BY FS_Subset, FS_CardinalityType, FS_RemoveElement
<1>3. 0 \in X
  <2> SUFFICES ASSUME NEW r \in SUBSET D, Cardinality(r) = 0, NEW y \in r PROVE FALSE
      OBVIOUS
  <2> QED
    BY <1>2, FS_EmptySet
<1>4. ASSUME NEW n \in Nat, n \in X PROVE n + 1 \in X
  <2> SUFFICES ASSUME NEW r \in SUBSET D, Cardinality(r) = n + 1, NEW y \in r
               PROVE  F[r] = f[y] + F[r \ {y}]
      OBVIOUS
  <2> DEFINE t == Taken(r)
             a == r \ {t}
             b == r \ {y}
             c == a \ {y}
  <2>1. t \in r /\ F[r] = f[t] + F[a]
    BY <1>1
  <2>2. CASE y = t
    BY <2>1, <2>2
  <2>3. CASE y # t
    <3>1. a \in SUBSET D /\ b \in SUBSET D /\ c \in SUBSET D /\ y \in a /\ t \in b /\ c = b \ {t}
      BY <2>1, <2>3
    <3>2. Cardinality(a) = n /\ Cardinality(b) = n
      <4>1. \A z \in r : Cardinality(r \ {z}) = Cardinality(r) - 1
        BY <1>2
      <4>2. (n + 1) - 1 = n
        OBVIOUS
      <4>3. Cardinality(r \ {t}) = n /\ Cardinality(r \ {y}) = n
        BY <2>1, <4>1, <4>2
      <4> QED
        BY <4>3
    <3> HIDE DEF a, b, c, t
    <3>3. F[a] = f[y] + F[c]
      BY <1>4, <3>1, <3>2 DEF c
    <3>4. F[b] = f[t] + F[c]
      BY <1>4, <3>1, <3>2
    <3>5. f[t] \in Nat /\ f[y] \in Nat /\ F[c] \in Nat
      BY <1>1, <2>1, <3>1
    <3>6. F[r] = f[y] + F[b]
      BY <2>1, <3>3, <3>4, <3>5
    <3> QED
      BY <3>6 DEF b
  <2> QED
    BY <2>2, <2>3
<1>5. Cardinality(s) \in X
  <2> HIDE DEF X
  <2> QED
    BY <1>2, <1>3, <1>4, SetInduction
<1> QED
  BY <1>5 DEF F

\* Ten times a sum, and one summand more.
Tenfold(D, f, m, h) ==
    /\ IsFiniteSet(D) /\ m \notin D
    /\ f \in [D -> Nat] /\ h \in [D \cup {m} -> Nat]
    /\ \A i \in D : h[i] = 10 * f[i]

\* The sum grows the way its summands do.
LEMMA SumScaled ==
    ASSUME NEW D, NEW f, NEW m, NEW h, Tenfold(D, f, m, h)
    PROVE  SumFunction(h) = 10 * SumFunction(f) + h[m]
<1> DEFINE F == Sums(f)
           H == Sums(h)
           E == D \cup {m}
           X == {s \in SUBSET D : H[s] = 10 * F[s]}
<1>0. /\ IsFiniteSet(D) /\ m \notin D
      /\ f \in [D -> Nat] /\ h \in [D \cup {m} -> Nat]
      /\ \A i \in D : h[i] = 10 * f[i]
  BY DEF Tenfold
<1>1. IsFiniteSet(E)
  BY <1>0, FS_AddElement
<1>2. /\ F[{}] = 0 /\ \A s \in SUBSET D : F[s] \in Nat
      /\ \A s \in SUBSET D : s # {} => Taken(s) \in s /\ F[s] = f[Taken(s)] + F[s \ {Taken(s)}]
  BY <1>0, SumsDefined
<1>3. /\ H[{}] = 0 /\ \A s \in SUBSET E : H[s] \in Nat
      /\ \A s \in SUBSET E : s # {} => Taken(s) \in s /\ H[s] = h[Taken(s)] + H[s \ {Taken(s)}]
  BY <1>0, <1>1, SumsDefined
<1>4. H[E] = h[m] + H[E \ {m}]
  <2>1. E \in SUBSET E /\ m \in E /\ h \in [E -> Nat]
    BY <1>0
  <2>2. ASSUME NEW T, IsFiniteSet(T), h \in [T -> Nat], NEW x \in T
        PROVE  Sums(h)[T] = h[x] + Sums(h)[T \ {x}]
    <3>1. T \in SUBSET T
      OBVIOUS
    <3> QED
      BY <2>2, <3>1, SumWithout
  <2> HIDE DEF E
  <2> QED
    BY <1>1, <2>1, <2>2
<1>5. E \ {m} = D
  BY <1>0
<1>6. SumFunction(f) = F[D] /\ SumFunction(h) = H[E]
  BY <1>0, SumIsSums
<1> HIDE DEF F, H
<1>7. SUBSET D \subseteq X
  <2>1. {} \in X
    BY <1>2, <1>3
  <2>2. ASSUME NEW s \in SUBSET D, s # {}, s \ {Taken(s)} \in X PROVE s \in X
    <3> DEFINE t == Taken(s)
               r == s \ {t}
    <3>1. t \in D /\ F[s] = f[t] + F[r] /\ H[s] = h[t] + H[r] /\ H[r] = 10 * F[r]
      BY <1>2, <1>3, <2>2
    <3>2. f[t] \in Nat /\ h[t] = 10 * f[t] /\ F[r] \in Nat
      BY <1>0, <1>2, <3>1
    <3> HIDE DEF t, r
    <3>3. H[s] = 10 * F[s]
      BY <3>1, <3>2
    <3> QED
      BY <3>3
  <2> HIDE DEF X
  <2> QED
    BY <1>0, <2>1, <2>2, SubsetInduction
<1>8. H[D] = 10 * F[D] /\ F[D] \in Nat /\ h[m] \in Nat
  BY <1>0, <1>2, <1>7
<1>9. 10 * F[D] \in Nat
  BY <1>8
<1>10. H[E] = h[m] + H[D]
  BY <1>4, <1>5
<1>11. H[E] = 10 * F[D] + h[m]
  BY <1>8, <1>9, <1>10
<1> HIDE DEF E
<1> QED
  BY <1>6, <1>11

-----------------------------------------------------------------------------
(* Folds over sequences. *)

\* The first n numbers, without the last of them.
LEMMA FirstNumbers ==
    ASSUME NEW n \in Nat
    PROVE  /\ 1..0 = {}
           /\ 1..n + 1 # {} /\ Max(1..n + 1) = n + 1 /\ (1..n + 1) \ {n + 1} = 1..n
<1>1. 1..n + 1 \subseteq Int /\ n + 1 \in 1..n + 1 /\ \A i \in 1..n + 1 : i <= n + 1
  OBVIOUS
<1>2. Max(1..n + 1) = n + 1
  BY <1>1, MaxIs
<1>3. (1..n + 1) \ {n + 1} = 1..n
  OBVIOUS
<1> QED
  BY <1>1, <1>2, <1>3

\* g is a fold of s from base: a function of the sets of positions that takes the
\* greatest position of a set last.  The step is a function here, because a lemma
\* about an operator could not be applied.
IsFold(g, V, base, s, step) ==
    /\ g \in [SUBSET (1..Len(s)) -> V]
    /\ g[{}] = base
    /\ \A A \in SUBSET (1..Len(s)) :
         A # {} => Max(A) \in A /\ g[A] = step[<<g[A \ {Max(A)}], s[Max(A)]>>]

\* What FoldLeft computes exists.
LEMMA FoldExists ==
    ASSUME NEW V, NEW base \in V, NEW S, NEW s \in Seq(S), NEW step \in [V \X S -> V]
    PROVE  \E g : IsFold(g, V, base, s, step)
<1> DEFINE Is(g, n) ==
             /\ g \in [SUBSET (1..n) -> V]
             /\ g[{}] = base
             /\ \A A \in SUBSET (1..n) :
                  A # {} => /\ Max(A) \in A
                            /\ g[A] = step[<<g[A \ {Max(A)}], s[Max(A)]>>]
           X == {n \in Nat : n <= Len(s) => \E g : Is(g, n)}
<1>0. Len(s) \in Nat /\ \A i \in 1..Len(s) : s[i] \in S
  BY LenProperties, ElementOfSeq
<1>1. 0 \in X
  <2> DEFINE g == [A \in SUBSET (1..0) |-> base]
  <2>1. 1..0 = {}
    OBVIOUS
  <2>2. {} \in SUBSET (1..0) /\ \A A \in SUBSET (1..0) : A = {}
    BY <2>1
  <2>3. Is(g, 0)
    BY <2>2
  <2> QED
    BY <2>3
<1>2. ASSUME NEW n \in Nat, n \in X PROVE n + 1 \in X
  <2> SUFFICES ASSUME n + 1 <= Len(s) PROVE \E g : Is(g, n + 1)
    <3> HIDE DEF Is
    <3> QED
      OBVIOUS
  <2>0. n <= Len(s) /\ n + 1 \in 1..Len(s)
    BY <1>0
  <2>1. PICK g : Is(g, n)
    BY <1>2, <2>0
  <2> DEFINE h == [A \in SUBSET (1..n + 1) |->
                     IF n + 1 \in A THEN step[<<g[A \ {n + 1}], s[n + 1]>>] ELSE g[A]]
  <2>2. ASSUME NEW A \in SUBSET (1..n + 1)
        PROVE  A \ {n + 1} \in SUBSET (1..n) /\ (n + 1 \notin A => A \in SUBSET (1..n))
    OBVIOUS
  <2>3. s[n + 1] \in S
    BY <1>0, <2>0
  <2>4. \A B \in SUBSET (1..n) : g[B] \in V
    BY <2>1
  <2>5. \A v \in V : step[<<v, s[n + 1]>>] \in V
    BY <2>3
  <2>6. h \in [SUBSET (1..n + 1) -> V]
    <3> SUFFICES ASSUME NEW A \in SUBSET (1..n + 1)
                 PROVE (IF n + 1 \in A THEN step[<<g[A \ {n + 1}], s[n + 1]>>] ELSE g[A]) \in V
        OBVIOUS
    <3>1. CASE n + 1 \in A
      <4>1. g[A \ {n + 1}] \in V
        BY <2>2, <2>4
      <4> QED
        BY <2>5, <3>1, <4>1
    <3>2. CASE n + 1 \notin A
      BY <2>2, <2>4, <3>2
    <3> QED
      BY <3>1, <3>2
  <2>7. h[{}] = base
    <3>1. {} \in SUBSET (1..n + 1) /\ n + 1 \notin {}
      OBVIOUS
    <3>2. h[{}] = g[{}]
      BY <3>1
    <3> QED
      BY <2>1, <3>2
  <2>8. \A B \in SUBSET (1..n) : h[B] = g[B]
    <3> SUFFICES ASSUME NEW B \in SUBSET (1..n) PROVE h[B] = g[B]
        OBVIOUS
    <3>1. B \in SUBSET (1..n + 1) /\ n + 1 \notin B
      OBVIOUS
    <3> QED
      BY <3>1
  <2>9. ASSUME NEW A \in SUBSET (1..n + 1), A # {}
        PROVE  Max(A) \in A /\ h[A] = step[<<h[A \ {Max(A)}], s[Max(A)]>>]
    <3>1. CASE n + 1 \in A
      <4>1. Max(A) = n + 1
        <5>1. A \subseteq Int /\ \A i \in A : i <= n + 1
          OBVIOUS
        <5> QED
          BY <3>1, <5>1, MaxIs
      <4>2. h[A] = step[<<g[A \ {n + 1}], s[n + 1]>>]
        BY <3>1
      <4>3. h[A \ {n + 1}] = g[A \ {n + 1}]
        BY <2>2, <2>8
      <4> HIDE DEF h
      <4> QED
        BY <3>1, <4>1, <4>2, <4>3
    <3>2. CASE n + 1 \notin A
      <4>1. A \in SUBSET (1..n) /\ A \ {Max(A)} \in SUBSET (1..n)
        BY <2>2, <3>2
      <4>2. Max(A) \in A /\ g[A] = step[<<g[A \ {Max(A)}], s[Max(A)]>>]
        BY <2>1, <2>9, <4>1
      <4>3. h[A] = g[A] /\ h[A \ {Max(A)}] = g[A \ {Max(A)}]
        BY <2>8, <4>1
      <4> HIDE DEF h
      <4> QED
        BY <4>2, <4>3
    <3> QED
      BY <3>1, <3>2
  <2> HIDE DEF h
  <2>10. Is(h, n + 1)
    BY <2>6, <2>7, <2>9
  <2> QED
    BY <2>10
<1>3. Len(s) \in X
  <2> HIDE DEF X
  <2> QED
    BY <1>0, <1>1, <1>2, SetInduction
<1>4. \E g : Is(g, Len(s))
  <2> HIDE DEF Is
  <2> QED
    BY <1>0, <1>3
<1>5. \A g : Is(g, Len(s)) => IsFold(g, V, base, s, step)
  BY DEF IsFold
<1> HIDE DEF Is
<1> QED
  BY <1>4, <1>5

-----------------------------------------------------------------------------
(* The elements of a set of numbers in order. *)

\* A number above all others of a set comes last and moves none of them.
LEMMA NthExtended ==
    ASSUME NEW T, T \subseteq Nat, IsFiniteSet(T), NEW m \in Nat, \A i \in T : i < m
    PROVE  /\ Cardinality(T) \in Nat
           /\ IsFiniteSet(T \cup {m}) /\ Cardinality(T \cup {m}) = Cardinality(T) + 1
           /\ Nth(T \cup {m}, Cardinality(T) + 1) = m
           /\ \A k \in 1..Cardinality(T) : Nth(T \cup {m}, k) = Nth(T, k)
<1> DEFINE U == T \cup {m}
           RankT(j) == Cardinality({l \in T : l <= j})
           RankU(j) == Cardinality({l \in U : l <= j})
<1>1. Cardinality(T) \in Nat /\ IsFiniteSet(U) /\ Cardinality(U) = Cardinality(T) + 1
  <2>1. m \notin T
    OBVIOUS
  <2> QED
    BY <2>1, FS_CardinalityType, FS_AddElement
<1>2. RankU(m) = Cardinality(T) + 1
  <2>1. \A l \in U : l <= m
    OBVIOUS
  <2>2. {l \in U : l <= m} = U
    BY <2>1
  <2> QED
    BY <1>1, <2>2
<1>3. ASSUME NEW j \in T PROVE RankU(j) = RankT(j) /\ RankT(j) <= Cardinality(T)
  <2>1. {l \in U : l <= j} = {l \in T : l <= j}
    OBVIOUS
  <2>2. {l \in T : l <= j} \in SUBSET T
    OBVIOUS
  <2>3. RankT(j) <= Cardinality(T)
    BY <2>2, FS_Subset
  <2> QED
    BY <2>1, <2>3
<1>4. Nth(U, Cardinality(T) + 1) = m
  <2>1. {j \in U : RankU(j) = Cardinality(T) + 1} = {m}
    <3>1. ASSUME NEW j \in T PROVE RankU(j) # Cardinality(T) + 1
      <4>1. {l \in T : l <= j} \in SUBSET T
        OBVIOUS
      <4>2. RankT(j) \in Nat
        BY <4>1, FS_Subset, FS_CardinalityType
      <4> HIDE DEF RankT, RankU
      <4> QED
        BY <1>1, <1>3, <4>2
    <3> HIDE DEF RankU
    <3> QED
      BY <1>2, <3>1
  <2> QED
    BY <2>1 DEF Nth
<1>5. ASSUME NEW k \in 1..Cardinality(T) PROVE Nth(U, k) = Nth(T, k)
  <2>1. {j \in U : RankU(j) = k} = {j \in T : RankT(j) = k}
    <3>1. RankU(m) # k
      <4> HIDE DEF RankU
      <4> QED
        BY <1>1, <1>2
    <3> HIDE DEF RankU, RankT
    <3> QED
      BY <1>3, <3>1
  <2> QED
    BY <2>1 DEF Nth
<1> QED
  BY <1>1, <1>4, <1>5

\* The elements of a set of numbers in order: each is one, the first and the last
\* bound them, and between two consecutive ones there is none.
Ordered(A) ==
    LET n == Cardinality(A)
    IN /\ \A k \in 1..n : Nth(A, k) \in A
       /\ \A j \in A : \E k \in 1..n : Nth(A, k) = j
       /\ \A k \in 1..n - 1 : /\ Nth(A, k) < Nth(A, k + 1)
                              /\ \A j \in A : j <= Nth(A, k) \/ Nth(A, k + 1) <= j
       /\ n >= 1 => \A j \in A : Nth(A, 1) <= j /\ j <= Nth(A, n)

\* The elements of a finite set of numbers are in order.
LEMMA NthOrder ==
    ASSUME NEW n \in Nat, NEW T, T \subseteq 0..n
    PROVE  IsFiniteSet(T) /\ Cardinality(T) \in Nat /\ Ordered(T)
<1> DEFINE X == {i \in Nat : \A A \in SUBSET (0..i - 1) : Ordered(A)}
<1>1. 0 \in X
  <2> SUFFICES ASSUME NEW A \in SUBSET (0..0 - 1) PROVE Ordered(A)
      OBVIOUS
  <2>1. A = {}
    OBVIOUS
  <2> QED
    BY <2>1, FS_EmptySet DEF Ordered
<1>2. ASSUME NEW i \in Nat, i \in X PROVE i + 1 \in X
  <2> SUFFICES ASSUME NEW A \in SUBSET (0..(i + 1) - 1) PROVE Ordered(A)
      OBVIOUS
  <2>1. CASE i \notin A
    <3>1. A \in SUBSET (0..i - 1)
      BY <2>1
    <3> QED
      BY <1>2, <3>1
  <2>2. CASE i \in A
    <3> DEFINE B == A \ {i}
               m == Cardinality(B)
    <3>1. B \in SUBSET (0..i - 1) /\ A = B \cup {i}
      BY <2>2
    <3>2. IsFiniteSet(B)
      <4>1. IsFiniteSet(0..i - 1)
        BY FS_Interval
      <4> QED
        BY <3>1, <4>1, FS_Subset
    <3>3. B \subseteq Nat /\ \A j \in B : j < i /\ j <= i /\ j \in Nat
      BY <3>1
    <3>4. Ordered(B)
      BY <1>2, <3>1
    <3> HIDE DEF B
    <3>5. /\ m \in Nat /\ Cardinality(A) = m + 1
          /\ Nth(A, m + 1) = i
          /\ \A l \in 1..m : Nth(A, l) = Nth(B, l)
      BY <3>1, <3>2, <3>3, NthExtended
    <3> HIDE DEF m
    <3>6. /\ \A k \in 1..m : Nth(B, k) \in B
          /\ \A j \in B : \E k \in 1..m : Nth(B, k) = j
          /\ \A k \in 1..m - 1 : /\ Nth(B, k) < Nth(B, k + 1)
                                 /\ \A j \in B : j <= Nth(B, k) \/ Nth(B, k + 1) <= j
          /\ m >= 1 => \A j \in B : Nth(B, 1) <= j /\ j <= Nth(B, m)
      BY <3>4 DEF Ordered, m
    <3>7. ASSUME NEW k \in 1..m + 1 PROVE Nth(A, k) \in A
      <4>1. CASE k = m + 1
        BY <2>2, <3>5, <4>1
      <4>2. CASE k \in 1..m
        BY <3>1, <3>5, <3>6, <4>2
      <4> QED
        BY <3>5, <4>1, <4>2
    <3>8. ASSUME NEW j \in A PROVE \E k \in 1..m + 1 : Nth(A, k) = j
      <4>1. CASE j = i
        <5>1. m + 1 \in 1..m + 1
          BY <3>5
        <5> QED
          BY <3>5, <4>1, <5>1
      <4>2. CASE j \in B
        <5>1. PICK k \in 1..m : Nth(B, k) = j
          BY <3>6, <4>2
        <5>2. k \in 1..m + 1
          BY <3>5
        <5> QED
          BY <3>5, <5>1, <5>2
      <4> QED
        BY <3>1, <4>1, <4>2
    <3>9. ASSUME NEW k \in 1..(m + 1) - 1
          PROVE  /\ Nth(A, k) < Nth(A, k + 1)
                 /\ \A j \in A : j <= Nth(A, k) \/ Nth(A, k + 1) <= j
      <4>1. k \in 1..m
        BY <3>5
      <4>2. Nth(A, k) = Nth(B, k) /\ Nth(B, k) \in B
        BY <3>5, <3>6, <4>1
      <4>3. k \in 1..m /\ Nth(A, k) = Nth(B, k) /\ Nth(B, k) < i /\ Nth(B, k) \in Nat
        BY <3>3, <4>1, <4>2
      <4>4. CASE k = m
        <5>1. Nth(A, k + 1) = i
          BY <3>5, <4>4
        <5>2. \A j \in B : j <= Nth(B, k)
          BY <3>6, <4>3, <4>4
        <5>3. \A j \in A : j <= Nth(A, k) \/ i <= j
          BY <3>1, <4>3, <5>2
        <5> QED
          BY <4>3, <5>1, <5>3
      <4>5. CASE k # m
        <5>1. k \in 1..m - 1 /\ k + 1 \in 1..m
          BY <3>5, <4>3, <4>5
        <5>2. Nth(A, k + 1) = Nth(B, k + 1) /\ Nth(B, k + 1) \in B
          BY <3>5, <3>6, <5>1
        <5>3. Nth(B, k + 1) <= i
          BY <3>3, <5>2
        <5>4. Nth(B, k) < Nth(B, k + 1) /\ \A j \in B : j <= Nth(B, k) \/ Nth(B, k + 1) <= j
          BY <3>6, <5>1
        <5> QED
          BY <3>1, <4>3, <5>2, <5>3, <5>4
      <4> QED
        BY <4>4, <4>5
    <3>10. ASSUME NEW j \in A PROVE Nth(A, 1) <= j /\ j <= Nth(A, m + 1)
      <4>1. j <= i
        BY <3>1, <3>3
      <4>2. CASE m = 0
        <5>1. B = {}
          <6>1. B # {} => \E b \in B : TRUE
            OBVIOUS
          <6> QED
            BY <3>6, <4>2, <6>1
        <5> QED
          BY <3>1, <3>5, <4>1, <4>2, <5>1
      <4>3. CASE m # 0
        <5>1. m >= 1 /\ 1 \in 1..m
          BY <3>5, <4>3
        <5>2. Nth(A, 1) = Nth(B, 1) /\ Nth(B, 1) \in B
          BY <3>5, <3>6, <5>1
        <5>3. Nth(B, 1) <= i
          BY <3>3, <5>2
        <5>4. \A l \in B : Nth(B, 1) <= l
          BY <3>6, <5>1
        <5> QED
          BY <3>1, <3>5, <4>1, <5>2, <5>3, <5>4
      <4> QED
        BY <4>2, <4>3
    <3>11. Cardinality(A) = m + 1
      BY <3>5
    <3> QED
      BY <3>7, <3>8, <3>9, <3>10, <3>11 DEF Ordered
  <2> QED
    BY <2>1, <2>2
<1>3. Nat \subseteq X
  <2> HIDE DEF X
  <2> QED
    BY <1>1, <1>2, SetInduction
<1>4. IsFiniteSet(T) /\ Cardinality(T) \in Nat
  <2>1. IsFiniteSet(0..n) /\ T \in SUBSET (0..n)
    BY FS_Interval
  <2> QED
    BY <2>1, FS_Subset, FS_CardinalityType
<1>5. Ordered(T)
  <2>1. n + 1 \in Nat /\ (n + 1) - 1 = n
    OBVIOUS
  <2>2. n + 1 \in X
    <3> HIDE DEF X
    <3> QED
      BY <1>3, <2>1
  <2>3. \A A \in SUBSET (0..(n + 1) - 1) : Ordered(A)
    BY <2>2
  <2> QED
    BY <2>1, <2>3
<1> QED
  BY <1>4, <1>5

\* The k-th element is one of the set.
LEMMA NthInSet ==
    ASSUME NEW n \in Nat, NEW T, T \subseteq 1..n
    PROVE  /\ IsFiniteSet(T) /\ Cardinality(T) \in Nat
           /\ \A k \in 1..Cardinality(T) : Nth(T, k) \in T
<1>1. T \subseteq 0..n
  OBVIOUS
<1> QED
  BY <1>1, NthOrder DEF Ordered

-----------------------------------------------------------------------------
(* Slices of a text and its pieces between separators. *)

\* A slice of a text is a text, element by element.
LEMMA Slice ==
    ASSUME NEW S, NEW s \in Seq(S), NEW a \in 1..Len(s) + 1, NEW b \in 0..Len(s)
    PROVE  /\ Len(s) \in Nat /\ SubSeq(s, a, b) \in Seq(S)
           /\ Len(SubSeq(s, a, b)) = IF a <= b THEN b - a + 1 ELSE 0
           /\ \A i \in 1..b - a + 1 : SubSeq(s, a, b)[i] = s[a + i - 1]
<1>1. Len(s) \in Nat /\ \A i \in 1..Len(s) : s[i] \in S
  BY LenProperties, ElementOfSeq
<1>2. \A i \in a..b : s[i] \in S
  BY <1>1
<1>3. a \in Int /\ b \in Int
  BY <1>1
<1> QED
  BY <1>1, <1>2, <1>3, SubSeqProperties

\* Slices of two texts that agree there are equal.
LEMMA SameSlice ==
    ASSUME NEW S, NEW s \in Seq(S), NEW t \in Seq(S), NEW a \in Nat \ {0}, NEW b \in Nat,
           b <= Len(s), b <= Len(t), \A i \in a..b : s[i] = t[i]
    PROVE  SubSeq(s, a, b) = SubSeq(t, a, b)
<1>1. Len(s) \in Nat /\ Len(t) \in Nat
  BY LenProperties
<1>2. CASE b < a
  BY <1>2, SubSeqEmpty
<1>3. CASE a <= b
  <2>1. a \in 1..Len(s) + 1 /\ a \in 1..Len(t) + 1 /\ b \in 0..Len(s) /\ b \in 0..Len(t)
    BY <1>1, <1>3
  <2> DEFINE u == SubSeq(s, a, b)
             v == SubSeq(t, a, b)
  <2>2. /\ u \in Seq(S) /\ Len(u) = b - a + 1
        /\ \A i \in 1..b - a + 1 : u[i] = s[a + i - 1]
    BY <1>3, <2>1, Slice
  <2>3. /\ v \in Seq(S) /\ Len(v) = b - a + 1
        /\ \A i \in 1..b - a + 1 : v[i] = t[a + i - 1]
    BY <1>3, <2>1, Slice
  <2> HIDE DEF u, v
  <2>4. \A i \in 1..b - a + 1 : s[a + i - 1] = t[a + i - 1]
    <3> SUFFICES ASSUME NEW i \in 1..b - a + 1 PROVE s[a + i - 1] = t[a + i - 1]
        OBVIOUS
    <3>1. a + i - 1 \in a..b
      OBVIOUS
    <3> QED
      BY <3>1
  <2>5. Len(u) = Len(v) /\ \A i \in 1..Len(u) : u[i] = v[i]
    BY <2>2, <2>3, <2>4
  <2>6. u = v
    BY <2>2, <2>3, <2>5, SeqEqual
  <2> QED
    BY <2>6 DEF u, v
<1> QED
  BY <1>2, <1>3

\* The first m characters of a text.
LEMMA FirstPart ==
    ASSUME NEW S, NEW s \in Seq(S), NEW m \in 0..Len(s)
    PROVE  /\ SubSeq(s, 1, m) \in Seq(S) /\ Len(SubSeq(s, 1, m)) = m
           /\ \A i \in 1..m : SubSeq(s, 1, m)[i] = s[i]
<1> DEFINE f == SubSeq(s, 1, m)
<1>1. Len(s) \in Nat /\ 1 \in 1..Len(s) + 1 /\ m \in 0..Len(s)
  BY LenProperties
<1>2. /\ f \in Seq(S) /\ Len(f) = IF 1 <= m THEN m - 1 + 1 ELSE 0
      /\ \A i \in 1..m - 1 + 1 : f[i] = s[1 + i - 1]
  BY <1>1, Slice
<1> HIDE DEF f
<1>3. m - 1 + 1 = m /\ \A i \in 1..m : 1 + i - 1 = i
  BY <1>1
<1>4. Len(f) = m
  BY <1>1, <1>2
<1>5. \A i \in 1..m : f[i] = s[i]
  BY <1>2, <1>3
<1> QED
  BY <1>2, <1>4, <1>5 DEF f

\* The pieces lie between consecutive cuts.
Pieces(s, c, n) ==
    LET cut(k) == Nth(Cuts(s, c), k)
    IN /\ cut(1) = 0 /\ cut(n + 1) = Len(s) + 1
       /\ \A k \in 1..n :
            /\ cut(k) \in 0..Len(s) /\ cut(k + 1) \in 1..Len(s) + 1 /\ cut(k) < cut(k + 1)
            /\ SplitAt(s, c)[k] = SubSeq(s, cut(k) + 1, cut(k + 1) - 1)
            /\ \A i \in cut(k) + 1..cut(k + 1) - 1 : s[i] # c
            /\ cut(k) # 0 => s[cut(k)] = c
       /\ \A i \in 1..Len(s) : s[i] = c => \E k \in 1..n : cut(k) = i

\* SplitAt gives the pieces between the cuts, one more than there are separators.
LEMMA SplitPieces ==
    ASSUME NEW S, NEW s \in Seq(S), NEW c
    PROVE  LET n == Len(SplitAt(s, c))
           IN /\ SplitAt(s, c) \in Seq(Seq(S)) /\ n \in Nat \ {0}
              /\ Cardinality(Cuts(s, c)) = n + 1 /\ Pieces(s, c, n)
<1> DEFINE T == Cuts(s, c)
           N == Cardinality(T)
           L == Len(s)
           cut(k) == Nth(T, k)
<1>1. L \in Nat /\ DOMAIN s = 1..L
  BY LenProperties
<1>2. /\ T \subseteq 0..L + 1 /\ 0 \in T /\ L + 1 \in T
      /\ \A i \in 1..L : i \in T <=> s[i] = c
  BY <1>1 DEF Cuts
<1>3. IsFiniteSet(T) /\ N \in Nat /\ Ordered(T)
  BY <1>1, <1>2, NthOrder
<1>4. /\ \A k \in 1..N : cut(k) \in T
      /\ \A j \in T : \E k \in 1..N : cut(k) = j
      /\ \A k \in 1..N - 1 : /\ cut(k) < cut(k + 1)
                             /\ \A j \in T : j <= cut(k) \/ cut(k + 1) <= j
      /\ N >= 1 => \A j \in T : cut(1) <= j /\ j <= cut(N)
  BY <1>3 DEF Ordered
<1> HIDE DEF T, N, cut, L
<1>5. N >= 2
  <2>1. PICK k \in 1..N : cut(k) = 0
    BY <1>2, <1>4
  <2>2. PICK l \in 1..N : cut(l) = L + 1
    BY <1>2, <1>4
  <2>3. k # l
    BY <1>1, <2>1, <2>2
  <2> QED
    BY <1>3, <2>3
<1>6. cut(1) = 0 /\ cut(N) = L + 1
  <2>0. 1 \in 1..N /\ N \in 1..N /\ N >= 1
    BY <1>3, <1>5
  <2>1. cut(1) \in T /\ cut(N) \in T /\ cut(1) <= 0 /\ L + 1 <= cut(N)
    BY <1>2, <1>4, <2>0
  <2>2. cut(1) \in 0..L + 1 /\ cut(N) \in 0..L + 1
    BY <1>2, <2>1
  <2> QED
    BY <1>1, <2>1, <2>2
<1> DEFINE n == N - 1
           q == [k \in 1..n |-> SubSeq(s, cut(k) + 1, cut(k + 1) - 1)]
<1>7. n \in Nat \ {0} /\ n + 1 = N
  BY <1>3, <1>5
<1>8. ASSUME NEW k \in 1..n
      PROVE  /\ cut(k) \in 0..L /\ cut(k + 1) \in 1..L + 1 /\ cut(k) < cut(k + 1)
             /\ \A i \in cut(k) + 1..cut(k + 1) - 1 : s[i] # c
             /\ cut(k) # 0 => s[cut(k)] = c
  <2>1. k \in 1..N /\ k + 1 \in 1..N /\ k \in 1..N - 1
    BY <1>3
  <2>2. cut(k) \in T /\ cut(k + 1) \in T /\ cut(k) < cut(k + 1)
        /\ \A j \in T : j <= cut(k) \/ cut(k + 1) <= j
    BY <1>4, <2>1
  <2>3. cut(k) \in 0..L + 1 /\ cut(k + 1) \in 0..L + 1
    BY <1>2, <2>2
  <2>4. cut(k) \in 0..L /\ cut(k + 1) \in 1..L + 1
    BY <1>1, <2>2, <2>3
  <2>5. ASSUME NEW i \in cut(k) + 1..cut(k + 1) - 1 PROVE s[i] # c
    <3>1. i \in 1..L /\ ~(i <= cut(k)) /\ ~(cut(k + 1) <= i)
      BY <1>1, <2>4
    <3>2. i \notin T
      BY <2>2, <3>1
    <3> QED
      BY <1>2, <3>1, <3>2
  <2>6. cut(k) # 0 => cut(k) \in 1..L
    BY <2>4
  <2> QED
    BY <1>2, <2>2, <2>4, <2>5, <2>6
<1>9. ASSUME NEW k \in 1..n PROVE SubSeq(s, cut(k) + 1, cut(k + 1) - 1) \in Seq(S)
  <2>1. cut(k) + 1 \in 1..Len(s) + 1 /\ cut(k + 1) - 1 \in 0..Len(s)
    BY <1>1, <1>8 DEF L
  <2> QED
    BY <2>1, Slice
<1>10. q \in [1..n -> Seq(S)]
  BY <1>9
<1>11. q \in Seq(Seq(S)) /\ DOMAIN q = 1..n
  <2> HIDE DEF n, q
  <2> QED
    BY <1>7, <1>10, SeqDef
<1>12. Len(q) = n
  BY <1>7, <1>11, LenProperties
<1>13. SplitAt(s, c) = q
  BY DEF SplitAt, T, N, cut
<1>14. ASSUME NEW i \in 1..L, s[i] = c PROVE \E k \in 1..n : cut(k) = i
  <2>1. PICK k \in 1..N : cut(k) = i
    BY <1>2, <1>4, <1>14
  <2>2. k # N
    BY <1>1, <1>6, <2>1
  <2>3. k \in 1..n
    BY <1>3, <2>2
  <2> QED
    BY <2>1, <2>3
<1>15. \A k \in 1..n : q[k] = SubSeq(s, cut(k) + 1, cut(k + 1) - 1)
  OBVIOUS
<1> HIDE DEF q, n
<1>16. Pieces(s, c, n)
  BY <1>6, <1>7, <1>8, <1>13, <1>14, <1>15 DEF Pieces, T, L, cut
<1> QED
  BY <1>7, <1>11, <1>12, <1>13, <1>16 DEF T, N

\* A text that ends in the separator has one piece more, an empty one.
LEMMA SplitAtEnd ==
    ASSUME NEW S, NEW s \in Seq(S), NEW c \in S
    PROVE  SplitAt(Append(s, c), c) = Append(SplitAt(s, c), <<>>)
<1> DEFINE t == Append(s, c)
           L == Len(s)
           p == SplitAt(s, c)
           q == SplitAt(t, c)
           n == Len(p)
           T == Cuts(s, c)
<1>1. /\ L \in Nat /\ DOMAIN s = 1..L /\ t \in Seq(S) /\ Len(t) = L + 1 /\ DOMAIN t = 1..L + 1
      /\ t[L + 1] = c /\ \A i \in 1..L : t[i] = s[i]
  <2>1. t \in Seq(S) /\ Len(t) = L + 1
    BY AppendProperties
  <2>2. DOMAIN t = 1..Len(t)
    BY <2>1, LenProperties
  <2> QED
    BY <2>1, <2>2, AppendProperties, LenProperties
<1> HIDE DEF t
<1>2. Cuts(t, c) = T \cup {L + 2}
  <2>1. (L + 1) + 1 = L + 2
    BY <1>1
  <2>2. {i \in DOMAIN t : t[i] = c} = {i \in DOMAIN s : s[i] = c} \cup {L + 1}
    BY <1>1
  <2> QED
    BY <1>1, <2>1, <2>2 DEF Cuts
<1>3. /\ p \in Seq(Seq(S)) /\ n \in Nat \ {0} /\ Cardinality(T) = n + 1
      /\ Pieces(s, c, n)
  BY SplitPieces
<1>4. /\ q \in Seq(Seq(S)) /\ Len(q) \in Nat \ {0} /\ Cardinality(Cuts(t, c)) = Len(q) + 1
      /\ Pieces(t, c, Len(q))
  BY <1>1, SplitPieces
<1>5. /\ IsFiniteSet(T) /\ T \subseteq Nat /\ \A i \in T : i < L + 2
  <2>1. T \subseteq 0..L + 1
    BY <1>1 DEF Cuts
  <2>2. L + 1 \in Nat
    BY <1>1
  <2>3. IsFiniteSet(T)
    BY <2>1, <2>2, NthOrder
  <2> QED
    BY <1>1, <2>1, <2>3
<1>6. /\ Cardinality(Cuts(t, c)) = n + 2
      /\ Nth(Cuts(t, c), n + 2) = L + 2
      /\ \A k \in 1..n + 1 : Nth(Cuts(t, c), k) = Nth(T, k)
  <2> HIDE DEF T, n
  <2>1. L + 2 \in Nat /\ (n + 1) + 1 = n + 2
    BY <1>1, <1>3
  <2>2. /\ Cardinality(T \cup {L + 2}) = Cardinality(T) + 1
        /\ Nth(T \cup {L + 2}, Cardinality(T) + 1) = L + 2
        /\ \A k \in 1..Cardinality(T) : Nth(T \cup {L + 2}, k) = Nth(T, k)
    BY <1>5, <2>1, NthExtended
  <2> QED
    BY <1>2, <1>3, <2>1, <2>2
<1>7. Len(q) = n + 1
  BY <1>3, <1>4, <1>6
<1>8. ASSUME NEW k \in 1..n PROVE q[k] = p[k]
  <2> DEFINE a == Nth(T, k)
             b == Nth(T, k + 1)
  <2>1. k \in 1..n + 1 /\ k + 1 \in 1..n + 1
    BY <1>3
  <2>2. q[k] = SubSeq(t, Nth(Cuts(t, c), k) + 1, Nth(Cuts(t, c), k + 1) - 1)
    BY <1>4, <1>7, <2>1 DEF Pieces
  <2>3. q[k] = SubSeq(t, a + 1, b - 1)
    BY <1>6, <2>1, <2>2
  <2>4. p[k] = SubSeq(s, a + 1, b - 1) /\ a \in 0..L /\ b \in 1..L + 1
    BY <1>3 DEF Pieces
  <2> HIDE DEF a, b
  <2>5. a + 1 \in Nat \ {0} /\ b - 1 \in Nat /\ b - 1 <= Len(s) /\ b - 1 <= Len(t)
    BY <1>1, <2>4
  <2>6. \A i \in a + 1..b - 1 : s[i] = t[i]
    BY <1>1, <2>4
  <2>7. SubSeq(s, a + 1, b - 1) = SubSeq(t, a + 1, b - 1)
    BY <1>1, <2>5, <2>6, SameSlice
  <2> QED
    BY <2>3, <2>4, <2>7
<1>9. q[n + 1] = <<>>
  <2>1. n + 1 \in 1..n + 1 /\ (n + 1) + 1 = n + 2
    BY <1>3
  <2>2. q[n + 1] = SubSeq(t, Nth(Cuts(t, c), n + 1) + 1, Nth(Cuts(t, c), (n + 1) + 1) - 1)
    BY <1>4, <1>7, <2>1 DEF Pieces
  <2>3. Nth(T, n + 1) = L + 1
    BY <1>3 DEF Pieces
  <2>4. q[n + 1] = SubSeq(t, (L + 1) + 1, (L + 2) - 1)
    BY <1>6, <2>1, <2>2, <2>3
  <2>5. (L + 1) + 1 \in Int /\ (L + 2) - 1 \in Int /\ (L + 2) - 1 < (L + 1) + 1
    BY <1>1
  <2> QED
    BY <2>4, <2>5, SubSeqEmpty
<1> DEFINE r == Append(p, <<>>)
<1>10. /\ r \in Seq(Seq(S)) /\ Len(r) = n + 1 /\ r[n + 1] = <<>>
       /\ \A k \in 1..n : r[k] = p[k]
  <2>1. <<>> \in Seq(S)
    OBVIOUS
  <2> QED
    BY <1>3, <2>1, AppendProperties
<1> HIDE DEF r, p, q, n
<1>11. \A k \in 1..Len(q) : q[k] = r[k]
  <2> SUFFICES ASSUME NEW k \in 1..n + 1 PROVE q[k] = r[k]
      BY <1>7
  <2>1. k \in 1..n \/ k = n + 1
    BY <1>3
  <2> QED
    BY <1>8, <1>9, <1>10, <2>1
<1>12. q = r
  BY <1>4, <1>7, <1>10, <1>11, SeqEqual
<1> QED
  BY <1>12 DEF q, r, p, t

-----------------------------------------------------------------------------
(* Tokens of a text. *)

\* What a further character c does to the places where the tokens of s start and
\* stop: a separator nothing, another one starts a token or moves the last stop.
LEMMA TokenPlaces ==
    ASSUME NEW S, NEW s \in Seq(S), NEW c \in S, NEW seps
    PROVE  LET n == Len(s)
               t == Append(s, c)
           IN /\ TokenStarts(s, seps) \subseteq 1..n /\ TokenStops(s, seps) \subseteq 1..n
              /\ c \in seps => /\ TokenStarts(t, seps) = TokenStarts(s, seps)
                               /\ TokenStops(t, seps) = TokenStops(s, seps)
              /\ c \notin seps /\ ~InToken(s, seps, n) =>
                   /\ TokenStarts(t, seps) = TokenStarts(s, seps) \cup {n + 1}
                   /\ TokenStops(t, seps) = TokenStops(s, seps) \cup {n + 1}
              /\ c \notin seps /\ InToken(s, seps, n) =>
                   /\ TokenStarts(t, seps) = TokenStarts(s, seps)
                   /\ n \in TokenStops(s, seps)
                   /\ TokenStops(t, seps) = (TokenStops(s, seps) \ {n}) \cup {n + 1}
<1> DEFINE n == Len(s)
           t == Append(s, c)
<1>1. /\ n \in Nat /\ DOMAIN s = 1..n
      /\ DOMAIN t = 1..n + 1 /\ t[n + 1] = c /\ \A i \in 1..n : t[i] = s[i]
  <2>1. n \in Nat /\ DOMAIN s = 1..n
    BY LenProperties
  <2>2. t \in Seq(S) /\ Len(t) = n + 1 /\ t[n + 1] = c /\ \A i \in 1..n : t[i] = s[i]
    BY AppendProperties
  <2>3. DOMAIN t = 1..n + 1
    BY <2>2, LenProperties
  <2> QED
    BY <2>1, <2>2, <2>3
<1> HIDE DEF n, t
<1>2. ASSUME NEW i \in Int
      PROVE  InToken(t, seps, i) <=> InToken(s, seps, i) \/ (i = n + 1 /\ c \notin seps)
  <2>1. CASE i \in 1..n
    BY <1>1, <2>1 DEF InToken
  <2>2. CASE i \notin 1..n
    <3>1. i \in DOMAIN t <=> i = n + 1
      BY <1>1, <2>2
    <3>2. i \notin DOMAIN s
      BY <1>1, <2>2
    <3> QED
      BY <1>1, <3>1, <3>2 DEF InToken
  <2> QED
    BY <2>1, <2>2
<1>3. ASSUME NEW i \in Int, i \notin 1..n PROVE ~InToken(s, seps, i)
  BY <1>1, <1>3 DEF InToken
<1>4. TokenStarts(s, seps) \subseteq 1..n /\ TokenStops(s, seps) \subseteq 1..n
  BY <1>1 DEF TokenStarts, TokenStops
<1>5. ASSUME NEW i \in Int
      PROVE  /\ i \in TokenStarts(s, seps) <=> InToken(s, seps, i) /\ ~InToken(s, seps, i - 1)
             /\ i \in TokenStops(s, seps) <=> InToken(s, seps, i) /\ ~InToken(s, seps, i + 1)
             /\ i \in TokenStarts(t, seps) <=> InToken(t, seps, i) /\ ~InToken(t, seps, i - 1)
             /\ i \in TokenStops(t, seps) <=> InToken(t, seps, i) /\ ~InToken(t, seps, i + 1)
  BY DEF InToken, TokenStarts, TokenStops
<1>6. /\ TokenStarts(t, seps) \subseteq Int /\ TokenStops(t, seps) \subseteq Int
      /\ TokenStarts(s, seps) \subseteq Int /\ TokenStops(s, seps) \subseteq Int
  BY <1>1 DEF TokenStarts, TokenStops
<1>7. ASSUME c \in seps
      PROVE  TokenStarts(t, seps) = TokenStarts(s, seps) /\ TokenStops(t, seps) = TokenStops(s, seps)
  <2>1. ASSUME NEW i \in Int
        PROVE  /\ i \in TokenStarts(t, seps) <=> i \in TokenStarts(s, seps)
               /\ i \in TokenStops(t, seps) <=> i \in TokenStops(s, seps)
    <3>1. i - 1 \in Int /\ i + 1 \in Int
      OBVIOUS
    <3> QED
      BY <1>2, <1>5, <1>7, <3>1
  <2> QED
    BY <1>6, <2>1
<1>8. ASSUME c \notin seps, ~InToken(s, seps, n)
      PROVE  /\ TokenStarts(t, seps) = TokenStarts(s, seps) \cup {n + 1}
             /\ TokenStops(t, seps) = TokenStops(s, seps) \cup {n + 1}
  <2>1. ASSUME NEW i \in Int
        PROVE  /\ i \in TokenStarts(t, seps) <=> i \in TokenStarts(s, seps) \/ i = n + 1
               /\ i \in TokenStops(t, seps) <=> i \in TokenStops(s, seps) \/ i = n + 1
    <3>1. i - 1 \in Int /\ i + 1 \in Int
      OBVIOUS
    <3>2. CASE i \in 1..n
      <4>1. i # n + 1 /\ i - 1 # n + 1 /\ (i + 1 = n + 1 => i = n)
        BY <1>1, <3>2
      <4> QED
        BY <1>2, <1>5, <1>8, <3>1, <4>1
    <3>3. CASE i = n + 1
      <4>1. i - 1 = n /\ i - 1 # n + 1 /\ i + 1 # n + 1 /\ i + 1 \notin 1..n
        BY <1>1, <3>3
      <4> QED
        BY <1>2, <1>3, <1>5, <1>8, <3>1, <3>3, <4>1
    <3>4. CASE i \notin 1..n /\ i # n + 1
      BY <1>2, <1>3, <1>5, <3>4
    <3> QED
      BY <3>2, <3>3, <3>4
  <2> QED
    BY <1>1, <1>4, <1>6, <2>1
<1>9. ASSUME c \notin seps, InToken(s, seps, n)
      PROVE  /\ TokenStarts(t, seps) = TokenStarts(s, seps)
             /\ n \in TokenStops(s, seps)
             /\ TokenStops(t, seps) = (TokenStops(s, seps) \ {n}) \cup {n + 1}
  <2>0. n \in Int /\ n + 1 \in Int /\ n + 1 \notin 1..n
    BY <1>1
  <2>1. n \in TokenStops(s, seps)
    BY <1>3, <1>5, <1>9, <2>0
  <2>2. ASSUME NEW i \in Int
        PROVE  /\ i \in TokenStarts(t, seps) <=> i \in TokenStarts(s, seps)
               /\ i \in TokenStops(t, seps) <=> (i \in TokenStops(s, seps) /\ i # n) \/ i = n + 1
    <3>1. i - 1 \in Int /\ i + 1 \in Int
      OBVIOUS
    <3>2. CASE i \in 1..n
      <4>1. i # n + 1 /\ i - 1 # n + 1 /\ (i + 1 = n + 1 <=> i = n)
        BY <1>1, <3>2
      <4> QED
        BY <1>2, <1>5, <1>9, <3>1, <4>1
    <3>3. CASE i = n + 1
      <4>1. i - 1 = n /\ i - 1 # n + 1 /\ i + 1 # n + 1 /\ i + 1 \notin 1..n /\ i \notin 1..n
        BY <1>1, <3>3
      <4> QED
        BY <1>2, <1>3, <1>5, <1>9, <3>1, <3>3, <4>1
    <3>4. CASE i \notin 1..n /\ i # n + 1
      BY <1>2, <1>3, <1>5, <3>4
    <3> QED
      BY <3>2, <3>3, <3>4
  <2>3. TokenStarts(t, seps) = TokenStarts(s, seps)
    BY <1>6, <2>2
  <2>4. TokenStops(t, seps) = (TokenStops(s, seps) \ {n}) \cup {n + 1}
    BY <1>6, <2>0, <2>2
  <2> QED
    BY <2>1, <2>3, <2>4
<1> QED
  BY <1>4, <1>7, <1>8, <1>9 DEF n, t

\* As many tokens stop as start, each inside the text.
LEMMA TokenCount ==
    ASSUME NEW S, NEW s \in Seq(S), NEW seps
    PROVE  LET n == Cardinality(TokenStarts(s, seps))
           IN /\ n \in Nat /\ n = Cardinality(TokenStops(s, seps))
              /\ IsFiniteSet(TokenStarts(s, seps)) /\ IsFiniteSet(TokenStops(s, seps))
              /\ \A k \in 1..n : /\ Nth(TokenStarts(s, seps), k) \in 1..Len(s)
                                 /\ Nth(TokenStops(s, seps), k) \in 1..Len(s)
<1> DEFINE X == {r \in Seq(S) :
                   Cardinality(TokenStarts(r, seps)) = Cardinality(TokenStops(r, seps))}
<1>1. <<>> \in X
  <2>1. TokenStarts(<<>>, seps) = {} /\ TokenStops(<<>>, seps) = {}
    BY DEF TokenStarts, TokenStops
  <2>2. <<>> \in Seq(S)
    OBVIOUS
  <2> QED
    BY <2>1, <2>2
<1>2. ASSUME NEW r \in Seq(S), NEW e \in S, r \in X PROVE Append(r, e) \in X
  <2> DEFINE t == Append(r, e)
             n == Len(r)
             starts == TokenStarts(r, seps)
             stops == TokenStops(r, seps)
  <2>1. t \in Seq(S) /\ n \in Nat
    BY AppendProperties, LenProperties
  <2>2. Cardinality(starts) = Cardinality(stops)
    BY <1>2
  <2>3. /\ starts \subseteq 1..n /\ stops \subseteq 1..n
        /\ e \in seps => TokenStarts(t, seps) = starts /\ TokenStops(t, seps) = stops
        /\ e \notin seps /\ ~InToken(r, seps, n) =>
             TokenStarts(t, seps) = starts \cup {n + 1} /\ TokenStops(t, seps) = stops \cup {n + 1}
        /\ e \notin seps /\ InToken(r, seps, n) =>
             /\ TokenStarts(t, seps) = starts /\ n \in stops
             /\ TokenStops(t, seps) = (stops \ {n}) \cup {n + 1}
    BY TokenPlaces
  <2> HIDE DEF starts, stops, n, t
  <2>4. IsFiniteSet(starts) /\ IsFiniteSet(stops) /\ Cardinality(stops) \in Nat
    BY <2>1, <2>3, NthInSet
  <2>5. n + 1 \notin starts /\ n + 1 \notin stops
    BY <2>1, <2>3
  <2>6. Cardinality(TokenStarts(t, seps)) = Cardinality(TokenStops(t, seps))
    <3>1. CASE e \in seps
      BY <2>2, <2>3, <3>1
    <3>2. CASE e \notin seps /\ ~InToken(r, seps, n)
      <4>1. /\ Cardinality(starts \cup {n + 1}) = Cardinality(starts) + 1
            /\ Cardinality(stops \cup {n + 1}) = Cardinality(stops) + 1
        BY <2>4, <2>5, FS_AddElement
      <4> QED
        BY <2>2, <2>3, <3>2, <4>1
    <3>3. CASE e \notin seps /\ InToken(r, seps, n)
      <4>1. IsFiniteSet(stops \ {n}) /\ Cardinality(stops \ {n}) = Cardinality(stops) - 1
        BY <2>3, <2>4, <3>3, FS_RemoveElement
      <4>2. Cardinality((stops \ {n}) \cup {n + 1}) = Cardinality(stops \ {n}) + 1
        BY <2>5, <4>1, FS_AddElement
      <4>3. Cardinality((stops \ {n}) \cup {n + 1}) = Cardinality(stops)
        BY <2>4, <4>1, <4>2
      <4>4. TokenStarts(t, seps) = starts /\ TokenStops(t, seps) = (stops \ {n}) \cup {n + 1}
        BY <2>3, <3>3
      <4> QED
        BY <2>2, <4>3, <4>4
    <3> QED
      BY <3>1, <3>2, <3>3
  <2> QED
    BY <2>1, <2>6 DEF t
<1>3. s \in X
  <2> HIDE DEF X
  <2> QED
    BY <1>1, <1>2, SequenceInduction
<1>4. TokenStarts(s, seps) \subseteq 1..Len(s) /\ TokenStops(s, seps) \subseteq 1..Len(s)
      /\ Len(s) \in Nat
  BY LenProperties DEF TokenStarts, TokenStops
<1> QED
  BY <1>3, <1>4, NthInSet

\* The tokens of a text are texts.
LEMMA TokensType ==
    ASSUME NEW S, NEW s \in Seq(S), NEW seps
    PROVE  /\ Tokens(s, seps) \in Seq(Seq(S))
           /\ Len(Tokens(s, seps)) = Cardinality(TokenStarts(s, seps))
<1> DEFINE n == Cardinality(TokenStarts(s, seps))
           a(k) == Nth(TokenStarts(s, seps), k)
           b(k) == Nth(TokenStops(s, seps), k)
           r == [k \in 1..n |-> SubSeq(s, a(k), b(k))]
<1>1. n \in Nat /\ \A k \in 1..n : a(k) \in 1..Len(s) /\ b(k) \in 1..Len(s)
  BY TokenCount
<1>2. Len(s) \in Nat
  BY LenProperties
<1> HIDE DEF n, a, b
<1>3. ASSUME NEW k \in 1..n PROVE SubSeq(s, a(k), b(k)) \in Seq(S)
  <2>1. a(k) \in 1..Len(s) /\ b(k) \in 1..Len(s)
    BY <1>1
  <2>2. \A i \in a(k)..b(k) : s[i] \in S
    BY <1>2, <2>1, ElementOfSeq
  <2> QED
    BY <1>2, <2>1, <2>2, SubSeqProperties
<1>4. r \in [1..n -> Seq(S)]
  BY <1>3
<1>5. r \in Seq(Seq(S)) /\ DOMAIN r = 1..n
  BY <1>1, <1>4, SeqDef
<1>6. Len(r) = n
  BY <1>1, <1>5, LenProperties
<1>7. Tokens(s, seps) = r
  BY DEF Tokens, n, a, b
<1> QED
  BY <1>5, <1>6, <1>7 DEF n

\* A character behind a text is no part of its slices and ends those that reach it.
LEMMA SliceOfAppend ==
    ASSUME NEW S, NEW s \in Seq(S), NEW c \in S
    PROVE  /\ \A a, b \in 1..Len(s) : SubSeq(Append(s, c), a, b) = SubSeq(s, a, b)
           /\ \A a \in 1..Len(s) :
                SubSeq(Append(s, c), a, Len(s) + 1) = Append(SubSeq(s, a, Len(s)), c)
           /\ SubSeq(Append(s, c), Len(s) + 1, Len(s) + 1) = <<c>>
<1> DEFINE t == Append(s, c)
           n == Len(s)
<1>1. /\ n \in Nat /\ t \in Seq(S) /\ Len(t) = n + 1 /\ t[n + 1] = c
      /\ \A i \in 1..n : t[i] = s[i] /\ s[i] \in S
  BY LenProperties, AppendProperties, ElementOfSeq
<1>2. t = s \o <<c>> /\ <<c>> \in Seq(S)
  BY AppendIsConcat
<1> HIDE DEF t, n
<1>3. ASSUME NEW a \in 1..n, NEW b \in 1..n PROVE SubSeq(t, a, b) = SubSeq(s, a, b)
  BY <1>2, SubSeqOfConcat1 DEF n
<1>4. ASSUME NEW a \in 1..n + 1
      PROVE  SubSeq(t, a, n + 1) = SubSeq(t, a, n) \o <<c>>
  <2>1. a \in 1..Len(t) /\ n + 1 \in a..Len(t) /\ (n + 1) - 1 = n
    BY <1>1
  <2>2. SubSeq(t, a, n + 1) = SubSeq(t, a, (n + 1) - 1) \o <<t[n + 1]>>
    BY <1>1, <2>1, SubSeqRecursiveSecond
  <2> QED
    BY <1>1, <2>1, <2>2
<1>5. ASSUME NEW a \in 1..n PROVE SubSeq(t, a, n + 1) = Append(SubSeq(s, a, n), c)
  <2>1. a \in 1..n + 1 /\ n \in 1..n
    BY <1>1
  <2>2. SubSeq(t, a, n + 1) = SubSeq(s, a, n) \o <<c>>
    BY <1>3, <1>4, <2>1
  <2>3. SubSeq(s, a, n) \in Seq(S)
    BY <1>1, SubSeqProperties
  <2> QED
    BY <2>2, <2>3, AppendIsConcat
<1>6. SubSeq(t, n + 1, n + 1) = <<c>>
  <2>1. SubSeq(t, n + 1, n + 1) = SubSeq(t, n + 1, n) \o <<c>>
    BY <1>1, <1>4
  <2>2. SubSeq(t, n + 1, n) = <<>>
    BY <1>1, SubSeqEmpty
  <2> QED
    BY <1>2, <2>1, <2>2, ConcatEmptySeq
<1> QED
  BY <1>3, <1>5, <1>6 DEF t, n

\* The tokens of a text with one more character: a separator adds nothing,
\* another one lengthens the token the text ends in, or is a token of its own.
LEMMA TokensAppend ==
    ASSUME NEW S, NEW s \in Seq(S), NEW c \in S, NEW seps
    PROVE  LET w == Tokens(s, seps)
           IN /\ c \in seps => Tokens(Append(s, c), seps) = w
              /\ c \notin seps /\ ~InToken(s, seps, Len(s)) =>
                   Tokens(Append(s, c), seps) = Append(w, <<c>>)
              /\ c \notin seps /\ InToken(s, seps, Len(s)) =>
                   Tokens(Append(s, c), seps) = [w EXCEPT ![Len(w)] = Append(@, c)]
              /\ InToken(s, seps, Len(s)) => w # <<>>
<1> DEFINE t == Append(s, c)
           n == Len(s)
           A == TokenStarts(s, seps)
           B == TokenStops(s, seps)
           K == Cardinality(A)
           w == Tokens(s, seps)
           v == Tokens(t, seps)
<1>1. n \in Nat /\ t \in Seq(S)
  BY LenProperties, AppendProperties
<1>2. /\ A \subseteq 1..n /\ B \subseteq 1..n
      /\ c \in seps => TokenStarts(t, seps) = A /\ TokenStops(t, seps) = B
      /\ c \notin seps /\ ~InToken(s, seps, n) =>
           TokenStarts(t, seps) = A \cup {n + 1} /\ TokenStops(t, seps) = B \cup {n + 1}
      /\ c \notin seps /\ InToken(s, seps, n) =>
           TokenStarts(t, seps) = A /\ n \in B /\ TokenStops(t, seps) = (B \ {n}) \cup {n + 1}
  BY TokenPlaces
<1>3. /\ K \in Nat /\ Cardinality(B) = K /\ IsFiniteSet(A) /\ IsFiniteSet(B)
      /\ \A k \in 1..K : Nth(A, k) \in 1..n /\ Nth(B, k) \in 1..n
  BY TokenCount
<1>4. w \in Seq(Seq(S)) /\ v \in Seq(Seq(S)) /\ Len(w) = K /\ Len(v) = Cardinality(TokenStarts(t, seps))
  BY <1>1, TokensType
<1>5. /\ \A k \in 1..K : w[k] = SubSeq(s, Nth(A, k), Nth(B, k))
      /\ \A k \in 1..Len(v) : v[k] = SubSeq(t, Nth(TokenStarts(t, seps), k), Nth(TokenStops(t, seps), k))
  BY <1>4 DEF Tokens
<1>6. /\ \A a, b \in 1..n : SubSeq(t, a, b) = SubSeq(s, a, b)
      /\ \A a \in 1..n : SubSeq(t, a, n + 1) = Append(SubSeq(s, a, n), c)
      /\ SubSeq(t, n + 1, n + 1) = <<c>>
  BY SliceOfAppend
<1>7. ~InToken(s, seps, n) \/ n \in B
  <2>1. DOMAIN s = 1..n /\ n + 1 \notin 1..n
    BY <1>1, LenProperties
  <2> QED
    BY <2>1 DEF InToken, TokenStops
<1> HIDE DEF t, n, A, B, K, w, v
<1>8. ASSUME c \in seps PROVE v = w
  <2>1. TokenStarts(t, seps) = A /\ TokenStops(t, seps) = B
    BY <1>2, <1>8
  <2>2. Len(v) = K
    BY <1>4, <2>1 DEF K
  <2>3. \A k \in 1..K : v[k] = w[k]
    BY <1>3, <1>5, <1>6, <2>1, <2>2
  <2> QED
    BY <1>4, <2>2, <2>3, SeqEqual
<1>9. ASSUME c \notin seps, ~InToken(s, seps, n) PROVE v = Append(w, <<c>>)
  <2>1. TokenStarts(t, seps) = A \cup {n + 1} /\ TokenStops(t, seps) = B \cup {n + 1}
    BY <1>2, <1>9
  <2>2. n + 1 \in Nat /\ (\A i \in A : i < n + 1) /\ (\A i \in B : i < n + 1)
        /\ A \subseteq Nat /\ B \subseteq Nat
    BY <1>1, <1>2
  <2>3. /\ Cardinality(A \cup {n + 1}) = K + 1
        /\ Nth(A \cup {n + 1}, K + 1) = n + 1 /\ Nth(B \cup {n + 1}, K + 1) = n + 1
        /\ \A k \in 1..K : Nth(A \cup {n + 1}, k) = Nth(A, k) /\ Nth(B \cup {n + 1}, k) = Nth(B, k)
    <3>1. /\ Cardinality(A \cup {n + 1}) = K + 1
          /\ Nth(A \cup {n + 1}, K + 1) = n + 1
          /\ \A k \in 1..K : Nth(A \cup {n + 1}, k) = Nth(A, k)
      BY <1>3, <2>2, NthExtended DEF K
    <3>2. /\ Nth(B \cup {n + 1}, Cardinality(B) + 1) = n + 1
          /\ \A k \in 1..Cardinality(B) : Nth(B \cup {n + 1}, k) = Nth(B, k)
      BY <1>3, <2>2, NthExtended
    <3> QED
      BY <1>3, <3>1, <3>2
  <2>4. Len(v) = K + 1
    BY <1>4, <2>1, <2>3
  <2>5. ASSUME NEW k \in 1..K PROVE v[k] = w[k]
    <3>1. k \in 1..Len(v)
      BY <1>3, <2>4
    <3>2. v[k] = SubSeq(t, Nth(A, k), Nth(B, k))
      BY <1>5, <2>1, <2>3, <3>1
    <3> QED
      BY <1>3, <1>5, <1>6, <3>2
  <2>6. v[K + 1] = <<c>>
    <3>1. K + 1 \in 1..Len(v)
      BY <1>3, <2>4
    <3> QED
      BY <1>5, <1>6, <2>1, <2>3, <3>1
  <2>7. <<c>> \in Seq(S)
    OBVIOUS
  <2>8. /\ Append(w, <<c>>) \in Seq(Seq(S)) /\ Len(Append(w, <<c>>)) = K + 1
        /\ \A k \in 1..K : Append(w, <<c>>)[k] = w[k]
        /\ Append(w, <<c>>)[K + 1] = <<c>>
    BY <1>4, <2>7, AppendProperties
  <2>9. \A k \in 1..Len(v) : v[k] = Append(w, <<c>>)[k]
    <3> SUFFICES ASSUME NEW k \in 1..Len(v) PROVE v[k] = Append(w, <<c>>)[k]
        OBVIOUS
    <3>1. k \in 1..K \/ k = K + 1
      BY <1>3, <2>4
    <3> QED
      BY <2>5, <2>6, <2>8, <3>1
  <2> QED
    BY <1>4, <2>4, <2>8, <2>9, SeqEqual
<1>10. ASSUME InToken(s, seps, n) PROVE K >= 1 /\ w # <<>>
  <2>1. n \in B
    BY <1>7, <1>10
  <2>2. K # 0
    BY <1>3, <2>1, FS_EmptySet
  <2> QED
    BY <1>3, <1>4, <2>2, EmptySeq
<1>11. ASSUME c \notin seps, InToken(s, seps, n) PROVE v = [w EXCEPT ![Len(w)] = Append(@, c)]
  <2> DEFINE C == B \ {n}
  <2>1. /\ TokenStarts(t, seps) = A /\ n \in B /\ B = C \cup {n}
        /\ TokenStops(t, seps) = C \cup {n + 1}
    BY <1>2, <1>11
  <2>2. IsFiniteSet(C) /\ Cardinality(C) = K - 1
    BY <1>3, <2>1, FS_RemoveElement
  <2>3. n + 1 \in Nat /\ C \subseteq Nat /\ \A i \in C : i < n /\ i < n + 1
    BY <1>1, <1>2
  <2> HIDE DEF C
  <2>4. /\ Nth(B, Cardinality(C) + 1) = n
        /\ \A k \in 1..Cardinality(C) : Nth(B, k) = Nth(C, k)
    BY <1>1, <2>1, <2>2, <2>3, NthExtended
  <2>5. /\ Nth(C \cup {n + 1}, Cardinality(C) + 1) = n + 1
        /\ \A k \in 1..Cardinality(C) : Nth(C \cup {n + 1}, k) = Nth(C, k)
    BY <2>2, <2>3, NthExtended
  <2>6. /\ Nth(B, K) = n /\ Nth(C \cup {n + 1}, K) = n + 1
        /\ \A k \in 1..K - 1 : Nth(C \cup {n + 1}, k) = Nth(B, k)
    <3>1. Cardinality(C) + 1 = K
      BY <1>3, <2>2
    <3> QED
      BY <2>2, <2>4, <2>5, <3>1
  <2>7. Len(v) = K /\ K >= 1
    BY <1>4, <1>10, <1>11, <2>1 DEF K
  <2>8. ASSUME NEW k \in 1..K, k # K PROVE v[k] = w[k]
    <3>1. k \in 1..K - 1
      BY <1>3, <2>8
    <3>2. v[k] = SubSeq(t, Nth(A, k), Nth(B, k))
      BY <1>5, <2>1, <2>6, <2>7, <3>1
    <3> QED
      BY <1>3, <1>5, <1>6, <3>2
  <2>9. v[K] = Append(w[K], c)
    <3>1. K \in 1..K /\ K \in 1..Len(v)
      BY <1>3, <2>7
    <3>2. v[K] = SubSeq(t, Nth(A, K), n + 1) /\ w[K] = SubSeq(s, Nth(A, K), n)
      BY <1>5, <2>1, <2>6, <3>1
    <3> QED
      BY <1>3, <1>6, <3>1, <3>2
  <2> DEFINE u == [w EXCEPT ![Len(w)] = Append(@, c)]
  <2>10. /\ u \in Seq(Seq(S)) /\ Len(u) = K
         /\ \A k \in 1..K : u[k] = IF k = K THEN Append(w[K], c) ELSE w[k]
    <3>1. K \in 1..Len(w)
      BY <1>3, <1>4, <2>7
    <3>2. w[K] \in Seq(S)
      BY <1>4, <3>1, ElementOfSeq
    <3>3. Append(w[K], c) \in Seq(S)
      BY <3>2, AppendProperties
    <3>4. u = [w EXCEPT ![K] = Append(w[K], c)]
      BY <1>4
    <3> QED
      BY <1>4, <3>1, <3>3, <3>4, ExceptSeq
  <2> HIDE DEF u
  <2>11. \A k \in 1..K : v[k] = u[k]
    BY <2>8, <2>9, <2>10
  <2>12. v = u
    BY <1>4, <2>7, <2>10, <2>11, SeqEqual
  <2> QED
    BY <2>12 DEF u
<1> QED
  BY <1>8, <1>9, <1>10, <1>11 DEF t, n, w, v

\* Appending to the second of two texts appends to both together.
LEMMA ConcatAppend ==
    ASSUME NEW S, NEW a \in Seq(S), NEW b \in Seq(S), NEW c \in S
    PROVE  a \o Append(b, c) = Append(a \o b, c)
<1>1. <<c>> \in Seq(S) /\ a \o b \in Seq(S)
  BY ConcatProperties
<1>2. Append(b, c) = b \o <<c>> /\ Append(a \o b, c) = (a \o b) \o <<c>>
  BY <1>1, AppendIsConcat
<1> QED
  BY <1>1, <1>2, ConcatAssociative

\* Behind the end of a token another text brings its own tokens.
LEMMA TokensConcat ==
    ASSUME NEW S, NEW a \in Seq(S), NEW b \in Seq(S), NEW seps, ~InToken(a, seps, Len(a))
    PROVE  Tokens(a \o b, seps) = Tokens(a, seps) \o Tokens(b, seps)
<1> DEFINE X == {r \in Seq(S) : Tokens(a \o r, seps) = Tokens(a, seps) \o Tokens(r, seps)}
<1>0. Len(a) \in Nat /\ Tokens(a, seps) \in Seq(Seq(S)) /\ Len(Tokens(a, seps)) \in Nat
  BY TokensType, LenProperties
<1>1. <<>> \in X
  <2>1. <<>> \in Seq(S) /\ a \o <<>> = a
    BY ConcatEmptySeq
  <2>2. Tokens(<<>>, seps) = <<>>
    <3>1. TokenStarts(<<>>, seps) = {}
      BY DEF TokenStarts
    <3>2. Tokens(<<>>, seps) \in Seq(Seq(S)) /\ Len(Tokens(<<>>, seps)) = 0
      BY <2>1, <3>1, TokensType, FS_EmptySet
    <3> QED
      BY <3>2, EmptySeq
  <2>3. Tokens(a, seps) \o <<>> = Tokens(a, seps)
    BY <1>0, ConcatEmptySeq
  <2> QED
    BY <2>1, <2>2, <2>3
<1>2. ASSUME NEW r \in Seq(S), NEW e \in S, r \in X PROVE Append(r, e) \in X
  <2> DEFINE u == a \o r
             ta == Tokens(a, seps)
             tr == Tokens(r, seps)
  <2>1. /\ u \in Seq(S) /\ Len(u) = Len(a) + Len(r) /\ Len(r) \in Nat
        /\ \A i \in 1..Len(a) + Len(r) : u[i] = IF i <= Len(a) THEN a[i] ELSE r[i - Len(a)]
    BY ConcatProperties, LenProperties
  <2>2. DOMAIN u = 1..Len(u) /\ DOMAIN r = 1..Len(r) /\ DOMAIN a = 1..Len(a)
    BY <2>1, LenProperties
  <2>3. InToken(u, seps, Len(u)) <=> InToken(r, seps, Len(r))
    <3>1. CASE Len(r) = 0
      <4>1. Len(u) = Len(a) /\ Len(r) \notin DOMAIN r
        BY <1>0, <2>1, <2>2, <3>1
      <4>2. Len(a) \in 1..Len(a) => u[Len(u)] = a[Len(a)]
        BY <1>0, <2>1, <3>1
      <4> QED
        BY <2>2, <4>1, <4>2 DEF InToken
    <3>2. CASE Len(r) # 0
      <4>1. Len(u) \in 1..Len(a) + Len(r) /\ ~(Len(u) <= Len(a)) /\ Len(u) - Len(a) = Len(r)
            /\ Len(r) \in 1..Len(r)
        BY <1>0, <2>1, <3>2
      <4>2. u[Len(u)] = r[Len(r)]
        BY <2>1, <4>1
      <4> QED
        BY <2>1, <2>2, <4>1, <4>2 DEF InToken
    <3> QED
      BY <3>1, <3>2
  <2>4. a \o Append(r, e) = Append(u, e) /\ Append(r, e) \in Seq(S)
    BY ConcatAppend, AppendProperties
  <2>5. Tokens(u, seps) = ta \o tr
    BY <1>2
  <2>6. tr \in Seq(Seq(S)) /\ Len(tr) \in Nat
    BY TokensType, LenProperties
  <2>7. /\ e \in seps => Tokens(Append(r, e), seps) = tr
        /\ e \notin seps /\ ~InToken(r, seps, Len(r)) => Tokens(Append(r, e), seps) = Append(tr, <<e>>)
        /\ e \notin seps /\ InToken(r, seps, Len(r)) =>
             Tokens(Append(r, e), seps) = [tr EXCEPT ![Len(tr)] = Append(@, e)]
        /\ InToken(r, seps, Len(r)) => tr # <<>>
    BY TokensAppend
  <2>8. /\ e \in seps => Tokens(Append(u, e), seps) = ta \o tr
        /\ e \notin seps /\ ~InToken(u, seps, Len(u)) =>
             Tokens(Append(u, e), seps) = Append(ta \o tr, <<e>>)
        /\ e \notin seps /\ InToken(u, seps, Len(u)) =>
             Tokens(Append(u, e), seps) = [ta \o tr EXCEPT ![Len(ta \o tr)] = Append(@, e)]
    <3> DEFINE tu == Tokens(u, seps)
    <3> HIDE DEF u
    <3>2. u \in Seq(S)
      BY <2>1
    <3>1. /\ e \in seps => Tokens(Append(u, e), seps) = tu
          /\ e \notin seps /\ ~InToken(u, seps, Len(u)) => Tokens(Append(u, e), seps) = Append(tu, <<e>>)
          /\ e \notin seps /\ InToken(u, seps, Len(u)) =>
               Tokens(Append(u, e), seps) = [tu EXCEPT ![Len(tu)] = Append(@, e)]
      BY <3>2, TokensAppend
    <3> QED
      BY <2>5, <3>1
  <2> HIDE DEF u, ta, tr
  <2>9. ta \in Seq(Seq(S)) /\ Len(ta) \in Nat
    BY <1>0 DEF ta
  <2>10. Tokens(Append(u, e), seps) = ta \o Tokens(Append(r, e), seps)
    <3>1. CASE e \in seps
      BY <2>7, <2>8, <3>1
    <3>2. CASE e \notin seps /\ ~InToken(r, seps, Len(r))
      <4>1. <<e>> \in Seq(S)
        OBVIOUS
      <4>2. ta \o Append(tr, <<e>>) = Append(ta \o tr, <<e>>)
        BY <2>6, <2>9, <4>1, ConcatAppend
      <4> QED
        BY <2>3, <2>7, <2>8, <3>2, <4>2
    <3>3. CASE e \notin seps /\ InToken(r, seps, Len(r))
      <4> DEFINE k == Len(tr)
                 x == Append(tr[k], e)
                 y == [tr EXCEPT ![k] = x]
                 z == [ta \o tr EXCEPT ![Len(ta) + k] = x]
      <4>1. k \in Nat /\ k \in 1..k
        BY <2>6, <2>7, <3>3, EmptySeq
      <4>2. tr[k] \in Seq(S) /\ x \in Seq(S)
        BY <2>6, <4>1, ElementOfSeq, AppendProperties
      <4>3. /\ ta \o tr \in Seq(Seq(S)) /\ Len(ta \o tr) = Len(ta) + k
            /\ \A i \in 1..Len(ta) + k : (ta \o tr)[i] = IF i <= Len(ta) THEN ta[i] ELSE tr[i - Len(ta)]
        BY <2>6, <2>9, ConcatProperties
      <4>4. (ta \o tr)[Len(ta) + k] = tr[k] /\ Len(ta) + k \in 1..Len(ta) + k
        BY <2>9, <4>1, <4>3
      <4>5. Tokens(Append(u, e), seps) = z
        BY <2>3, <2>8, <3>3, <4>3, <4>4
      <4>6. Tokens(Append(r, e), seps) = y
        BY <2>7, <3>3
      <4> HIDE DEF x
      <4>7. /\ y \in Seq(Seq(S)) /\ Len(y) = k
            /\ \A j \in 1..k : y[j] = IF j = k THEN x ELSE tr[j]
        BY <2>6, <4>1, <4>2, ExceptSeq
      <4>13. Len(ta) + k \in 1..Len(ta \o tr)
        BY <4>3, <4>4
      <4>8. /\ z \in Seq(Seq(S)) /\ Len(z) = Len(ta) + k
            /\ \A j \in 1..Len(ta) + k : z[j] = IF j = Len(ta) + k THEN x ELSE (ta \o tr)[j]
        <5> DEFINE q == ta \o tr
        <5> HIDE DEF k, q
        <5>1. q \in Seq(Seq(S)) /\ Len(q) = Len(ta) + k /\ Len(ta) + k \in 1..Len(q)
          BY <4>3, <4>13 DEF q
        <5>2. LET p == [q EXCEPT ![Len(ta) + k] = x]
              IN p \in Seq(Seq(S)) /\ Len(p) = Len(q)
                 /\ \A j \in 1..Len(q) : p[j] = IF j = Len(ta) + k THEN x ELSE q[j]
          BY <4>2, <5>1, ExceptSeq
        <5> QED
          BY <5>1, <5>2 DEF q
      <4> HIDE DEF k, y, z
      <4>9. /\ ta \o y \in Seq(Seq(S)) /\ Len(ta \o y) = Len(ta) + k
            /\ \A i \in 1..Len(ta) + k : (ta \o y)[i] = IF i <= Len(ta) THEN ta[i] ELSE y[i - Len(ta)]
        BY <2>9, <4>7, ConcatProperties
      <4>10. ASSUME NEW i \in 1..Len(ta) + k PROVE z[i] = (ta \o y)[i]
        <5>1. CASE i <= Len(ta)
          <6>1. i # Len(ta) + k
            BY <2>9, <4>1, <5>1
          <6>2. z[i] = (ta \o tr)[i]
            BY <4>8, <6>1
          <6> QED
            BY <4>3, <4>9, <5>1, <6>2
        <5>2. CASE ~(i <= Len(ta))
          <6>1. i - Len(ta) \in 1..k /\ (i = Len(ta) + k <=> i - Len(ta) = k)
            BY <2>9, <4>1, <5>2
          <6> QED
            BY <4>3, <4>7, <4>8, <4>9, <5>2, <6>1
        <5> QED
          BY <5>1, <5>2
      <4>11. z = ta \o y
        BY <4>8, <4>9, <4>10, SeqEqual
      <4> QED
        BY <4>5, <4>6, <4>11
    <3> QED
      BY <3>1, <3>2, <3>3
  <2> QED
    BY <2>4, <2>10 DEF ta
<1>3. b \in X
  <2> HIDE DEF X
  <2> QED
    BY <1>1, <1>2, SequenceInduction
<1> QED
  BY <1>3

\* A text without separators is one token, and the empty text none.
LEMMA TokensAlone ==
    ASSUME NEW S, NEW b \in Seq(S), NEW seps, \A i \in 1..Len(b) : b[i] \notin seps
    PROVE  Tokens(b, seps) = IF b = <<>> THEN <<>> ELSE <<b>>
<1> DEFINE Plain(r) == \A i \in 1..Len(r) : r[i] \notin seps
           One(r) == IF r = <<>> THEN <<>> ELSE <<r>>
           X == {r \in Seq(S) : Plain(r) => Tokens(r, seps) = One(r)}
<1>1. <<>> \in X
  <2>1. TokenStarts(<<>>, seps) = {} /\ <<>> \in Seq(S)
    BY DEF TokenStarts
  <2>2. Tokens(<<>>, seps) \in Seq(Seq(S)) /\ Len(Tokens(<<>>, seps)) = 0
    BY <2>1, TokensType, FS_EmptySet
  <2>3. Tokens(<<>>, seps) = <<>>
    BY <2>2, EmptySeq
  <2> QED
    BY <2>1, <2>3
<1>2. ASSUME NEW r \in Seq(S), NEW e \in S, r \in X PROVE Append(r, e) \in X
  <2> DEFINE u == Append(r, e)
  <2>1. /\ u \in Seq(S) /\ u # <<>> /\ Len(u) = Len(r) + 1 /\ u[Len(r) + 1] = e
        /\ Len(r) \in Nat /\ \A i \in 1..Len(r) : u[i] = r[i]
    BY AppendProperties, LenProperties
  <2> HIDE DEF u
  <2> SUFFICES ASSUME Plain(u) PROVE Tokens(u, seps) = <<u>>
      BY <2>1 DEF u
  <2>2. e \notin seps /\ Plain(r)
    BY <2>1
  <2>3. Tokens(r, seps) = One(r)
    BY <1>2, <2>2
  <2>4. CASE r = <<>>
    <3>1. ~InToken(r, seps, Len(r))
      BY <2>4 DEF InToken
    <3>4. Tokens(u, seps) = Append(Tokens(r, seps), <<e>>)
      BY <2>2, <3>1, TokensAppend DEF u
    <3>2. Tokens(u, seps) = Append(<<>>, <<e>>)
      BY <2>3, <2>4, <3>4
    <3>3. u = <<e>>
      BY <2>4 DEF u
    <3> QED
      BY <3>2, <3>3
  <2>5. CASE r # <<>>
    <3>1. Len(r) \in 1..Len(r) /\ DOMAIN r = 1..Len(r)
      BY <2>1, <2>5, EmptySeq, LenProperties
    <3>2. InToken(r, seps, Len(r))
      BY <2>2, <3>1 DEF InToken
    <3>3. Tokens(u, seps) = [<<r>> EXCEPT ![Len(<<r>>)] = Append(@, e)]
      BY <2>2, <2>3, <2>5, <3>2, TokensAppend DEF u
    <3>4. [<<r>> EXCEPT ![Len(<<r>>)] = Append(@, e)] = <<Append(r, e)>>
      OBVIOUS
    <3> QED
      BY <3>3, <3>4 DEF u
  <2> QED
    BY <2>4, <2>5
<1>3. b \in X
  <2> HIDE DEF X
  <2> QED
    BY <1>1, <1>2, SequenceInduction
<1> QED
  BY <1>3

\* A text has no more tokens than a longer one.
LEMMA TokensGrow ==
    ASSUME NEW S, NEW a \in Seq(S), NEW b \in Seq(S), NEW seps
    PROVE  Len(Tokens(a, seps)) <= Len(Tokens(a \o b, seps))
<1> DEFINE L(r) == Len(Tokens(a \o r, seps))
           X == {r \in Seq(S) : Len(Tokens(a, seps)) <= L(r)}
<1>0. Len(Tokens(a, seps)) \in Nat
  BY TokensType, LenProperties
<1>1. <<>> \in X
  <2>1. a \o <<>> = a /\ <<>> \in Seq(S)
    BY ConcatEmptySeq
  <2> QED
    BY <1>0, <2>1
<1>2. ASSUME NEW r \in Seq(S), NEW e \in S, r \in X PROVE Append(r, e) \in X
  <2> DEFINE u == a \o r
             w == Tokens(u, seps)
             v == Tokens(Append(u, e), seps)
  <2>1. u \in Seq(S) /\ Append(r, e) \in Seq(S) /\ a \o Append(r, e) = Append(u, e)
    BY ConcatProperties, AppendProperties, ConcatAppend
  <2> HIDE DEF u
  <2>2. w \in Seq(Seq(S)) /\ Len(w) \in Nat
    BY <2>1, TokensType, LenProperties
  <2>3. v = w \/ v = Append(w, <<e>>) \/ (w # <<>> /\ v = [w EXCEPT ![Len(w)] = Append(@, e)])
    BY <2>1, TokensAppend
  <2> HIDE DEF v, w
  <2>4. Len(v) = Len(w) \/ Len(v) = Len(w) + 1
    <3>1. <<e>> \in Seq(S)
      OBVIOUS
    <3>2. Len(Append(w, <<e>>)) = Len(w) + 1
      BY <2>2, <3>1, AppendProperties
    <3>3. ASSUME w # <<>> PROVE Len([w EXCEPT ![Len(w)] = Append(@, e)]) = Len(w)
      <4>1. Len(w) \in 1..Len(w)
        BY <2>2, <3>3, EmptySeq
      <4>2. w[Len(w)] \in Seq(S)
        BY <2>2, <4>1, ElementOfSeq
      <4>3. Append(w[Len(w)], e) \in Seq(S)
        BY <4>2, AppendProperties
      <4> DEFINE x == Append(w[Len(w)], e)
                 k == Len(w)
      <4> HIDE DEF x, k
      <4>4. Len([w EXCEPT ![k] = x]) = k
        BY <2>2, <4>1, <4>3, ExceptSeq DEF x, k
      <4> QED
        BY <4>4 DEF x, k
    <3> QED
      BY <2>3, <3>2, <3>3
  <2>5. Len(Tokens(a, seps)) <= Len(w)
    BY <1>2 DEF w, u
  <2>6. Len(Tokens(a, seps)) <= Len(v)
    BY <1>0, <2>2, <2>4, <2>5
  <2> QED
    BY <2>1, <2>6 DEF v
<1>3. b \in X
  <2> HIDE DEF X
  <2> QED
    BY <1>1, <1>2, SequenceInduction
<1> QED
  BY <1>3

\* The text before the first character of a set.
LEMMA BeforeIs ==
    ASSUME NEW S, NEW s \in Seq(S), NEW ends, NEW m \in 1..Len(s) + 1,
           m <= Len(s) => s[m] \in ends,
           \A i \in 1..m - 1 : s[i] \notin ends
    PROVE  Before(s, ends) = SubSeq(s, 1, m - 1)
<1> DEFINE M == {i \in DOMAIN s : s[i] \in ends} \cup {Len(s) + 1}
<1>1. Len(s) \in Nat /\ DOMAIN s = 1..Len(s)
  BY LenProperties
<1>2. M \subseteq Int
  BY <1>1
<1>3. m \in M
  BY <1>1
<1>4. \A i \in M : m <= i
  <2> SUFFICES ASSUME NEW i \in DOMAIN s, s[i] \in ends PROVE m <= i
      BY <1>1
  <2>1. i \notin 1..m - 1
    OBVIOUS
  <2> QED
    BY <1>1, <2>1
<1> HIDE DEF M
<1>5. Min(M) = m
  BY <1>2, <1>3, <1>4, MinIs
<1> QED
  BY <1>5 DEF Before, M
\* The part of a text before the first character of a set, which is at m or missing.
LEMMA BeforeStops ==
    ASSUME NEW S, NEW s \in Seq(S), NEW ends
    PROVE  \E m \in 1..Len(s) + 1 :
             /\ Before(s, ends) = SubSeq(s, 1, m - 1)
             /\ m <= Len(s) => s[m] \in ends
             /\ \A i \in 1..m - 1 : s[i] \notin ends
<1> DEFINE L == Len(s)
           M == {i \in 1..L + 1 : i <= L => s[i] \in ends}
<1>1. L \in Nat
  BY LenProperties
<1>2. L + 1 \in M /\ M \subseteq Nat
  BY <1>1
<1>3. PICK m \in M : \A i \in M : m <= i
  <2> HIDE DEF M
  <2> QED
    BY <1>2, LeastElement
<1>4. m \in 1..L + 1 /\ (m <= L => s[m] \in ends)
  BY <1>3
<1>5. ASSUME NEW i \in 1..m - 1 PROVE s[i] \notin ends
  <2>1. i \in 1..L + 1 /\ i <= L /\ ~(m <= i)
    BY <1>1, <1>4
  <2>2. i \notin M
    BY <1>3, <2>1
  <2> QED
    BY <2>1, <2>2
<1>6. Before(s, ends) = SubSeq(s, 1, m - 1)
  BY <1>4, <1>5, BeforeIs
<1> QED
  BY <1>4, <1>5, <1>6

-----------------------------------------------------------------------------
(* What parse_cmd reads. *)

ScanRecords(S) ==
    [args : Seq(Seq(S)), inside : BOOLEAN, ended : BOOLEAN, too_many : BOOLEAN]

Prefix(cmd, n) == SubSeq(cmd, 1, n)
NoEnd(cmd, n) == \A i \in 1..n : cmd[i] \notin Terminals

\* A scan that goes on has the words of what it passed; one that ended has those
\* before the first terminal, or passed more than arg_max.
Reading(cmd, arg_max, n, scan) ==
    /\ NoEnd(cmd, n) /\ scan.args = Tokens(Prefix(cmd, n), Separators)
    /\ scan.inside <=> InToken(Prefix(cmd, n), Separators, n)
    /\ Len(scan.args) <= arg_max
Finished(cmd, arg_max, n, scan) ==
    \E m \in 1..n : /\ cmd[m] \in Terminals /\ NoEnd(cmd, m - 1)
                    /\ scan.args = Tokens(Prefix(cmd, m - 1), Separators)
                    /\ Len(scan.args) <= arg_max
Overfull(cmd, arg_max, n) ==
    \E m \in 1..n : NoEnd(cmd, m) /\ Len(Tokens(Prefix(cmd, m), Separators)) > arg_max

ScanInv(S, cmd, arg_max, n, scan) ==
    /\ scan \in ScanRecords(S)
    /\ scan.too_many => scan.ended /\ Overfull(cmd, arg_max, n)
    /\ ~scan.ended => Reading(cmd, arg_max, n, scan)
    /\ scan.ended /\ ~scan.too_many => Finished(cmd, arg_max, n, scan)

\* One character more.
LEMMA PrefixStep ==
    ASSUME NEW S, NEW cmd \in Seq(S), NEW n \in Nat, n < Len(cmd)
    PROVE  /\ cmd[n + 1] \in S
           /\ Prefix(cmd, n) \in Seq(S) /\ Len(Prefix(cmd, n)) = n
           /\ Prefix(cmd, n + 1) = Append(Prefix(cmd, n), cmd[n + 1])
           /\ InToken(Prefix(cmd, n + 1), Separators, n + 1) <=> cmd[n + 1] \notin Separators
<1>1. Len(cmd) \in Nat /\ \A i \in 1..Len(cmd) : cmd[i] \in S
  BY LenProperties, ElementOfSeq
<1>2. n + 1 \in 1..Len(cmd) /\ 1 \in 1..Len(cmd) /\ n + 1 \in 1..Len(cmd) /\ (n + 1) - 1 = n
  BY <1>1
<1>3. cmd[n + 1] \in S
  BY <1>1, <1>2
<1>4. Prefix(cmd, n) \in Seq(S) /\ Len(Prefix(cmd, n)) = n
  <2>1. \A i \in 1..n : cmd[i] \in S
    BY <1>1
  <2>2. SubSeq(cmd, 1, n) \in Seq(S) /\ Len(SubSeq(cmd, 1, n)) = IF 1 <= n THEN n - 1 + 1 ELSE 0
    BY <2>1, SubSeqProperties
  <2> QED
    BY <2>2 DEF Prefix
<1>5. Prefix(cmd, n + 1) = Append(Prefix(cmd, n), cmd[n + 1])
  <2>1. SubSeq(cmd, 1, n + 1) = SubSeq(cmd, 1, (n + 1) - 1) \o <<cmd[n + 1]>>
    BY <1>2, SubSeqRecursiveSecond
  <2>2. Append(Prefix(cmd, n), cmd[n + 1]) = Prefix(cmd, n) \o <<cmd[n + 1]>>
    BY <1>3, <1>4, AppendIsConcat
  <2> QED
    BY <1>2, <2>1, <2>2 DEF Prefix
<1>6. Prefix(cmd, n + 1)[n + 1] = cmd[n + 1] /\ n + 1 \in DOMAIN Prefix(cmd, n + 1)
  <2> DEFINE p == Prefix(cmd, n)
             c == cmd[n + 1]
  <2> HIDE DEF p, c
  <2>1. p \in Seq(S) /\ Len(p) = n /\ c \in S
    BY <1>3, <1>4 DEF p, c
  <2>2. Append(p, c) \in Seq(S) /\ Len(Append(p, c)) = n + 1 /\ Append(p, c)[n + 1] = c
    BY <2>1, AppendProperties
  <2>3. n + 1 \in DOMAIN Append(p, c)
    BY <2>2, LenProperties
  <2> QED
    BY <1>5, <2>2, <2>3 DEF p, c
<1> QED
  BY <1>3, <1>4, <1>5, <1>6 DEF InToken
\* A step of the scan keeps the invariant.
LEMMA ScanStepKeeps ==
    ASSUME NEW S, NEW cmd \in Seq(S), NEW arg_max \in Nat \ {0}, NEW n \in Nat, n < Len(cmd),
           NEW scan, ScanInv(S, cmd, arg_max, n, scan)
    PROVE  ScanInv(S, cmd, arg_max, n + 1, ScanStep(scan, cmd[n + 1], arg_max))
<1> DEFINE c == cmd[n + 1]
           next == ScanStep(scan, c, arg_max)
           p == Prefix(cmd, n)
           q == Prefix(cmd, n + 1)
           w == Tokens(p, Separators)
           v == Tokens(q, Separators)
<1>1. /\ c \in S /\ p \in Seq(S) /\ Len(p) = n /\ q = Append(p, c)
      /\ InToken(q, Separators, n + 1) <=> c \notin Separators
  BY PrefixStep
<1>2. /\ c \in Separators => v = w
      /\ c \notin Separators /\ ~InToken(p, Separators, n) => v = Append(w, <<c>>)
      /\ c \notin Separators /\ InToken(p, Separators, n) => v = [w EXCEPT ![Len(w)] = Append(@, c)]
      /\ InToken(p, Separators, n) => w # <<>>
  <2> HIDE DEF p, q, c
  <2> QED
    BY <1>1, TokensAppend
<1>3. /\ w \in Seq(Seq(S)) /\ Len(w) \in Nat /\ v \in Seq(Seq(S)) /\ Len(v) \in Nat
  <2>1. q \in Seq(S)
    <3> HIDE DEF p, q, c
    <3> QED
      BY <1>1, AppendProperties
  <2> HIDE DEF p, q, c
  <2> QED
    BY <1>1, <2>1, TokensType, LenProperties
<1>4. scan \in ScanRecords(S)
  BY DEF ScanInv
<1>5. NoEnd(cmd, n) /\ c \notin Terminals => NoEnd(cmd, n + 1)
  BY DEF NoEnd
<1>6. CASE scan.ended
  <2>1. next = scan
    BY <1>6 DEF ScanStep
  <2>2. Overfull(cmd, arg_max, n) => Overfull(cmd, arg_max, n + 1)
    BY DEF Overfull
  <2>3. Finished(cmd, arg_max, n, scan) => Finished(cmd, arg_max, n + 1, scan)
    BY DEF Finished
  <2> HIDE DEF next
  <2> QED
    BY <1>6, <2>1, <2>2, <2>3 DEF ScanInv, c, next
<1>7. CASE ~scan.ended
  <2>1. /\ NoEnd(cmd, n) /\ scan.args = w /\ (scan.inside <=> InToken(p, Separators, n))
        /\ Len(w) <= arg_max /\ ~scan.too_many
    BY <1>4, <1>7 DEF ScanInv, Reading, ScanRecords
  <2>2. scan.args \in Seq(Seq(S)) /\ scan.inside \in BOOLEAN
    BY <1>4 DEF ScanRecords
  <2> HIDE DEF c, p, q, w, v
  <2>3. CASE c \in Terminals
    <3>1. next = [scan EXCEPT !.ended = TRUE]
      BY <1>7, <2>3 DEF ScanStep
    <3>2. /\ next \in ScanRecords(S) /\ next.ended /\ next.args = w /\ ~next.too_many
      BY <1>4, <2>1, <3>1 DEF ScanRecords
    <3> HIDE DEF next
    <3>3. Finished(cmd, arg_max, n + 1, next)
      <4>1. n + 1 \in 1..n + 1 /\ (n + 1) - 1 = n
        OBVIOUS
      <4>2. /\ cmd[n + 1] \in Terminals /\ NoEnd(cmd, (n + 1) - 1)
            /\ next.args = Tokens(Prefix(cmd, (n + 1) - 1), Separators)
            /\ Len(next.args) <= arg_max
        BY <2>1, <2>3, <3>2, <4>1 DEF c, w, p
      <4> QED
        BY <4>1, <4>2 DEF Finished
    <3> QED
      BY <3>2, <3>3 DEF ScanInv, next, c
  <2>4. CASE c \notin Terminals /\ c \in Separators
    <3>1. next = [scan EXCEPT !.inside = FALSE]
      BY <1>7, <2>4 DEF ScanStep
    <3>2. /\ next \in ScanRecords(S) /\ ~next.ended /\ next.args = v /\ ~next.too_many
          /\ ~next.inside
      BY <1>2, <1>4, <1>7, <2>1, <2>4, <3>1 DEF ScanRecords
    <3>3. Len(v) <= arg_max
      BY <1>2, <2>1, <2>4
    <3> HIDE DEF next
    <3>4. Reading(cmd, arg_max, n + 1, next)
      BY <1>1, <1>5, <2>1, <2>4, <3>2, <3>3 DEF Reading, v, q
    <3> QED
      BY <3>2, <3>4 DEF ScanInv, next, c
  <2>5. CASE c \notin Terminals /\ c \notin Separators /\ scan.inside
    <3> DEFINE x == Append(w[Len(w)], c)
               u == [w EXCEPT ![Len(w)] = x]
    <3>1. next = [scan EXCEPT !.args = u]
      <4>1. next = [scan EXCEPT !.args[Len(scan.args)] = Append(@, c)]
        BY <1>7, <2>5 DEF ScanStep
      <4>2. next = [scan EXCEPT !.args = [scan.args EXCEPT ![Len(scan.args)] = Append(scan.args[Len(scan.args)], c)]]
        BY <1>4, <4>1 DEF ScanRecords
      <4> QED
        BY <2>1, <4>2
    <3>2. v = u
      BY <1>2, <2>1, <2>5
    <3>3. Len(v) = Len(w)
      <4>1. Len(w) \in 1..Len(w)
        BY <1>2, <1>3, <2>1, <2>5, EmptySeq
      <4>2. w[Len(w)] \in Seq(S)
        BY <1>3, <4>1, ElementOfSeq
      <4>3. x \in Seq(S)
        BY <1>1, <4>2, AppendProperties
      <4> DEFINE k == Len(w)
      <4> HIDE DEF x, k
      <4>4. Len([w EXCEPT ![k] = x]) = k
        BY <1>3, <4>1, <4>3, ExceptSeq DEF k
      <4> QED
        BY <3>2, <4>4 DEF k
    <3> HIDE DEF u, next
    <3>4. /\ next \in ScanRecords(S) /\ ~next.ended /\ next.args = v /\ ~next.too_many
          /\ next.inside
      BY <1>3, <1>4, <1>7, <2>1, <2>5, <3>1, <3>2 DEF ScanRecords
    <3>5. Reading(cmd, arg_max, n + 1, next)
      BY <1>1, <1>5, <2>1, <2>5, <3>3, <3>4 DEF Reading, v, q
    <3> QED
      BY <3>4, <3>5 DEF ScanInv, next, c
  <2>6. CASE c \notin Terminals /\ c \notin Separators /\ ~scan.inside
    <3>1. v = Append(w, <<c>>) /\ Len(v) = Len(w) + 1
      <4>1. <<c>> \in Seq(S)
        BY <1>1
      <4> QED
        BY <1>2, <1>3, <2>1, <2>6, <4>1, AppendProperties
    <3>2. CASE Len(scan.args) = arg_max
      <4>1. next = [scan EXCEPT !.ended = TRUE, !.too_many = TRUE]
        BY <1>7, <2>6, <3>2 DEF ScanStep
      <4>2. next \in ScanRecords(S) /\ next.ended /\ next.too_many
        BY <1>4, <4>1 DEF ScanRecords
      <4>3. Len(v) > arg_max
        BY <1>3, <2>1, <3>1, <3>2
      <4>4. Overfull(cmd, arg_max, n + 1)
        <5>1. n + 1 \in 1..n + 1
          OBVIOUS
        <5>2. NoEnd(cmd, n + 1) /\ Len(Tokens(Prefix(cmd, n + 1), Separators)) > arg_max
          BY <1>5, <2>1, <2>6, <4>3 DEF v, q
        <5> QED
          BY <5>1, <5>2 DEF Overfull
      <4> HIDE DEF next
      <4> QED
        BY <4>2, <4>4 DEF ScanInv, next, c
    <3>3. CASE Len(scan.args) # arg_max
      <4>1. next = [scan EXCEPT !.args = Append(@, <<c>>), !.inside = TRUE]
        BY <1>7, <2>6, <3>3 DEF ScanStep
      <4>2. next.args = v /\ next.inside /\ next.ended = scan.ended /\ next.too_many = scan.too_many
        BY <1>4, <2>1, <3>1, <4>1 DEF ScanRecords
      <4>3. next \in ScanRecords(S)
        BY <1>3, <1>4, <2>1, <3>1, <4>1 DEF ScanRecords
      <4>4. Len(v) <= arg_max
        BY <1>3, <2>1, <3>1, <3>3
      <4> HIDE DEF next
      <4>5. Reading(cmd, arg_max, n + 1, next)
        BY <1>1, <1>5, <2>1, <2>6, <4>2, <4>4 DEF Reading, v, q
      <4> QED
        BY <1>7, <2>1, <4>2, <4>3, <4>5 DEF ScanInv, next, c
    <3> QED
      BY <3>2, <3>3
  <2> QED
    BY <2>2, <2>3, <2>4, <2>5, <2>6
<1> QED
  BY <1>6, <1>7
\* The scan is defined at every position: each is the step of the one before.
LEMMA ScanDefined ==
    ASSUME NEW cmd, NEW arg_max, NEW N \in Nat
    PROVE  LET Scan[n \in 0..N] ==
                 IF n = 0 THEN ScanStart ELSE ScanStep(Scan[n - 1], cmd[n], arg_max)
           IN Scan = [n \in 0..N |-> IF n = 0 THEN ScanStart
                                              ELSE ScanStep(Scan[n - 1], cmd[n], arg_max)]
<1> DEFINE Is(g, M) == g = [n \in 0..M |-> IF n = 0 THEN ScanStart
                                                   ELSE ScanStep(g[n - 1], cmd[n], arg_max)]
           X == {M \in Nat : \E g : Is(g, M)}
<1>1. 0 \in X
  <2> DEFINE g == [n \in 0..0 |-> ScanStart]
  <2>1. DOMAIN g = 0..0 /\ \A n \in 0..0 : n = 0
    OBVIOUS
  <2>2. Is(g, 0)
    BY <2>1
  <2> QED
    BY <2>2
<1>2. ASSUME NEW M \in Nat, M \in X PROVE M + 1 \in X
  <2>1. PICK g : Is(g, M)
    BY <1>2
  <2> DEFINE last == ScanStep(g[M], cmd[M + 1], arg_max)
             h == [n \in 0..M + 1 |-> IF n = M + 1 THEN last ELSE g[n]]
  <2>2. \A n \in 0..M : g[n] = IF n = 0 THEN ScanStart ELSE ScanStep(g[n - 1], cmd[n], arg_max)
    <3> DEFINE f(n) == IF n = 0 THEN ScanStart ELSE ScanStep(g[n - 1], cmd[n], arg_max)
    <3>1. g = [n \in 0..M |-> f(n)]
      BY <2>1
    <3> HIDE DEF f
    <3>2. \A n \in 0..M : g[n] = f(n)
      BY <3>1
    <3> QED
      BY <3>2 DEF f
  <2>3. ASSUME NEW n \in 0..M + 1
        PROVE  h[n] = IF n = 0 THEN ScanStart ELSE ScanStep(h[n - 1], cmd[n], arg_max)
    <3>1. CASE n = M + 1
      <4>1. n - 1 = M /\ M \in 0..M + 1 /\ n # 0 /\ M # M + 1
        BY <3>1
      <4>2. h[n] = last /\ h[n - 1] = g[M]
        BY <3>1, <4>1
      <4> QED
        BY <3>1, <4>1, <4>2
    <3>2. CASE n # M + 1
      <4>1. n \in 0..M /\ (n # 0 => n - 1 \in 0..M + 1 /\ n - 1 # M + 1)
        BY <3>2
      <4>2. h[n] = g[n] /\ (n # 0 => h[n - 1] = g[n - 1])
        BY <3>2, <4>1
      <4> QED
        BY <2>2, <4>1, <4>2
    <3> QED
      BY <3>1, <3>2
  <2>4. DOMAIN h = 0..M + 1 /\ h = [n \in 0..M + 1 |-> h[n]]
    OBVIOUS
  <2> HIDE DEF h
  <2>5. Is(h, M + 1)
    BY <2>3, <2>4
  <2> QED
    BY <2>5
<1>3. N \in X
  <2> HIDE DEF X
  <2> QED
    BY <1>1, <1>2, SetInduction
<1>4. \E g : Is(g, N)
  BY <1>3
<1>5. Is(CHOOSE g : Is(g, N), N)
  BY <1>4
<1> QED
  BY <1>5

\* The scan of the whole command satisfies the invariant.
LEMMA ScannedInv ==
    ASSUME NEW S, NEW cmd \in Seq(S), NEW arg_max \in Nat \ {0}
    PROVE  ScanInv(S, cmd, arg_max, Len(cmd), Scanned(cmd, arg_max))
<1> DEFINE N == Len(cmd)
           Scan[n \in 0..N] == IF n = 0 THEN ScanStart ELSE ScanStep(Scan[n - 1], cmd[n], arg_max)
           X == {n \in Nat : n <= N => ScanInv(S, cmd, arg_max, n, Scan[n])}
<1>1. N \in Nat
  BY LenProperties
<1>2. Scan = [n \in 0..N |-> IF n = 0 THEN ScanStart ELSE ScanStep(Scan[n - 1], cmd[n], arg_max)]
  BY <1>1, ScanDefined
<1>3. Scanned(cmd, arg_max) = Scan[N]
  BY DEF Scanned
<1> HIDE DEF Scan
<1>4. /\ Scan[0] = ScanStart
      /\ \A n \in 0..N - 1 : Scan[n + 1] = ScanStep(Scan[n], cmd[n + 1], arg_max)
  <2> DEFINE f(n) == IF n = 0 THEN ScanStart ELSE ScanStep(Scan[n - 1], cmd[n], arg_max)
  <2> HIDE DEF f, N
  <2>1. \A n \in 0..N : Scan[n] = f(n)
    <3>1. Scan = [n \in 0..N |-> f(n)]
      BY <1>2 DEF f
    <3> QED
      BY <3>1
  <2>2. Scan[0] = f(0)
    BY <1>1, <2>1
  <2>3. ASSUME NEW n \in 0..N - 1 PROVE Scan[n + 1] = ScanStep(Scan[n], cmd[n + 1], arg_max)
    <3>1. n + 1 \in 0..N /\ n + 1 # 0 /\ (n + 1) - 1 = n
      BY <1>1
    <3>2. Scan[n + 1] = f(n + 1)
      BY <2>1, <3>1
    <3> QED
      BY <3>1, <3>2 DEF f
  <2> QED
    BY <2>2, <2>3 DEF f
<1>5. 0 \in X
  <2>1. Prefix(cmd, 0) = <<>>
    BY SubSeqEmpty DEF Prefix
  <2>2. <<>> \in Seq(S) /\ Tokens(<<>>, Separators) = <<>>
    <3>1. <<>> \in Seq(S) /\ Len(<<>>) = 0
      OBVIOUS
    <3>2. \A i \in 1..Len(<<>>) : <<>>[i] \notin Separators
      OBVIOUS
    <3> QED
      BY <3>1, <3>2, TokensAlone
  <2>3. ~InToken(<<>>, Separators, 0)
    BY DEF InToken
  <2>4. ScanStart \in ScanRecords(S)
    BY DEF ScanStart, ScanRecords
  <2>5. ~ScanStart.ended /\ ~ScanStart.too_many /\ ~ScanStart.inside /\ ScanStart.args = <<>>
    BY DEF ScanStart
  <2>6. NoEnd(cmd, 0)
    BY DEF NoEnd
  <2>7. Reading(cmd, arg_max, 0, ScanStart)
    BY <2>1, <2>2, <2>3, <2>5, <2>6 DEF Reading
  <2> QED
    BY <1>4, <2>4, <2>5, <2>7 DEF ScanInv
<1>6. ASSUME NEW n \in Nat, n \in X PROVE n + 1 \in X
  <2> SUFFICES ASSUME n + 1 <= N PROVE ScanInv(S, cmd, arg_max, n + 1, Scan[n + 1])
      OBVIOUS
  <2>1. n < N /\ n <= N /\ n \in 0..N - 1
    BY <1>1
  <2>2. ScanInv(S, cmd, arg_max, n, Scan[n])
    BY <1>6, <2>1
  <2>3. ScanInv(S, cmd, arg_max, n + 1, ScanStep(Scan[n], cmd[n + 1], arg_max))
    BY <2>1, <2>2, ScanStepKeeps
  <2> QED
    BY <1>4, <2>1, <2>3
<1>7. N \in X
  <2> HIDE DEF X
  <2> QED
    BY <1>1, <1>5, <1>6, SetInduction
<1> QED
  BY <1>1, <1>3, <1>7

\* parse_cmd returns the words of the first line when there are at most arg_max,
\* and PARSE_CMD_TOO_MANY_ARGS exactly when there are more.
THEOREM ParseCommand ==
    ASSUME NEW S, NEW cmd \in Seq(S), NEW arg_max \in Nat \ {0}
    PROVE  LET words == Tokens(Before(cmd, Terminals), Separators)
               parsed == parse_cmd(cmd, arg_max)
           IN /\ parsed.too_many \in BOOLEAN
              /\ parsed.too_many <=> Len(words) > arg_max
              /\ ~parsed.too_many => parsed.args = words
              /\ words \in Seq(Seq(S))
<1> DEFINE N == Len(cmd)
           scan == Scanned(cmd, arg_max)
           Words(m) == Tokens(Prefix(cmd, m), Separators)
<1>1. N \in Nat /\ \A i \in 1..N : cmd[i] \in S
  BY LenProperties, ElementOfSeq
<1>2. ScanInv(S, cmd, arg_max, N, scan)
  BY ScannedInv
<1>3. parse_cmd(cmd, arg_max).too_many = scan.too_many /\ parse_cmd(cmd, arg_max).args = scan.args
  BY DEF parse_cmd
<1>4. ASSUME NEW m \in 1..N + 1, NoEnd(cmd, m - 1), m <= N => cmd[m] \in Terminals
      PROVE  Before(cmd, Terminals) = Prefix(cmd, m - 1)
  BY <1>4, BeforeIs DEF Prefix, NoEnd
<1>5. PICK m \in 1..N + 1 : NoEnd(cmd, m - 1) /\ (m <= N => cmd[m] \in Terminals)
  <2> DEFINE M == {i \in 1..N + 1 : i <= N => cmd[i] \in Terminals}
  <2>1. N + 1 \in M /\ M \subseteq Nat
    BY <1>1
  <2>2. PICK m \in M : \A i \in M : m <= i
    <3> HIDE DEF M
    <3> QED
      BY <2>1, LeastElement
  <2>3. m \in 1..N + 1 /\ (m <= N => cmd[m] \in Terminals)
    BY <2>2
  <2>4. NoEnd(cmd, m - 1)
    <3> SUFFICES ASSUME NEW i \in 1..m - 1, cmd[i] \in Terminals PROVE FALSE
        BY DEF NoEnd
    <3>1. i \in M /\ ~(m <= i)
      BY <1>1, <2>3
    <3> QED
      BY <2>2, <3>1
  <2> QED
    BY <2>3, <2>4
<1>6. Before(cmd, Terminals) = Prefix(cmd, m - 1)
  BY <1>4, <1>5
<1>7. ASSUME NEW k \in 0..N PROVE Prefix(cmd, k) \in Seq(S) /\ Words(k) \in Seq(Seq(S)) /\ Len(Words(k)) \in Nat
  <2>1. \A i \in 1..k : cmd[i] \in S
    BY <1>1
  <2>2. SubSeq(cmd, 1, k) \in Seq(S)
    BY <2>1, SubSeqProperties
  <2>3. Prefix(cmd, k) \in Seq(S)
    BY <2>2 DEF Prefix
  <2> QED
    BY <2>3, TokensType, LenProperties
<1>8. Words(m - 1) \in Seq(Seq(S)) /\ Len(Words(m - 1)) \in Nat /\ m - 1 \in 0..N
  <2>1. m - 1 \in 0..N
    BY <1>1
  <2> QED
    BY <1>7, <2>1
<1>9. scan \in ScanRecords(S) /\ scan.too_many \in BOOLEAN
  BY <1>2 DEF ScanInv, ScanRecords
<1> HIDE DEF scan
<1>10. CASE ~scan.ended
  <2>1. Reading(cmd, arg_max, N, scan) /\ ~scan.too_many
    BY <1>2, <1>9, <1>10 DEF ScanInv
  <2>2. NoEnd(cmd, N) /\ scan.args = Words(N) /\ Len(scan.args) <= arg_max
    BY <2>1 DEF Reading
  <2>3. m = N + 1
    BY <1>1, <1>5, <2>2 DEF NoEnd
  <2>4. m - 1 = N
    BY <1>1, <2>3
  <2>5. scan.args = Words(m - 1) /\ ~(Len(Words(m - 1)) > arg_max)
    BY <1>8, <2>2, <2>4
  <2> QED
    BY <1>3, <1>6, <1>8, <1>9, <2>1, <2>5
<1>11. CASE scan.ended /\ ~scan.too_many
  <2>1. Finished(cmd, arg_max, N, scan)
    BY <1>2, <1>11 DEF ScanInv
  <2>2. PICK k \in 1..N : /\ cmd[k] \in Terminals /\ NoEnd(cmd, k - 1)
                          /\ scan.args = Words(k - 1) /\ Len(scan.args) <= arg_max
    BY <2>1 DEF Finished
  <2>3. k = m
    BY <1>1, <1>5, <2>2 DEF NoEnd
  <2>4. scan.args = Words(m - 1) /\ ~(Len(Words(m - 1)) > arg_max)
    BY <1>8, <2>2, <2>3
  <2> QED
    BY <1>3, <1>6, <1>8, <1>9, <1>11, <2>4
<1>12. CASE scan.too_many
  <2>1. Overfull(cmd, arg_max, N)
    BY <1>2, <1>12 DEF ScanInv
  <2>2. PICK k \in 1..N : NoEnd(cmd, k) /\ Len(Words(k)) > arg_max
    BY <2>1 DEF Overfull
  <2>3. k \in 0..m - 1 /\ k \in 0..N
    BY <1>1, <1>5, <2>2 DEF NoEnd
  <2>4. Len(Words(k)) <= Len(Words(m - 1))
    <3> DEFINE a == Prefix(cmd, k)
               b == SubSeq(cmd, k + 1, m - 1)
    <3>1. Prefix(cmd, m - 1) = a \o b
      <4>1. 1 \in 1..N + 1 /\ k \in 1 - 1..N /\ m - 1 \in k..N
        BY <1>1, <1>8, <2>3
      <4>2. SubSeq(cmd, 1, k) \o SubSeq(cmd, k + 1, m - 1) = SubSeq(cmd, 1, m - 1)
        BY <4>1, ConcatAdjacentSubSeq
      <4> QED
        BY <4>2 DEF Prefix
    <3>2. a \in Seq(S)
      BY <1>7, <2>3
    <3>3. b \in Seq(S)
      <4>1. \A i \in k + 1..m - 1 : cmd[i] \in S
        BY <1>1, <1>8, <2>3
      <4>2. k + 1 \in Nat /\ m - 1 \in Nat
        BY <1>8, <2>3
      <4> QED
        BY <4>1, <4>2, SubSeqProperties
    <3> HIDE DEF a, b
    <3>4. Len(Tokens(a, Separators)) <= Len(Tokens(a \o b, Separators))
      BY <3>2, <3>3, TokensGrow
    <3> QED
      BY <3>1, <3>4 DEF a
  <2>5. Len(Words(m - 1)) > arg_max
    BY <1>7, <1>8, <2>2, <2>3, <2>4
  <2> QED
    BY <1>3, <1>6, <1>8, <1>12, <2>5
<1> QED
  BY <1>9, <1>10, <1>11, <1>12
=============================================================================
