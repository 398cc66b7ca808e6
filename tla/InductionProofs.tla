-------------------------- MODULE InductionProofs --------------------------
(* Induction over data, for the proofs of the other modules.  The induction    *)
(* theorems of the library have an operator as a parameter; here the property  *)
(* that is proved by induction is a set, which the provers can instantiate.    *)
(* From it: what a sum over a finite set is, and what a filtered sequence is.  *)
EXTENDS Naturals, Sequences, FiniteSets, FiniteSetTheorems, WellFoundedInduction, TLAPS

-----------------------------------------------------------------------------
(* Induction.                                                                  *)

\* A set with zero and every successor of its elements has every natural number.
LEMMA SetInduction ==
    ASSUME NEW S, 0 \in S, \A n \in Nat : n \in S => n + 1 \in S
    PROVE  \A n \in Nat : n \in S
  <1> DEFINE less == OpToRel(<, Nat)
  <1> DEFINE rest == Nat \ S
  <1>1. IsWellFoundedOn(less, Nat)
    BY NatLessThanWellFounded
  <1>2. \A x, y \in Nat : y < x => <<y, x>> \in less
    BY DEF OpToRel
  <1> HIDE DEF less
  <1>3. SUFFICES ASSUME rest # {} PROVE FALSE
    OBVIOUS
  <1>4. rest \subseteq Nat
    OBVIOUS
  <1>5. PICK x \in rest : \A y \in rest : ~(<<y, x>> \in less)
    BY <1>1, <1>3, <1>4, WFMin
  <1>6. PICK y \in Nat : y + 1 = x
    BY <1>5
  <1>7. <<y, x>> \in less
    BY <1>2, <1>5, <1>6
  <1>8. y \in S
    BY <1>5, <1>7
  <1> QED
    BY <1>5, <1>6, <1>8

\* A set of subsets of a finite set has them all when it has each one whose smaller
\* subsets, by one element, it has.
LEMMA SubsetInduction ==
    ASSUME NEW S, IsFiniteSet(S), NEW P,
           \A s \in SUBSET S : (\A x \in s : s \ {x} \in P) => s \in P
    PROVE  \A s \in SUBSET S : s \in P
  <1> DEFINE Q == {n \in Nat : \A s \in SUBSET S : Cardinality(s) = n => s \in P}
  <1>1. \A s \in SUBSET S : IsFiniteSet(s) /\ Cardinality(s) \in Nat
    BY FS_Subset, FS_CardinalityType
  <1>2. \A s \in SUBSET S : \A x \in s : Cardinality(s \ {x}) = Cardinality(s) - 1
    BY <1>1, FS_RemoveElement
  <1>3. 0 \in Q
    <2>1. \A s \in SUBSET S : Cardinality(s) = 0 => s = {}
      BY <1>1, FS_EmptySet
    <2> QED
      BY <2>1
  <1>4. \A n \in Nat : n \in Q => n + 1 \in Q
    <2> SUFFICES ASSUME NEW n \in Nat, n \in Q, NEW s \in SUBSET S, Cardinality(s) = n + 1
                 PROVE  s \in P
      OBVIOUS
    <2>1. \A x \in s : s \ {x} \in SUBSET S /\ Cardinality(s \ {x}) = n
      BY <1>2
    <2> QED
      BY <2>1
  <1> HIDE DEF Q
  <1>5. \A n \in Nat : n \in Q
    BY <1>3, <1>4, SetInduction
  <1> QED
    BY <1>1, <1>5 DEF Q

-----------------------------------------------------------------------------
(* Sums.                                                                       *)

Pick(s) == CHOOSE x \in s : TRUE

\* sum is the sum of f over every subset of S, as MapThenFoldSet adds it up.
IsSum(sum, f, S) ==
    sum = [s \in SUBSET S |-> IF s = {} THEN 0 ELSE f[Pick(s)] + sum[s \ {Pick(s)}]]

\* What a sum is on a set that is not empty.
LEMMA SumPick ==
    ASSUME NEW S, NEW f, NEW sum, IsSum(sum, f, S), NEW s \in SUBSET S, s # {}
    PROVE  Pick(s) \in s /\ sum[s] = f[Pick(s)] + sum[s \ {Pick(s)}]
  BY DEF Pick, IsSum

\* The fold has a value on a finite set: the definition of MapThenFoldSet chooses a
\* function that exists.
LEMMA SumExists ==
    ASSUME NEW S, IsFiniteSet(S), NEW f
    PROVE  \E sum : IsSum(sum, f, S)
  <1> DEFINE D(n) == {s \in SUBSET S : Cardinality(s) <= n}
             Upto(sum, n) ==
                 sum = [s \in D(n) |-> IF s = {} THEN 0 ELSE f[Pick(s)] + sum[s \ {Pick(s)}]]
             Q == {n \in Nat : \E sum : Upto(sum, n)}
  <1>1. \A s \in SUBSET S : IsFiniteSet(s) /\ Cardinality(s) \in Nat
    BY FS_Subset, FS_CardinalityType
  <1>2. \A n \in Nat : \A s \in D(n + 1) : s # {} => s \ {Pick(s)} \in D(n)
    <2> SUFFICES ASSUME NEW n \in Nat, NEW s \in D(n + 1), s # {} PROVE s \ {Pick(s)} \in D(n)
      OBVIOUS
    <2>1. Pick(s) \in s
      BY DEF Pick
    <2>2. Cardinality(s \ {Pick(s)}) = Cardinality(s) - 1
      BY <1>1, <2>1, FS_RemoveElement
    <2> QED
      BY <1>1, <2>2
  <1>3. 0 \in Q
    <2>1. D(0) = {{}}
      <3>1. \A s \in SUBSET S : Cardinality(s) <= 0 <=> s = {}
        BY <1>1, FS_EmptySet
      <3> QED
        BY <3>1
    <2>2. Upto([s \in D(0) |-> 0], 0)
      BY <2>1
    <2> QED
      BY <2>2
  <1>4. \A n \in Nat : n \in Q => n + 1 \in Q
    <2> SUFFICES ASSUME NEW n \in Nat, n \in Q PROVE n + 1 \in Q
      OBVIOUS
    <2>0. PICK sum : Upto(sum, n)
      OBVIOUS
    <2> DEFINE more == [s \in D(n + 1) |-> IF s = {} THEN 0 ELSE f[Pick(s)] + sum[s \ {Pick(s)}]]
    <2>1. \A s \in D(n) : s \in D(n + 1)
      BY <1>1
    <2>2. \A s \in D(n) : sum[s] = IF s = {} THEN 0 ELSE f[Pick(s)] + sum[s \ {Pick(s)}]
      BY <2>0
    <2>3. \A s \in D(n) : more[s] = sum[s]
      BY <2>1, <2>2
    <2>4. \A s \in D(n + 1) : s # {} => more[s \ {Pick(s)}] = sum[s \ {Pick(s)}]
      BY <1>2, <2>3
    <2>5. more = [s \in D(n + 1) |-> IF s = {} THEN 0 ELSE f[Pick(s)] + more[s \ {Pick(s)}]]
      BY <2>4
    <2>6. Upto(more, n + 1)
      BY <2>5
    <2> HIDE DEF Upto, more
    <2> QED
      BY <2>6
  <1> HIDE DEF Q
  <1>5. Cardinality(S) \in Q
    BY <1>1, <1>3, <1>4, SetInduction
  <1>6. D(Cardinality(S)) = SUBSET S
    BY <1>1, FS_Subset
  <1> QED
    BY <1>5, <1>6 DEF Q, IsSum

\* A sum of naturals is a natural.
LEMMA SumType ==
    ASSUME NEW S, IsFiniteSet(S), NEW f \in [S -> Nat], NEW sum, IsSum(sum, f, S)
    PROVE  \A s \in SUBSET S : sum[s] \in Nat
  <1> DEFINE P == {s \in SUBSET S : sum[s] \in Nat}
  <1>1. \A s \in SUBSET S : (\A x \in s : s \ {x} \in P) => s \in P
    <2> SUFFICES ASSUME NEW s \in SUBSET S, \A x \in s : s \ {x} \in P PROVE sum[s] \in Nat
      OBVIOUS
    <2>1. CASE s = {}
      BY <2>1 DEF IsSum
    <2>2. CASE s # {}
      <3>1. Pick(s) \in s /\ sum[s] = f[Pick(s)] + sum[s \ {Pick(s)}]
        BY <2>2, SumPick
      <3>2. sum[s \ {Pick(s)}] \in Nat /\ f[Pick(s)] \in Nat
        BY <3>1
      <3> QED
        BY <3>1, <3>2
    <2> QED
      BY <2>1, <2>2
  <1> HIDE DEF P
  <1>2. \A s \in SUBSET S : s \in P
    BY <1>1, SubsetInduction
  <1> QED
    BY <1>2 DEF P

\* The order does not matter: a sum is any one of its terms and the sum of the others.
LEMMA SumRemove ==
    ASSUME NEW S, IsFiniteSet(S), NEW f \in [S -> Nat], NEW sum, IsSum(sum, f, S)
    PROVE  \A s \in SUBSET S : \A a \in s : sum[s] = f[a] + sum[s \ {a}]
  <1> DEFINE P == {s \in SUBSET S : \A a \in s : sum[s] = f[a] + sum[s \ {a}]}
  <1>1. \A s \in SUBSET S : (\A x \in s : s \ {x} \in P) => s \in P
    <2> SUFFICES ASSUME NEW s \in SUBSET S, \A x \in s : s \ {x} \in P, NEW a \in s
                 PROVE  sum[s] = f[a] + sum[s \ {a}]
      OBVIOUS
    <2>0. s # {}
      OBVIOUS
    <2>4. Pick(s) \in s /\ sum[s] = f[Pick(s)] + sum[s \ {Pick(s)}]
      <3>1. IsSum(sum, f, S) /\ s \in SUBSET S /\ s # {}
        BY <2>0
      <3> HIDE DEF P
      <3> QED
        BY <3>1, SumPick
    <2>1. PICK c \in s : c = Pick(s) /\ sum[s] = f[c] + sum[s \ {c}]
      BY <2>4
    <2>2. CASE c = a
      BY <2>1, <2>2
    <2>3. CASE c # a
      <3>1. sum[s \ {c}] = f[a] + sum[(s \ {c}) \ {a}]
        BY <2>3
      <3>2. sum[s \ {a}] = f[c] + sum[(s \ {a}) \ {c}]
        BY <2>3
      <3>3. (s \ {c}) \ {a} = (s \ {a}) \ {c}
        OBVIOUS
      <3>4. PICK n \in Nat : n = sum[(s \ {a}) \ {c}]
        BY SumType
      <3>5. f[a] \in Nat /\ f[c] \in Nat
        OBVIOUS
      <3>6. sum[s \ {c}] = f[a] + n /\ sum[s \ {a}] = f[c] + n
        BY <3>1, <3>2, <3>3, <3>4
      <3> QED
        BY <2>1, <3>5, <3>6
    <2> QED
      BY <2>2, <2>3
  <1> HIDE DEF P
  <1>2. \A s \in SUBSET S : s \in P
    BY <1>1, SubsetInduction
  <1> QED
    BY <1>2 DEF P

\* Sums of functions that agree are equal.
LEMMA SumAgrees ==
    ASSUME NEW S, IsFiniteSet(S), NEW T, NEW f, NEW g, NEW sum, NEW other,
           IsSum(sum, f, S), IsSum(other, g, T),
           S \subseteq T, \A x \in S : f[x] = g[x]
    PROVE  sum[S] = other[S]
  <1> DEFINE P == {s \in SUBSET S : sum[s] = other[s]}
  <1>1. \A s \in SUBSET S : (\A x \in s : s \ {x} \in P) => s \in P
    <2> SUFFICES ASSUME NEW s \in SUBSET S, \A x \in s : s \ {x} \in P PROVE sum[s] = other[s]
      OBVIOUS
    <2>1. CASE s = {}
      BY <2>1 DEF IsSum
    <2>2. CASE s # {}
      <3>1. Pick(s) \in s /\ sum[s] = f[Pick(s)] + sum[s \ {Pick(s)}]
        BY <2>2, SumPick
      <3>2. other[s] = g[Pick(s)] + other[s \ {Pick(s)}]
        BY <2>2, SumPick
      <3> QED
        BY <3>1, <3>2
    <2> QED
      BY <2>1, <2>2
  <1> HIDE DEF P
  <1>2. \A s \in SUBSET S : s \in P
    BY <1>1, SubsetInduction
  <1> QED
    BY <1>2 DEF P

-----------------------------------------------------------------------------
(* Filtered sequences.                                                         *)

\* kept[i] is what a set leaves of the first i elements of a sequence.
IsFilter(kept, s, set) ==
    kept = [i \in 0..Len(s) |->
               IF i = 0 THEN <<>>
               ELSE IF s[i] \in set THEN Append(kept[i - 1], s[i]) ELSE kept[i - 1]]

\* The recursive definition of a filter has a solution.
LEMMA FilterExists ==
    ASSUME NEW R, NEW s \in Seq(R), NEW set
    PROVE  \E kept : IsFilter(kept, s, set)
  <1> DEFINE Value(kept, i) ==
                 IF i = 0 THEN <<>>
                 ELSE IF s[i] \in set THEN Append(kept[i - 1], s[i]) ELSE kept[i - 1]
             Upto(kept, n) == kept = [i \in 0..n |-> Value(kept, i)]
             Q == {n \in Nat : \E kept : Upto(kept, n)}
  <1>1. 0 \in Q
    <2>1. 0..0 = {0}
      OBVIOUS
    <2>2. Upto([i \in 0..0 |-> <<>>], 0)
      BY <2>1
    <2> HIDE DEF Upto
    <2> QED
      BY <2>2
  <1>2. \A n \in Nat : n \in Q => n + 1 \in Q
    <2> SUFFICES ASSUME NEW n \in Nat, n \in Q PROVE n + 1 \in Q
      OBVIOUS
    <2>1. PICK kept : Upto(kept, n)
      OBVIOUS
    <2> DEFINE more == [i \in 0..(n + 1) |-> Value(kept, i)]
    <2> HIDE DEF Value
    <2>2. \A i \in 0..n : kept[i] = Value(kept, i) /\ more[i] = Value(kept, i)
      <3>1. \A i \in 0..n : i \in 0..(n + 1)
        OBVIOUS
      <3> QED
        BY <2>1, <3>1
    <2>3. \A i \in 0..(n + 1) : i # 0 => i - 1 \in 0..n
      OBVIOUS
    <2>4. \A i \in 0..(n + 1) : i # 0 => more[i - 1] = kept[i - 1]
      BY <2>2, <2>3
    <2>5. \A i \in 0..(n + 1) : Value(kept, i) = Value(more, i)
      BY <2>4 DEF Value
    <2>6. Upto(more, n + 1)
      BY <2>5
    <2> HIDE DEF Upto, more
    <2> QED
      BY <2>6
  <1> HIDE DEF Q
  <1>3. Len(s) \in Nat
    OBVIOUS
  <1>4. Len(s) \in Q
    BY <1>1, <1>2, <1>3, SetInduction
  <1> QED
    BY <1>4 DEF Q, IsFilter

\* A filtered sequence is a sequence of the elements that pass.
LEMMA FilterType ==
    ASSUME NEW R, NEW s \in Seq(R), NEW set, NEW kept, IsFilter(kept, s, set)
    PROVE  \A n \in 0..Len(s) : kept[n] \in Seq(R \cap set)
  <1> DEFINE Q == {n \in Nat : n <= Len(s) => kept[n] \in Seq(R \cap set)}
  <1>1. \A i \in 0..Len(s) :
            kept[i] = IF i = 0 THEN <<>>
                      ELSE IF s[i] \in set THEN Append(kept[i - 1], s[i]) ELSE kept[i - 1]
    BY DEF IsFilter
  <1>2. 0 \in Q
    <2>1. 0 \in 0..Len(s)
      OBVIOUS
    <2>2. kept[0] = <<>>
      BY <1>1, <2>1
    <2>3. <<>> \in Seq(R \cap set)
      OBVIOUS
    <2> QED
      BY <2>2, <2>3
  <1>3. \A n \in Nat : n \in Q => n + 1 \in Q
    <2> SUFFICES ASSUME NEW n \in Nat, n \in Q, n + 1 <= Len(s)
                 PROVE  kept[n + 1] \in Seq(R \cap set)
      OBVIOUS
    <2>1. n + 1 \in 0..Len(s) /\ n + 1 # 0 /\ n + 1 - 1 = n /\ s[n + 1] \in R
      OBVIOUS
    <2>2. kept[n + 1] = IF s[n + 1] \in set THEN Append(kept[n], s[n + 1]) ELSE kept[n]
      BY <1>1, <2>1
    <2>3. kept[n] \in Seq(R \cap set)
      OBVIOUS
    <2> QED
      BY <2>1, <2>2, <2>3
  <1> HIDE DEF Q
  <1>4. \A n \in Nat : n \in Q
    BY <1>2, <1>3, SetInduction
  <1> QED
    BY <1>4 DEF Q

\* A sequence has the elements of the first n of another that are in a set, in their order.
Picks(c, s, n, set) ==
    /\ \A i \in 1..Len(c) : c[i] \in set /\ \E p \in 1..n : c[i] = s[p]
    /\ \A i, j \in 1..Len(c) : i < j => \E p, q \in 1..n : p < q /\ c[i] = s[p] /\ c[j] = s[q]
    /\ \A p \in 1..n : s[p] \in set => \E i \in 1..Len(c) : c[i] = s[p]

\* One more element.
LEMMA PicksNext ==
    ASSUME NEW R, NEW s \in Seq(R), NEW set, NEW n \in Nat, n + 1 <= Len(s), NEW c \in Seq(R),
           Picks(c, s, n, set)
    PROVE  IF s[n + 1] \in set THEN Picks(Append(c, s[n + 1]), s, n + 1, set)
                               ELSE Picks(c, s, n + 1, set)
  <1>0. /\ \A p \in 1..n : p \in 1..(n + 1) /\ p < n + 1
        /\ \A p \in 1..(n + 1) : p \in 1..n \/ p = n + 1
        /\ n + 1 \in 1..(n + 1)
    OBVIOUS
  <1>1. CASE s[n + 1] \notin set
    <2>1. \A i \in 1..Len(c) : c[i] \in set /\ \E p \in 1..(n + 1) : c[i] = s[p]
      BY <1>0 DEF Picks
    <2>2. ASSUME NEW i \in 1..Len(c), NEW j \in 1..Len(c), i < j
          PROVE  \E p, q \in 1..(n + 1) : p < q /\ c[i] = s[p] /\ c[j] = s[q]
      <3>1. PICK p, q \in 1..n : p < q /\ c[i] = s[p] /\ c[j] = s[q]
        BY <2>2 DEF Picks
      <3> QED
        BY <1>0, <3>1
    <2>3. \A p \in 1..(n + 1) : s[p] \in set => \E i \in 1..Len(c) : c[i] = s[p]
      BY <1>0, <1>1 DEF Picks
    <2> QED
      BY <1>1, <2>1, <2>2, <2>3 DEF Picks
  <1>2. CASE s[n + 1] \in set
    <2>0. s[n + 1] \in R
      OBVIOUS
    <2>1. PICK d : d = Append(c, s[n + 1])
      OBVIOUS
    <2>2. /\ Len(c) \in Nat /\ Len(d) = Len(c) + 1 /\ d[Len(c) + 1] = s[n + 1]
          /\ \A i \in 1..Len(c) : d[i] = c[i]
      BY <2>0, <2>1
    <2>3. \A i \in 1..Len(d) : i \in 1..Len(c) \/ i = Len(c) + 1
      BY <2>2
    <2>4. ASSUME NEW i \in 1..Len(d)
          PROVE  d[i] \in set /\ \E p \in 1..(n + 1) : d[i] = s[p]
      <3>1. CASE i = Len(c) + 1
        BY <1>0, <1>2, <2>2, <3>1
      <3>2. CASE i \in 1..Len(c)
        <4>1. c[i] \in set /\ \E p \in 1..n : c[i] = s[p]
          BY <3>2 DEF Picks
        <4>2. PICK p \in 1..n : c[i] = s[p]
          BY <4>1
        <4> QED
          BY <1>0, <2>2, <3>2, <4>1, <4>2
      <3> QED
        BY <2>3, <3>1, <3>2
    <2>5. ASSUME NEW i \in 1..Len(d), NEW j \in 1..Len(d), i < j
          PROVE  \E p, q \in 1..(n + 1) : p < q /\ d[i] = s[p] /\ d[j] = s[q]
      <3>1. i \in 1..Len(c) /\ d[i] = c[i]
        BY <2>2, <2>5
      <3>2. CASE j = Len(c) + 1
        <4>1. PICK p \in 1..n : c[i] = s[p]
          BY <3>1 DEF Picks
        <4> QED
          BY <1>0, <2>2, <3>1, <3>2, <4>1
      <3>3. CASE j \in 1..Len(c)
        <4>1. PICK p, q \in 1..n : p < q /\ c[i] = s[p] /\ c[j] = s[q]
          BY <2>5, <3>1, <3>3 DEF Picks
        <4> QED
          BY <1>0, <2>2, <3>1, <3>3, <4>1
      <3> QED
        BY <2>3, <3>2, <3>3
    <2>6. ASSUME NEW p \in 1..(n + 1), s[p] \in set
          PROVE  \E i \in 1..Len(d) : d[i] = s[p]
      <3>1. CASE p = n + 1
        <4>1. Len(c) + 1 \in 1..Len(d)
          BY <2>2
        <4> QED
          BY <2>2, <3>1, <4>1
      <3>2. CASE p \in 1..n
        <4>1. PICK i \in 1..Len(c) : c[i] = s[p]
          BY <2>6, <3>2 DEF Picks
        <4>2. i \in 1..Len(d)
          BY <2>2
        <4> QED
          BY <2>2, <4>1, <4>2
      <3> QED
        BY <1>0, <3>1, <3>2
    <2>7. Picks(d, s, n + 1, set)
      BY <2>4, <2>5, <2>6 DEF Picks
    <2> QED
      BY <1>2, <2>1, <2>7
  <1> QED
    BY <1>1, <1>2

\* A filtered sequence has every element that passes, in order.
LEMMA FilterOrder ==
    ASSUME NEW R, NEW s \in Seq(R), NEW set, NEW kept, IsFilter(kept, s, set)
    PROVE  Picks(kept[Len(s)], s, Len(s), set)
  <1> DEFINE Q == {n \in Nat : n <= Len(s) => Picks(kept[n], s, n, set)}
  <1>1. \A i \in 0..Len(s) :
            kept[i] = IF i = 0 THEN <<>>
                      ELSE IF s[i] \in set THEN Append(kept[i - 1], s[i]) ELSE kept[i - 1]
    BY DEF IsFilter
  <1>2. 0 \in Q
    <2>1. 0 \in 0..Len(s)
      OBVIOUS
    <2>2. kept[0] = <<>>
      BY <1>1, <2>1
    <2>3. Picks(<<>>, s, 0, set)
      BY DEF Picks
    <2> QED
      BY <2>2, <2>3
  <1>3. \A n \in Nat : n \in Q => n + 1 \in Q
    <2> SUFFICES ASSUME NEW n \in Nat, n \in Q, n + 1 <= Len(s)
                 PROVE  Picks(kept[n + 1], s, n + 1, set)
      OBVIOUS
    <2>1. n \in 0..Len(s) /\ n + 1 \in 0..Len(s) /\ n + 1 # 0 /\ n + 1 - 1 = n
      OBVIOUS
    <2>2. kept[n + 1] = IF s[n + 1] \in set THEN Append(kept[n], s[n + 1]) ELSE kept[n]
      BY <1>1, <2>1
    <2>3. Picks(kept[n], s, n, set)
      BY <2>1
    <2>4. kept[n] \in Seq(R \cap set)
      BY <2>1, FilterType
    <2>5. PICK c \in Seq(R) : c = kept[n]
      BY <2>4
    <2>6. IF s[n + 1] \in set THEN Picks(Append(c, s[n + 1]), s, n + 1, set)
                              ELSE Picks(c, s, n + 1, set)
      BY <2>3, <2>5, PicksNext
    <2> QED
      BY <2>2, <2>5, <2>6
  <1> HIDE DEF Q
  <1>4. \A n \in Nat : n \in Q
    BY <1>2, <1>3, SetInduction
  <1>5. Len(s) \in Nat
    OBVIOUS
  <1> QED
    BY <1>4, <1>5 DEF Q
=============================================================================
