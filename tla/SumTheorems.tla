---------------------------- MODULE SumTheorems ----------------------------
(***************************************************************************)
(* Sums over finite sets (SumFunctionOnSet of the community modules), as   *)
(* the accounts of this development use them: what a sum is when an        *)
(* element is taken out, that it depends on the values of its elements     *)
(* only, and how it splits over disjoint sets.                             *)
(*                                                                         *)
(* The fold behind the sum is a recursive function over the subsets of the *)
(* set.  That this function exists is shown by induction on the size of    *)
(* the subsets; induction is stated with sets, since a theorem with an     *)
(* operator as its parameter cannot be used by the provers.                *)
(*                                                                         *)
(* And sequences: their elements, sorted ones, and what is put together of *)
(* others (FlattenSeq), by an induction of the same kind.                  *)
(***************************************************************************)
EXTENDS SequencesExt, Integers, FiniteSetTheorems, SequenceTheorems, WellFoundedInduction, TLAPS

-----------------------------------------------------------------------------
\* Induction over the subsets of a finite set: a set of subsets that has the empty
\* one and grows with every element has them all.
LEMMA SubsetInduction ==
    ASSUME NEW S, IsFiniteSet(S), NEW G,
           {} \in G,
           \A T \in SUBSET S : \A x \in S \ T : T \in G => T \cup {x} \in G
    PROVE  SUBSET S \subseteq G
  <1> SUFFICES ASSUME (SUBSET S) \ G # {} PROVE FALSE
    OBVIOUS
  <1> DEFINE Bad == (SUBSET S) \ G
  <1>1. Bad \subseteq FiniteSubsetsOf(S)
    BY FS_Subset DEF FiniteSubsetsOf
  <1>2. PICK T \in Bad : \A U \in Bad : <<U, T>> \notin StrictSubsetOrdering(S)
    <2>1. Bad # {}
      OBVIOUS
    <2> HIDE DEF Bad
    <2>2. QED
      BY <1>1, <2>1, FS_StrictSubsetOrderingWellFounded, WFMin
  <1>3. PICK x \in T : TRUE
    <2>1. T # {}
      BY <1>2
    <2>2. QED
      BY <2>1
  <1>4. T \ {x} \in SUBSET S /\ T \ {x} \subseteq T /\ T \ {x} # T
    BY <1>2, <1>3
  <1>5. <<T \ {x}, T>> \in StrictSubsetOrdering(S)
    BY <1>2, <1>4 DEF StrictSubsetOrdering
  <1>6. T \ {x} \in G
    BY <1>2, <1>4, <1>5
  <1>7. (T \ {x}) \cup {x} \in G
    BY <1>2, <1>3, <1>4, <1>6
  <1>8. QED
    BY <1>2, <1>3, <1>7

\* The greatest number of a finite set, which the folds of sequences are defined with.
LEMMA GreatestNumber ==
    ASSUME NEW S \in SUBSET Nat, IsFiniteSet(S), S # {}
    PROVE  Max(S) \in S /\ \A n \in S : n <= Max(S)
  <1> DEFINE G == {T \in SUBSET S : T # {} => \E m \in T : \A n \in T : n <= m}
  <1>1. {} \in G
    OBVIOUS
  <1>2. ASSUME NEW T \in SUBSET S, NEW x \in S \ T, T \in G PROVE T \cup {x} \in G
    <2>1. CASE T = {}
      BY <2>1
    <2>2. CASE T # {}
      <3>1. PICK m \in T : \A n \in T : n <= m
        BY <1>2, <2>2
      <3>2. CASE x <= m
        BY <3>1, <3>2
      <3>3. CASE ~(x <= m)
        <4>1. \A n \in T \cup {x} : n <= x
          BY <3>1, <3>3
        <4>2. QED
          BY <4>1
      <3>4. QED
        BY <3>2, <3>3
    <2>3. QED
      BY <2>1, <2>2
  <1>3. SUBSET S \subseteq G
    <2> HIDE DEF G
    <2>1. QED
      BY <1>1, <1>2, SubsetInduction
  <1>4. \E m \in S : \A n \in S : m >= n
    BY <1>3
  <1>5. QED
    BY <1>4 DEF Max

\* Induction over the natural numbers.
LEMMA NumberInduction ==
    ASSUME NEW G, 0 \in G, \A n \in Nat : n \in G => n + 1 \in G
    PROVE  Nat \subseteq G
  <1> SUFFICES ASSUME NEW n \in Nat PROVE n \in G
    OBVIOUS
  <1> DEFINE D == 1..n
             Sizes == {T \in SUBSET D : Cardinality(T) \in G}
  <1>1. IsFiniteSet(D) /\ Cardinality(D) = n
    BY FS_Interval
  <1>2. {} \in Sizes
    BY FS_EmptySet
  <1>3. ASSUME NEW T \in SUBSET D, NEW x \in D \ T, T \in Sizes PROVE T \cup {x} \in Sizes
    <2>1. IsFiniteSet(T) /\ Cardinality(T) \in Nat
      BY <1>1, FS_Subset, FS_CardinalityType
    <2>2. Cardinality(T \cup {x}) = Cardinality(T) + 1
      BY <2>1, FS_AddElement
    <2>3. QED
      BY <1>3, <2>1, <2>2
  <1>4. D \in Sizes
    <2> HIDE DEF D, Sizes
    <2>1. SUBSET D \subseteq Sizes
      BY <1>1, <1>2, <1>3, SubsetInduction
    <2>2. QED
      BY <2>1
  <1>5. QED
    BY <1>1, <1>4

-----------------------------------------------------------------------------
\* The element that the fold takes.
Taken(s) == CHOOSE x \in s : TRUE

\* The equation of the fold at the subset s.
SumAt(f, g, s) == g[s] = IF s = {} THEN 0 ELSE f[Taken(s)] + g[s \ {Taken(s)}]

IsSum(f, S, g) ==
    g = [s \in SUBSET S |-> IF s = {} THEN 0 ELSE f[Taken(s)] + g[s \ {Taken(s)}]]

\* The sum is a value of the function that the fold is.
LEMMA SumUnfold ==
    ASSUME NEW f, NEW S
    PROVE  SumFunctionOnSet(f, S) = (CHOOSE g : IsSum(f, S, g))[S]
  BY DEF SumFunctionOnSet, FoldFunctionOnSet, MapThenFoldSet, IsSum, Taken

\* What is taken out of a set is in it.
LEMMA TakenIsIn ==
    ASSUME NEW s, s # {}
    PROVE  Taken(s) \in s
  BY DEF Taken

\* A set without what is taken out of it is smaller by one.
LEMMA WithoutTaken ==
    ASSUME NEW S, IsFiniteSet(S), NEW s \in SUBSET S, s # {}
    PROVE  /\ Taken(s) \in s
           /\ s \ {Taken(s)} \in SUBSET S
           /\ IsFiniteSet(s) /\ Cardinality(s) \in Nat
           /\ Cardinality(s \ {Taken(s)}) = Cardinality(s) - 1
  <1>1. Taken(s) \in s
    BY TakenIsIn
  <1>2. IsFiniteSet(s) /\ Cardinality(s) \in Nat
    BY FS_Subset, FS_CardinalityType
  <1>3. QED
    BY <1>1, <1>2, FS_RemoveElement

\* The fold is a function: for subsets of more and more elements.
LEMMA SumExists ==
    ASSUME NEW f, NEW S, IsFiniteSet(S)
    PROVE  \E g : IsSum(f, S, g)
  <1> DEFINE Small(n) == {s \in SUBSET S : Cardinality(s) <= n}
             Upto(n, g) == \A s \in Small(n) : SumAt(f, g, s)
             G == {n \in Nat : \E g : Upto(n, g)}
  <1>1. \A s \in SUBSET S : IsFiniteSet(s) /\ Cardinality(s) \in Nat
    BY FS_Subset, FS_CardinalityType
  <1>2. 0 \in G
    <2>1. \A s \in Small(0) : s = {}
      BY <1>1, FS_EmptySet
    <2>2. Upto(0, [s \in SUBSET S |-> 0])
      BY <2>1 DEF SumAt
    <2>3. QED
      BY <2>2
  <1>3. ASSUME NEW n \in Nat, n \in G PROVE n + 1 \in G
    <2>1. PICK g : Upto(n, g)
      BY <1>3
    <2> DEFINE h == [s \in SUBSET S |-> IF s \in Small(n) THEN g[s]
                                        ELSE f[Taken(s)] + g[s \ {Taken(s)}]]
    <2>2. ASSUME NEW s \in Small(n + 1) PROVE SumAt(f, h, s)
      <3>1. CASE s = {}
        <4>1. s \in Small(n)
          BY <3>1, FS_EmptySet
        <4>2. QED
          BY <2>1, <3>1, <4>1 DEF SumAt
      <3>2. CASE s # {}
        <4>1. /\ s \ {Taken(s)} \in SUBSET S
              /\ Cardinality(s) \in Nat
              /\ Cardinality(s \ {Taken(s)}) = Cardinality(s) - 1
          BY <3>2, WithoutTaken
        <4>2. s \ {Taken(s)} \in Small(n)
          BY <4>1
        <4>3. h[s \ {Taken(s)}] = g[s \ {Taken(s)}]
          BY <4>1, <4>2
        <4>4. h[s] = f[Taken(s)] + g[s \ {Taken(s)}]
          BY <2>1, <3>2 DEF SumAt
        <4>5. QED
          BY <3>2, <4>3, <4>4 DEF SumAt
      <3>3. QED
        BY <3>1, <3>2
    <2> HIDE DEF h
    <2>3. Upto(n + 1, h)
      BY <2>2
    <2>4. QED
      BY <2>3
  <1>4. Cardinality(S) \in G
    <2>1. Nat \subseteq G
      <3> HIDE DEF G
      <3>1. QED
        BY <1>2, <1>3, NumberInduction
    <2>2. QED
      BY <1>1, <2>1
  <1>5. PICK g : Upto(Cardinality(S), g)
    BY <1>4
  <1>6. \A s \in SUBSET S : s \in Small(Cardinality(S))
    BY FS_Subset
  <1> DEFINE h == [s \in SUBSET S |-> g[s]]
  <1>7. IsSum(f, S, h)
    <2>1. ASSUME NEW s \in SUBSET S
          PROVE  h[s] = IF s = {} THEN 0 ELSE f[Taken(s)] + h[s \ {Taken(s)}]
      <3>1. SumAt(f, g, s)
        BY <1>5, <1>6
      <3>2. s # {} => s \ {Taken(s)} \in SUBSET S
        OBVIOUS
      <3>3. QED
        BY <3>1, <3>2 DEF SumAt
    <2>2. QED
      BY <2>1 DEF IsSum
  <1>8. QED
    BY <1>7

\* Two such functions agree on the subsets they share.
LEMMA SumUnique ==
    ASSUME NEW f, NEW S, NEW T, NEW U, IsFiniteSet(U), U \subseteq S, U \subseteq T,
           NEW p, NEW q, IsSum(f, S, p), IsSum(f, T, q)
    PROVE  p[U] = q[U]
  <1> DEFINE Bad == {u \in SUBSET U : p[u] # q[u]}
  <1> SUFFICES ASSUME Bad # {} PROVE FALSE
    OBVIOUS
  <1>1. Bad \subseteq FiniteSubsetsOf(U)
    BY FS_Subset DEF FiniteSubsetsOf
  <1>2. PICK u \in Bad : \A v \in Bad : <<v, u>> \notin StrictSubsetOrdering(U)
    <2> HIDE DEF Bad
    <2>1. QED
      BY <1>1, FS_StrictSubsetOrderingWellFounded, WFMin
  <1>3. /\ p[u] = IF u = {} THEN 0 ELSE f[Taken(u)] + p[u \ {Taken(u)}]
        /\ q[u] = IF u = {} THEN 0 ELSE f[Taken(u)] + q[u \ {Taken(u)}]
    BY <1>2 DEF IsSum
  <1>4. u # {}
    BY <1>2, <1>3
  <1>5. Taken(u) \in u
    BY <1>4, TakenIsIn
  <1> DEFINE v == u \ {Taken(u)}
  <1>6. <<v, u>> \in StrictSubsetOrdering(U) /\ v \in SUBSET U
    BY <1>2, <1>5 DEF StrictSubsetOrdering
  <1>7. p[v] = q[v]
    BY <1>2, <1>6
  <1>8. QED
    BY <1>2, <1>3, <1>4, <1>7

-----------------------------------------------------------------------------
\* The sums themselves.

\* The function whose value is the sum satisfies the equation of the fold.
LEMMA SumFact ==
    ASSUME NEW f, NEW S, IsFiniteSet(S)
    PROVE  IsSum(f, S, CHOOSE g : IsSum(f, S, g))
  BY SumExists

\* A sum depends on the values of its elements only.
THEOREM SumSame ==
    ASSUME NEW f, NEW g, NEW S, \A x \in S : f[x] = g[x]
    PROVE  SumFunctionOnSet(f, S) = SumFunctionOnSet(g, S)
  <1>1. ASSUME NEW h PROVE IsSum(f, S, h) = IsSum(g, S, h)
    <2>1. ASSUME NEW s \in SUBSET S, s # {} PROVE f[Taken(s)] = g[Taken(s)]
      BY <2>1, TakenIsIn
    <2>2. [s \in SUBSET S |-> IF s = {} THEN 0 ELSE f[Taken(s)] + h[s \ {Taken(s)}]]
              = [s \in SUBSET S |-> IF s = {} THEN 0 ELSE g[Taken(s)] + h[s \ {Taken(s)}]]
      BY <2>1
    <2>3. QED
      BY <2>2 DEF IsSum
  <1>2. (CHOOSE h : IsSum(f, S, h)) = (CHOOSE h : IsSum(g, S, h))
    BY <1>1
  <1>3. QED
    BY <1>2, SumUnfold

\* The sum of nothing.
THEOREM SumEmpty ==
    ASSUME NEW f
    PROVE  SumFunctionOnSet(f, {}) = 0
  <1> DEFINE p == CHOOSE h : IsSum(f, {}, h)
  <1>1. IsSum(f, {}, p)
    BY SumFact, FS_EmptySet
  <1>2. p[{}] = 0
    <2> HIDE DEF p
    <2>1. QED
      BY <1>1 DEF IsSum
  <1>3. QED
    BY <1>2, SumUnfold

\* The first step of the fold.
LEMMA SumTaken ==
    ASSUME NEW f, NEW S, IsFiniteSet(S), S # {}
    PROVE  SumFunctionOnSet(f, S) = f[Taken(S)] + SumFunctionOnSet(f, S \ {Taken(S)})
  <1> DEFINE T == S \ {Taken(S)}
             p == CHOOSE h : IsSum(f, S, h)
             q == CHOOSE h : IsSum(f, T, h)
  <1>1. IsFiniteSet(T)
    BY FS_RemoveElement
  <1>2. IsSum(f, S, p) /\ IsSum(f, T, q)
    BY <1>1, SumFact
  <1>3. p[S] = f[Taken(S)] + p[T]
    <2> HIDE DEF p
    <2>1. QED
      BY <1>2 DEF IsSum
  <1>4. p[T] = q[T]
    <2>1. T \subseteq S /\ T \subseteq T
      OBVIOUS
    <2> HIDE DEF T
    <2>2. ASSUME NEW a, NEW b, IsSum(f, S, a), IsSum(f, T, b) PROVE a[T] = b[T]
      BY <1>1, <2>1, <2>2, SumUnique
    <2> HIDE DEF p, q
    <2>3. QED
      BY <1>2, <2>2
  <1>5. SumFunctionOnSet(f, S) = p[S] /\ SumFunctionOnSet(f, T) = q[T]
    BY SumUnfold
  <1>6. QED
    BY <1>3, <1>4, <1>5

\* A sum of integers is one.
THEOREM SumInt ==
    ASSUME NEW f, NEW S, IsFiniteSet(S), \A x \in S : f[x] \in Int
    PROVE  SumFunctionOnSet(f, S) \in Int
  <1> DEFINE Bad == {u \in SUBSET S : SumFunctionOnSet(f, u) \notin Int}
  <1> SUFFICES ASSUME Bad # {} PROVE FALSE
    OBVIOUS
  <1>1. Bad \subseteq FiniteSubsetsOf(S)
    BY FS_Subset DEF FiniteSubsetsOf
  <1>2. PICK u \in Bad : \A v \in Bad : <<v, u>> \notin StrictSubsetOrdering(S)
    <2> HIDE DEF Bad
    <2>1. QED
      BY <1>1, FS_StrictSubsetOrderingWellFounded, WFMin
  <1>3. u # {}
    BY <1>2, SumEmpty
  <1>4. IsFiniteSet(u) /\ Taken(u) \in u
    BY <1>2, <1>3, TakenIsIn, FS_Subset
  <1> DEFINE v == u \ {Taken(u)}
  <1>5. <<v, u>> \in StrictSubsetOrdering(S) /\ v \in SUBSET S
    BY <1>2, <1>4 DEF StrictSubsetOrdering
  <1>6. SumFunctionOnSet(f, v) \in Int /\ f[Taken(u)] \in Int
    BY <1>2, <1>4, <1>5
  <1>7. SumFunctionOnSet(f, u) = f[Taken(u)] + SumFunctionOnSet(f, v)
    BY <1>3, <1>4, SumTaken
  <1> HIDE DEF v
  <1>8. SumFunctionOnSet(f, u) \in Int
    BY <1>6, <1>7
  <1>9. QED
    BY <1>2, <1>8

\* Any element may be taken out first.
THEOREM SumRemove ==
    ASSUME NEW f, NEW S, IsFiniteSet(S), \A x \in S : f[x] \in Int, NEW e \in S
    PROVE  SumFunctionOnSet(f, S) = f[e] + SumFunctionOnSet(f, S \ {e})
  <1> DEFINE Sum(T) == SumFunctionOnSet(f, T)
             Bad == {u \in SUBSET S : \E x \in u : Sum(u) # f[x] + Sum(u \ {x})}
  <1> SUFFICES ASSUME Bad # {} PROVE FALSE
    OBVIOUS
  <1>1. Bad \subseteq FiniteSubsetsOf(S)
    BY FS_Subset DEF FiniteSubsetsOf
  <1>2. PICK u \in Bad : \A v \in Bad : <<v, u>> \notin StrictSubsetOrdering(S)
    <2> HIDE DEF Bad
    <2>1. QED
      BY <1>1, FS_StrictSubsetOrderingWellFounded, WFMin
  <1>3. PICK x \in u : Sum(u) # f[x] + Sum(u \ {x})
    BY <1>2
  <1> DEFINE t == Taken(u)
  <1>4. u \in SUBSET S /\ IsFiniteSet(u) /\ u # {} /\ t \in u
    BY <1>2, <1>3, TakenIsIn, FS_Subset
  <1>5. Sum(u) = f[t] + Sum(u \ {t})
    BY <1>4, SumTaken
  <1> HIDE DEF t
  <1>6. x # t
    BY <1>3, <1>5
  <1>7. /\ <<u \ {t}, u>> \in StrictSubsetOrdering(S) /\ u \ {t} \in SUBSET S /\ x \in u \ {t}
        /\ <<u \ {x}, u>> \in StrictSubsetOrdering(S) /\ u \ {x} \in SUBSET S /\ t \in u \ {x}
    BY <1>3, <1>4, <1>6 DEF StrictSubsetOrdering
  <1>8. Sum(u \ {t}) = f[x] + Sum((u \ {t}) \ {x})
    BY <1>2, <1>7
  <1>9. Sum(u \ {x}) = f[t] + Sum((u \ {x}) \ {t})
    BY <1>2, <1>7
  <1>10. Sum((u \ {t}) \ {x}) = Sum((u \ {x}) \ {t})
    <2>1. (u \ {t}) \ {x} = (u \ {x}) \ {t}
      OBVIOUS
    <2>2. QED
      BY <2>1, Zenon
  <1>11. f[x] \in Int /\ f[t] \in Int /\ Sum((u \ {x}) \ {t}) \in Int
    <2>1. (u \ {x}) \ {t} \in SUBSET S
      BY <1>4
    <2>2. IsFiniteSet((u \ {x}) \ {t})
      BY <2>1, FS_Subset
    <2>3. \A y \in (u \ {x}) \ {t} : f[y] \in Int
      BY <2>1
    <2>4. QED
      BY <1>3, <1>4, <2>2, <2>3, SumInt
  <1>12. Sum(u) = f[x] + Sum(u \ {x})
    <2> HIDE DEF Sum
    <2>1. QED
      BY <1>5, <1>8, <1>9, <1>10, <1>11
  <1>13. QED
    BY <1>3, <1>12

\* One more element.
THEOREM SumAdd ==
    ASSUME NEW f, NEW S, IsFiniteSet(S), NEW e, e \notin S,
           \A x \in S \cup {e} : f[x] \in Int
    PROVE  SumFunctionOnSet(f, S \cup {e}) = f[e] + SumFunctionOnSet(f, S)
  <1> DEFINE T == S \cup {e}
  <1>1. IsFiniteSet(T) /\ e \in T /\ T \ {e} = S
    BY FS_AddElement
  <1>2. \A x \in T : f[x] \in Int
    OBVIOUS
  <1> HIDE DEF T
  <1>3. SumFunctionOnSet(f, T) = f[e] + SumFunctionOnSet(f, T \ {e})
    BY <1>1, <1>2, SumRemove
  <1>4. QED
    BY <1>1, <1>3 DEF T

\* A sum over two sets that share nothing.
THEOREM SumUnion ==
    ASSUME NEW f, NEW S, NEW T, IsFiniteSet(S), IsFiniteSet(T), S \cap T = {},
           \A x \in S \cup T : f[x] \in Int
    PROVE  SumFunctionOnSet(f, S \cup T) = SumFunctionOnSet(f, S) + SumFunctionOnSet(f, T)
  <1> DEFINE Sum(U) == SumFunctionOnSet(f, U)
             G == {U \in SUBSET T : Sum(S \cup U) = Sum(S) + Sum(U)}
  <1>1. Sum(S) \in Int
    BY SumInt
  <1>2. {} \in G
    <2>1. S \cup {} = S
      OBVIOUS
    <2>2. QED
      BY <1>1, <2>1, SumEmpty
  <1>3. ASSUME NEW U \in SUBSET T, NEW e \in T \ U, U \in G PROVE U \cup {e} \in G
    <2>1. IsFiniteSet(U) /\ IsFiniteSet(S \cup U)
      BY FS_Subset, FS_Union
    <2>2. Sum(U \cup {e}) = f[e] + Sum(U)
      BY <2>1, SumAdd
    <2>3. Sum((S \cup U) \cup {e}) = f[e] + Sum(S \cup U)
      BY <2>1, SumAdd
    <2>4. Sum(U) \in Int /\ f[e] \in Int
      BY <2>1, SumInt
    <2>5. Sum((S \cup U) \cup {e}) = Sum(S \cup (U \cup {e}))
      <3>1. (S \cup U) \cup {e} = S \cup (U \cup {e})
        OBVIOUS
      <3>2. QED
        BY <3>1, Zenon
    <2>6. Sum(S \cup (U \cup {e})) = Sum(S) + Sum(U \cup {e})
      <3> HIDE DEF Sum
      <3>1. Sum(S \cup U) = Sum(S) + Sum(U)
        BY <1>3
      <3>2. QED
        BY <1>1, <2>2, <2>3, <2>4, <2>5, <3>1
    <2>7. QED
      BY <2>6
  <1>4. SUBSET T \subseteq G
    <2> HIDE DEF G
    <2>1. QED
      BY <1>2, <1>3, SubsetInduction
  <1>5. QED
    BY <1>4

\* A sum of natural numbers is one; it is 0 only if all of them are.
THEOREM SumNat ==
    ASSUME NEW f, NEW S, IsFiniteSet(S), \A x \in S : f[x] \in Nat
    PROVE  SumFunctionOnSet(f, S) \in Nat
  <1> DEFINE G == {U \in SUBSET S : SumFunctionOnSet(f, U) \in Nat}
  <1>1. {} \in G
    BY SumEmpty
  <1>2. ASSUME NEW U \in SUBSET S, NEW e \in S \ U, U \in G PROVE U \cup {e} \in G
    <2>1. IsFiniteSet(U)
      BY FS_Subset
    <2>2. SumFunctionOnSet(f, U \cup {e}) = f[e] + SumFunctionOnSet(f, U)
      BY <2>1, SumAdd
    <2>3. f[e] + SumFunctionOnSet(f, U) \in Nat
      BY <1>2
    <2>4. QED
      BY <2>2, <2>3
  <1>3. SUBSET S \subseteq G
    <2> HIDE DEF G
    <2>1. QED
      BY <1>1, <1>2, SubsetInduction
  <1>4. QED
    BY <1>3

\* A part sums to no more than the whole.
THEOREM SumPart ==
    ASSUME NEW f, NEW S, IsFiniteSet(S), NEW T \in SUBSET S, \A x \in S : f[x] \in Nat
    PROVE  SumFunctionOnSet(f, T) <= SumFunctionOnSet(f, S)
  <1>1. IsFiniteSet(T) /\ IsFiniteSet(S \ T)
    BY FS_Subset, FS_Difference
  <1>2. T \cup (S \ T) = S /\ T \cap (S \ T) = {}
    OBVIOUS
  <1>3. /\ SumFunctionOnSet(f, T) \in Nat
        /\ SumFunctionOnSet(f, S \ T) \in Nat
    BY <1>1, SumNat
  <1>4. SumFunctionOnSet(f, T \cup (S \ T)) = SumFunctionOnSet(f, T) + SumFunctionOnSet(f, S \ T)
    BY <1>1, <1>2, SumUnion
  <1>5. SumFunctionOnSet(f, T \cup (S \ T)) = SumFunctionOnSet(f, S)
    BY <1>2, Zenon
  <1>6. QED
    BY <1>3, <1>4, <1>5

\* What is summed twice, value by value.
THEOREM SumPlus ==
    ASSUME NEW f, NEW g, NEW h, NEW S, IsFiniteSet(S),
           \A x \in S : f[x] \in Int /\ g[x] \in Int /\ h[x] = f[x] + g[x]
    PROVE  SumFunctionOnSet(h, S) = SumFunctionOnSet(f, S) + SumFunctionOnSet(g, S)
  <1> DEFINE G == {U \in SUBSET S :
                      SumFunctionOnSet(h, U) = SumFunctionOnSet(f, U) + SumFunctionOnSet(g, U)}
  <1>1. {} \in G
    BY SumEmpty
  <1>2. ASSUME NEW U \in SUBSET S, NEW e \in S \ U, U \in G PROVE U \cup {e} \in G
    <2>1. IsFiniteSet(U)
      BY FS_Subset
    <2>2. \A x \in U \cup {e} : f[x] \in Int /\ g[x] \in Int /\ h[x] \in Int
      OBVIOUS
    <2>3. SumFunctionOnSet(f, U) \in Int /\ SumFunctionOnSet(g, U) \in Int
      BY <2>1, <2>2, SumInt
    <2>4. /\ SumFunctionOnSet(f, U \cup {e}) = f[e] + SumFunctionOnSet(f, U)
          /\ SumFunctionOnSet(g, U \cup {e}) = g[e] + SumFunctionOnSet(g, U)
          /\ SumFunctionOnSet(h, U \cup {e}) = h[e] + SumFunctionOnSet(h, U)
      BY <2>1, <2>2, SumAdd
    <2>5. SumFunctionOnSet(h, U) = SumFunctionOnSet(f, U) + SumFunctionOnSet(g, U)
      BY <1>2
    <2>6. h[e] = f[e] + g[e] /\ f[e] \in Int /\ g[e] \in Int
      OBVIOUS
    <2>7. SumFunctionOnSet(h, U \cup {e}) = SumFunctionOnSet(f, U \cup {e}) + SumFunctionOnSet(g, U \cup {e})
      BY <2>3, <2>4, <2>5, <2>6
    <2>8. QED
      BY <2>7
  <1>3. SUBSET S \subseteq G
    <2> HIDE DEF G
    <2>1. QED
      BY <1>1, <1>2, SubsetInduction
  <1>4. QED
    BY <1>3

\* Elements whose value is 0 may be left out.
THEOREM SumSupport ==
    ASSUME NEW f, NEW S, IsFiniteSet(S), NEW T \in SUBSET S,
           \A x \in T : f[x] \in Int, \A x \in S \ T : f[x] = 0
    PROVE  SumFunctionOnSet(f, S) = SumFunctionOnSet(f, T)
  <1> DEFINE G == {U \in SUBSET (S \ T) : SumFunctionOnSet(f, U) = 0}
  <1>1. IsFiniteSet(T) /\ IsFiniteSet(S \ T)
    BY FS_Subset, FS_Difference
  <1>2. {} \in G
    BY SumEmpty
  <1>3. ASSUME NEW U \in SUBSET (S \ T), NEW e \in (S \ T) \ U, U \in G PROVE U \cup {e} \in G
    <2>1. IsFiniteSet(U)
      BY <1>1, FS_Subset
    <2>2. \A x \in U \cup {e} : f[x] \in Int
      OBVIOUS
    <2>3. SumFunctionOnSet(f, U \cup {e}) = f[e] + SumFunctionOnSet(f, U)
      BY <2>1, <2>2, SumAdd
    <2>4. f[e] = 0 /\ SumFunctionOnSet(f, U) = 0
      BY <1>3
    <2>5. QED
      BY <2>3, <2>4
  <1>4. SumFunctionOnSet(f, S \ T) = 0
    <2>1. SUBSET (S \ T) \subseteq G
      <3> HIDE DEF G
      <3>1. QED
        BY <1>1, <1>2, <1>3, SubsetInduction
    <2>2. QED
      BY <2>1
  <1>5. SumFunctionOnSet(f, T \cup (S \ T)) = SumFunctionOnSet(f, T) + SumFunctionOnSet(f, S \ T)
    <2>1. \A x \in T \cup (S \ T) : f[x] \in Int
      OBVIOUS
    <2>2. T \cap (S \ T) = {}
      OBVIOUS
    <2>3. QED
      BY <1>1, <2>1, <2>2, SumUnion
  <1>6. SumFunctionOnSet(f, T \cup (S \ T)) = SumFunctionOnSet(f, S)
    <2>1. T \cup (S \ T) = S
      OBVIOUS
    <2>2. QED
      BY <2>1, Zenon
  <1>7. SumFunctionOnSet(f, T) \in Int
    BY <1>1, SumInt
  <1>8. QED
    BY <1>4, <1>5, <1>6, <1>7

\* A sum to which one element contributes at most.
THEOREM SumSingle ==
    ASSUME NEW f, NEW S, IsFiniteSet(S), NEW e \in S, f[e] \in Int,
           \A x \in S \ {e} : f[x] = 0
    PROVE  SumFunctionOnSet(f, S) = f[e]
  <1>1. SumFunctionOnSet(f, S) = SumFunctionOnSet(f, {e})
    BY SumSupport
  <1>2. SumFunctionOnSet(f, {} \cup {e}) = f[e] + SumFunctionOnSet(f, {})
    BY FS_EmptySet, SumAdd
  <1>3. {} \cup {e} = {e}
    OBVIOUS
  <1>4. SumFunctionOnSet(f, {} \cup {e}) = SumFunctionOnSet(f, {e})
    BY <1>3, Zenon
  <1>5. QED
    BY <1>1, <1>2, <1>4, SumEmpty

-----------------------------------------------------------------------------
\* Terms that are numbered in another way.
Renumbers(h, S, T) ==
    /\ h \in [S -> T]
    /\ \A i, j \in S : h[i] = h[j] => i = j
    /\ \A t \in T : \E i \in S : h[i] = t

SameTerms(f, S, g, h) == \A i \in S : f[i] \in Int /\ g[h[i]] = f[i]

\* A sum does not depend on how its terms are numbered.
LEMMA SumReindex ==
    ASSUME NEW f, NEW S, IsFiniteSet(S), NEW g, NEW T, NEW h,
           Renumbers(h, S, T), SameTerms(f, S, g, h)
    PROVE  SumFunctionOnSet(f, S) = SumFunctionOnSet(g, T)
  <1> USE DEF Renumbers, SameTerms
  <1> DEFINE Image(U) == {h[i] : i \in U}
             G == {U \in SUBSET S : IsFiniteSet(Image(U))
                                    /\ SumFunctionOnSet(f, U) = SumFunctionOnSet(g, Image(U))}
  <1>1. {} \in G
    <2>1. Image({}) = {}
      OBVIOUS
    <2>2. QED
      BY <2>1, SumEmpty, FS_EmptySet
  <1>2. ASSUME NEW U \in SUBSET S, NEW e \in S \ U, U \in G PROVE U \cup {e} \in G
    <2>1. Image(U \cup {e}) = Image(U) \cup {h[e]} /\ h[e] \notin Image(U)
      OBVIOUS
    <2>2. IsFiniteSet(U) /\ IsFiniteSet(Image(U)) /\ IsFiniteSet(Image(U) \cup {h[e]})
      BY <1>2, FS_Subset, FS_AddElement
    <2>3. \A t \in Image(U) \cup {h[e]} : g[t] \in Int
      OBVIOUS
    <2> HIDE DEF Image
    <2>4. SumFunctionOnSet(f, U \cup {e}) = f[e] + SumFunctionOnSet(f, U)
      BY <2>2, SumAdd
    <2>5. SumFunctionOnSet(g, Image(U) \cup {h[e]}) = g[h[e]] + SumFunctionOnSet(g, Image(U))
      BY <2>1, <2>2, <2>3, SumAdd
    <2>6. QED
      BY <1>2, <2>1, <2>2, <2>4, <2>5
  <1>3. S \in G
    <2>1. SUBSET S \subseteq G
      <3> HIDE DEF G
      <3>1. QED
        BY <1>1, <1>2, SubsetInduction
    <2>2. QED
      BY <2>1
  <1>4. Image(S) = T
    OBVIOUS
  <1>5. QED
    BY <1>3, <1>4

-----------------------------------------------------------------------------
\* Intervals.

\* The first n indices, without the last of them.
LEMMA LastIndex ==
    ASSUME NEW n \in Nat
    PROVE  1..(n + 1) # {} /\ Max(1..(n + 1)) = n + 1 /\ (1..(n + 1)) \ {n + 1} = 1..n
  <1>1. 1..(n + 1) \in SUBSET Nat /\ IsFiniteSet(1..(n + 1)) /\ 1..(n + 1) # {}
    <2>1. IsFiniteSet(1..(n + 1))
      <3>1. n + 1 \in Int /\ 1 \in Int
        OBVIOUS
      <3>2. QED
        BY <3>1, FS_Interval
    <2>2. 1 \in 1..(n + 1)
      OBVIOUS
    <2>3. QED
      BY <2>1, <2>2
  <1> DEFINE m == Max(1..(n + 1))
  <1>2. m \in 1..(n + 1) /\ \A k \in 1..(n + 1) : k <= m
    BY <1>1, GreatestNumber
  <1> HIDE DEF m
  <1>3. n + 1 \in 1..(n + 1)
    OBVIOUS
  <1>4. m = n + 1
    BY <1>2, <1>3
  <1>5. (1..(n + 1)) \ {n + 1} = 1..n
    OBVIOUS
  <1>6. QED
    BY <1>1, <1>4, <1>5 DEF m

\* The steps of a number add up to its change.
LEMMA SumOfSteps ==
    ASSUME NEW n \in Nat, NEW f, \A k \in 0..n : f[k] \in Int, NEW d, \A k \in 1..n : d[k] = f[k] - f[k - 1]
    PROVE  SumFunctionOnSet(d, 1..n) = f[n] - f[0]
  <1> DEFINE G == {k \in Nat : k <= n => SumFunctionOnSet(d, 1..k) = f[k] - f[0]}
  <1>1. 0 \in G
    <2>1. 1..0 = {}
      OBVIOUS
    <2>2. SumFunctionOnSet(d, 1..0) = 0
      BY <2>1, SumEmpty
    <2>3. f[0] \in Int
      OBVIOUS
    <2>4. QED
      BY <2>2, <2>3
  <1>2. ASSUME NEW k \in Nat, k \in G PROVE k + 1 \in G
    <2>1. SUFFICES ASSUME k + 1 <= n PROVE SumFunctionOnSet(d, 1..(k + 1)) = f[k + 1] - f[0]
      OBVIOUS
    <2>2. 1..(k + 1) = (1..k) \cup {k + 1} /\ k + 1 \notin 1..k
      OBVIOUS
    <2>3. IsFiniteSet(1..k)
      BY FS_Interval
    <2>4. \A i \in 1..(k + 1) : d[i] \in Int
      <3> SUFFICES ASSUME NEW i \in 1..(k + 1) PROVE d[i] \in Int
        OBVIOUS
      <3>1. i \in 1..n /\ i \in 0..n /\ i - 1 \in 0..n
        BY <2>1
      <3>2. QED
        BY <3>1
    <2> DEFINE S == 1..k
               e == k + 1
    <2>5. \A i \in S \cup {e} : d[i] \in Int
      BY <2>2, <2>4
    <2>6. IsFiniteSet(S) /\ e \notin S
      BY <2>2, <2>3
    <2>7. d[e] = f[e] - f[k] /\ f[k] \in Int /\ f[e] \in Int /\ f[0] \in Int
      <3>1. e \in 1..n /\ e \in 0..n /\ k \in 0..n /\ 0 \in 0..n /\ e - 1 = k
        BY <2>1
      <3>2. QED
        BY <3>1
    <2>8. SumFunctionOnSet(d, S) = f[k] - f[0]
      BY <1>2, <2>1
    <2> HIDE DEF S, e
    <2>9. SumFunctionOnSet(d, S \cup {e}) = d[e] + SumFunctionOnSet(d, S)
      BY <2>5, <2>6, SumAdd
    <2>10. SumFunctionOnSet(d, S \cup {e}) = f[e] - f[0]
      BY <2>7, <2>8, <2>9
    <2>11. QED
      BY <2>2, <2>10 DEF S, e
  <1> HIDE DEF G
  <1>3. \A k \in Nat : k \in G => k + 1 \in G
    BY <1>2
  <1>4. Nat \subseteq G
    BY <1>1, <1>3, NumberInduction
  <1>5. n \in G
    BY <1>4
  <1>6. QED
    BY <1>5 DEF G

-----------------------------------------------------------------------------
\* Sequences.

\* Induction up to a number.
LEMMA CountInduction ==
    ASSUME NEW l \in Nat, NEW G, 0 \in G, \A n \in 1..l : n - 1 \in G => n \in G
    PROVE  0..l \subseteq G
  <1> DEFINE P == {n \in Nat : n <= l => n \in G}
  <1>1. 0 \in P
    OBVIOUS
  <1>2. ASSUME NEW n \in Nat, n \in P PROVE n + 1 \in P
    <2> SUFFICES ASSUME n + 1 <= l PROVE n + 1 \in G
      OBVIOUS
    <2>1. QED
      BY <1>2
  <1>3. Nat \subseteq P
    <2> HIDE DEF P
    <2>1. QED
      BY <1>1, <1>2, NumberInduction
  <1>4. QED
    BY <1>3

\* A sum is the same from its other end.
LEMMA ReverseSum ==
    ASSUME NEW n \in Nat, NEW f, NEW g, \A k \in 1..n : f[k] \in Int /\ g[(n - k) + 1] = f[k]
    PROVE  SumFunctionOnSet(f, 1..n) = SumFunctionOnSet(g, 1..n)
  <1> DEFINE h == [k \in 1..n |-> (n - k) + 1]
             S == 1..n
  <1>1. Renumbers(h, S, S)
    <2>1. h \in [S -> S]
      OBVIOUS
    <2>2. \A i, j \in S : h[i] = h[j] => i = j
      OBVIOUS
    <2>3. ASSUME NEW t \in S PROVE \E i \in S : h[i] = t
      OBVIOUS
    <2> HIDE DEF h, S
    <2>4. QED
      BY <2>1, <2>2, <2>3 DEF Renumbers
  <1>2. SameTerms(f, S, g, h)
    BY DEF SameTerms
  <1>3. IsFiniteSet(S)
    BY FS_Interval
  <1> HIDE DEF h, S
  <1>4. QED
    BY <1>1, <1>2, <1>3, SumReindex DEF S

\* A function of the entries of a sequence is a sequence of the same length.
LEMMA MapSeq ==
    ASSUME NEW S, NEW f, NEW n \in Nat, DOMAIN f = 1..n, \A k \in 1..n : f[k] \in S, f = [k \in 1..n |-> f[k]]
    PROVE  f \in Seq(S) /\ Len(f) = n
  BY SeqDef, LenProperties

\* One entry and another, or none.
LEMMA PairIs ==
    ASSUME NEW p, NEW q
    PROVE  <<p>> \o <<q>> = <<p, q>> /\ <<p>> \o <<>> = <<p>>
  <1> DEFINE s == <<p>>
             t == <<q>>
  <1>1. s \in Seq({p, q}) /\ t \in Seq({p, q}) /\ Len(s) = 1 /\ Len(t) = 1 /\ s[1] = p /\ t[1] = q
    OBVIOUS
  <1>2. <<p, q>> \in Seq({p, q}) /\ Len(<<p, q>>) = 2 /\ <<p, q>>[1] = p /\ <<p, q>>[2] = q
    OBVIOUS
  <1> HIDE DEF s, t
  <1>3. /\ s \o t \in Seq({p, q}) /\ Len(s \o t) = Len(s) + Len(t)
        /\ \A i \in 1..(Len(s) + Len(t)) : (s \o t)[i] = IF i <= Len(s) THEN s[i] ELSE t[i - Len(s)]
    BY <1>1, ConcatProperties
  <1>4. Len(s \o t) = 2 /\ (s \o t)[1] = p /\ (s \o t)[2] = q
    BY <1>1, <1>3
  <1>5. \A i \in 1..Len(s \o t) : (s \o t)[i] = <<p, q>>[i]
    BY <1>2, <1>4
  <1>6. s \o t = <<p, q>>
    BY <1>2, <1>3, <1>4, <1>5, SeqEqual
  <1>7. QED
    BY <1>6, ConcatEmptySeq DEF s, t

\* One more at the front
LEMMA FrontAnd ==
    ASSUME NEW S, NEW e \in S, NEW s \in Seq(S)
    PROVE  /\ <<e>> \o s \in Seq(S) /\ 1 \in DOMAIN (<<e>> \o s) /\ (<<e>> \o s)[1] = e
           /\ \A j \in DOMAIN (<<e>> \o s) \ {1} : j - 1 \in DOMAIN s /\ (<<e>> \o s)[j] = s[j - 1]
  <1> DEFINE t == <<e>> \o s
  <1>1. t \in Seq(S) /\ Len(t) = 1 + Len(s) /\ \A j \in 1..Len(t) : t[j] = IF j <= 1 THEN <<e>>[j] ELSE s[j - 1]
    OBVIOUS
  <1>2. Len(s) \in Nat /\ DOMAIN s = 1..Len(s) /\ DOMAIN t = 1..Len(t)
    BY <1>1, LenProperties
  <1> HIDE DEF t
  <1>3. ASSUME NEW j \in DOMAIN t \ {1} PROVE j - 1 \in DOMAIN s /\ t[j] = s[j - 1]
    BY <1>1, <1>2
  <1>4. QED
    BY <1>1, <1>3, <1>2 DEF t

\* What is in two sequences joined is what is in one of them.
LEMMA JoinedSet ==
    ASSUME NEW S, NEW s \in Seq(S), NEW t \in Seq(S)
    PROVE  s \o t \in Seq(S) /\ ToSet(s \o t) = ToSet(s) \cup ToSet(t)
  <1>1. /\ s \o t \in Seq(S) /\ Len(s \o t) = Len(s) + Len(t)
        /\ \A i \in 1..(Len(s) + Len(t)) : (s \o t)[i] = IF i <= Len(s) THEN s[i] ELSE t[i - Len(s)]
    BY ConcatProperties
  <1>2. /\ Len(s) \in Nat /\ Len(t) \in Nat
        /\ DOMAIN s = 1..Len(s) /\ DOMAIN t = 1..Len(t) /\ DOMAIN (s \o t) = 1..(Len(s) + Len(t))
    BY <1>1, LenProperties
  <1>3. ASSUME NEW k \in 1..Len(s) PROVE s[k] \in ToSet(s \o t)
    BY <1>1, <1>2 DEF ToSet
  <1>4. ASSUME NEW k \in 1..Len(t) PROVE t[k] \in ToSet(s \o t)
    <2>1. Len(s) + k \in 1..(Len(s) + Len(t)) /\ ~(Len(s) + k <= Len(s)) /\ (Len(s) + k) - Len(s) = k
      BY <1>2
    <2>2. QED
      BY <1>2, <2>1, <1>1 DEF ToSet
  <1>5. ToSet(s \o t) \subseteq ToSet(s) \cup ToSet(t)
    BY ConcatProperties, LenProperties DEF ToSet
  <1>6. QED
    BY <1>1, <1>2, <1>3, <1>4, <1>5 DEF ToSet

\* A set as a sequence.
LEMMA SetToSeqIs ==
    ASSUME NEW S, IsFiniteSet(S)
    PROVE  /\ SetToSeq(S) \in Seq(S) /\ Len(SetToSeq(S)) = Cardinality(S)
           /\ \A j, k \in DOMAIN SetToSeq(S) : SetToSeq(S)[j] = SetToSeq(S)[k] => j = k
           /\ \A e \in S : \E k \in DOMAIN SetToSeq(S) : SetToSeq(S)[k] = e
  <1> DEFINE n == Cardinality(S)
             s == SetToSeq(S)
  <1>1. n \in Nat
    BY FS_CardinalityType
  <1>2. IsFiniteSet(1..n) /\ Cardinality(1..n) = n
    BY <1>1, FS_Interval
  <1>3. PICK t : t \in [1..n -> S] /\ IsInjective(t)
    BY FS_CardinalityType DEF ExistsBijection, Bijection, Injection
  <1>4. s \in [1..n -> S] /\ IsInjective(s)
    <2>1. s = CHOOSE f \in [1..n -> S] : IsInjective(f)
      BY DEF SetToSeq
    <2> HIDE DEF s
    <2>2. QED
      BY <1>3, <2>1
  <1> HIDE DEF s, n
  <1>5. s \in Surjection(1..n, S)
    BY <1>4, <1>2, FS_Injection DEF Injection, n
  <1>6. s \in Seq(S) /\ Len(s) = n
    BY <1>4, <1>1, MapSeq
  <1>7. QED
    BY <1>4, <1>5, <1>6 DEF s, n, IsInjective, Surjection

\* The least first.
Rises(t, f) == \A j, k \in DOMAIN t : j < k => f[t[j]] <= f[t[k]]

\* Every finite sequence can be sorted: the choice that is made in sorting has a witness.
LEMMA SortExists ==
    ASSUME NEW S, IsFiniteSet(S), NEW f \in [S -> Nat]
    PROVE  \E t \in Bijection(1..Cardinality(S), S) : Rises(t, f)
  <1> DEFINE Sorts(T, t) == t \in [1..Cardinality(T) -> T] /\ IsInjective(t) /\ Rises(t, f)
             G == {n \in Nat : \A T \in SUBSET S : Cardinality(T) = n => \E t : Sorts(T, t)}
  <1>1. \A T \in SUBSET S : IsFiniteSet(T) /\ Cardinality(T) \in Nat
    BY FS_Subset, FS_CardinalityType
  <1>2. 0 \in G
    <2> SUFFICES ASSUME NEW T \in SUBSET S, Cardinality(T) = 0 PROVE \E t : Sorts(T, t)
      OBVIOUS
    <2> DEFINE s == [k \in 1..0 |-> k]
    <2>1. Sorts(T, s)
      BY DEF IsInjective, Rises
    <2>2. QED
      BY <2>1
  <1>3. ASSUME NEW n \in Nat, n \in G PROVE n + 1 \in G
    <2> SUFFICES ASSUME NEW T \in SUBSET S, Cardinality(T) = n + 1 PROVE \E t : Sorts(T, t)
      OBVIOUS
    <2>1. T # {} /\ IsFiniteSet(T)
      BY <1>1, FS_EmptySet
    <2>2. PICK m \in T : \A u \in T : f[u] <= f[m]
      <3> DEFINE V == {f[u] : u \in T}
      <3>1. V \in SUBSET Nat /\ V # {}
        BY <2>1
      <3>2. IsFiniteSet(V)
        <4> DEFINE e == [u \in T |-> f[u]]
        <4>1. e \in Surjection(T, V)
          BY DEF Surjection
        <4> HIDE DEF e, V
        <4>2. QED
          BY <2>1, <4>1, FS_Surjection
      <3>3. Max(V) \in V /\ \A v \in V : v <= Max(V)
        <4> HIDE DEF V
        <4>1. QED
          BY <3>1, <3>2, GreatestNumber
      <3>4. PICK m \in T : f[m] = Max(V)
        BY <3>3
      <3>5. QED
        BY <3>3, <3>4
    <2> DEFINE U == T \ {m}
    <2>3. Cardinality(U) = n /\ U \in SUBSET S
      <3>1. Cardinality(U) = Cardinality(T) - 1
        BY <2>1, FS_RemoveElement
      <3>2. QED
        BY <3>1
    <2>4. PICK t : Sorts(U, t)
      BY <1>3, <2>3
    <2>5. /\ t \in [1..n -> U]
          /\ \A j, k \in 1..n : t[j] = t[k] => j = k
          /\ \A j, k \in 1..n : j < k => f[t[j]] <= f[t[k]]
      BY <2>3, <2>4 DEF IsInjective, Rises
    <2> DEFINE s == [k \in 1..(n + 1) |-> IF k = n + 1 THEN m ELSE t[k]]
    <2>6. \A k \in 1..(n + 1) : k # n + 1 => k \in 1..n
      OBVIOUS
    <2>7. s \in [1..(n + 1) -> T] /\ DOMAIN s = 1..(n + 1)
      BY <2>5, <2>6
    <2>8. \A k \in 1..(n + 1) : IF k = n + 1 THEN s[k] = m ELSE k \in 1..n /\ s[k] = t[k] /\ s[k] \in U
      BY <2>5, <2>6
    <2> HIDE DEF s
    <2>9. IsInjective(s)
      <3> SUFFICES ASSUME NEW j \in 1..(n + 1), NEW k \in 1..(n + 1), s[j] = s[k] PROVE j = k
        BY <2>7 DEF IsInjective
      <3>1. m \notin U
        OBVIOUS
      <3> HIDE DEF U
      <3>2. CASE j = n + 1
        BY <2>8, <3>1, <3>2
      <3>3. CASE j # n + 1
        BY <2>8, <3>1, <3>3, <2>5
      <3>4. QED
        BY <3>2, <3>3
    <2>10. Rises(s, f)
      <3> SUFFICES ASSUME NEW j \in 1..(n + 1), NEW k \in 1..(n + 1), j < k PROVE f[s[j]] <= f[s[k]]
        BY <2>7 DEF Rises
      <3>1. j # n + 1
        OBVIOUS
      <3>2. CASE k = n + 1
        BY <2>8, <3>1, <3>2, <2>2
      <3>3. CASE k # n + 1
        BY <2>5, <2>8, <3>1, <3>3
      <3>4. QED
        BY <3>2, <3>3
    <2>11. Sorts(T, s)
      BY <2>7, <2>9, <2>10
    <2> HIDE DEF Sorts
    <2>12. QED
      BY <2>11
  <1>4. Nat \subseteq G
    <2> HIDE DEF G
    <2>1. QED
      BY <1>2, <1>3, NumberInduction
  <1>5. PICK t : Sorts(S, t)
    BY <1>1, <1>4
  <1>6. t \in Injection(1..Cardinality(S), S)
    BY <1>5 DEF Injection
  <1>7. QED
    BY <1>5, <1>6, <1>1, FS_Injection, FS_Interval DEF Bijection

\* Numbers up to n that rise from one to the next, n of them, are all of them.
LEMMA RisingStays ==
    ASSUME NEW n \in Nat, NEW p \in [1..n -> 1..n], \A j, k \in 1..n : j < k => p[j] < p[k]
    PROVE  \A k \in 1..n : p[k] = k
  <1> DEFINE Up == {m \in 0..n : m = 0 \/ p[m] >= m}
             Down == {m \in 0..n : m = 0 \/ p[(n - m) + 1] <= (n - m) + 1}
  <1>1. \A k \in 1..n : p[k] \in 1..n
    OBVIOUS
  <1>2. 0..n \subseteq Up
    <2>1. 0 \in Up
      OBVIOUS
    <2>2. ASSUME NEW m \in 1..n, m - 1 \in Up PROVE m \in Up
      BY <1>1, <2>2
    <2> HIDE DEF Up
    <2>3. QED
      BY <2>1, <2>2, CountInduction
  <1>3. 0..n \subseteq Down
    <2>1. 0 \in Down
      OBVIOUS
    <2>2. ASSUME NEW m \in 1..n, m - 1 \in Down PROVE m \in Down
      <3> DEFINE k == (n - m) + 1
      <3>1. k \in 1..n /\ (n - (m - 1)) + 1 = k + 1
        OBVIOUS
      <3>2. p[k] \in 1..n
        BY <1>1, <3>1
      <3>3. p[k] <= k
        <4>1. CASE m = 1
          BY <4>1, <3>2
        <4>2. CASE m # 1
          <5>1. m - 1 # 0 /\ k + 1 \in 1..n
            BY <4>2
          <5>2. p[k + 1] <= k + 1
            BY <2>2, <3>1, <5>1
          <5> HIDE DEF k
          <5>3. QED
            BY <3>1, <3>2, <5>2, <1>1, <5>1
        <4>3. QED
          BY <4>1, <4>2
      <3>4. QED
        BY <3>3
    <2> HIDE DEF Down
    <2>3. QED
      BY <2>1, <2>2, CountInduction
  <1>4. ASSUME NEW k \in 1..n PROVE p[k] = k
    <2>1. p[k] >= k
      BY <1>2
    <2> DEFINE m == (n - k) + 1
    <2>2. m \in 1..n /\ m \in 0..n /\ m # 0 /\ (n - m) + 1 = k
      OBVIOUS
    <2>3. p[(n - m) + 1] <= (n - m) + 1
      BY <2>2, <1>3
    <2> HIDE DEF m
    <2>4. QED
      BY <1>1, <2>1, <2>2, <2>3
  <1>5. QED
    BY <1>4

\* The function by which FlattenSeq puts together, up to each of the sequences
IsFlat(f, ss) == f = [i \in 1..Len(ss) |-> IF i = 1 THEN ss[i] ELSE f[i - 1] \o ss[i]]

\* The function that FlattenSeq is chosen as exists.
LEMMA FlatExists ==
    ASSUME NEW ss, Len(ss) \in Nat
    PROVE  \E f : IsFlat(f, ss)
  <1> DEFINE Step(f, i) == IF i = 1 THEN ss[i] ELSE f[i - 1] \o ss[i]
             Upto(f, n) == \A i \in 1..n : f[i] = Step(f, i)
             G == {n \in Nat : \E f : Upto(f, n)}
  <1>1. 0 \in G
    OBVIOUS
  <1>2. ASSUME NEW n \in Nat, n \in G PROVE n + 1 \in G
    <2>1. PICK f : Upto(f, n)
      BY <1>2
    <2> DEFINE h == [i \in 1..(n + 1) |-> IF i = n + 1 THEN Step(f, i) ELSE f[i]]
    <2>2. \A i \in 1..n : h[i] = f[i]
      OBVIOUS
    <2>3. \A i \in 1..(n + 1) : i # 1 => i - 1 \in 1..n
      OBVIOUS
    <2>4. \A i \in 1..(n + 1) : h[i] = Step(f, i)
      BY <2>1
    <2> HIDE DEF h
    <2>5. QED
      BY <2>4, <2>2, <2>3
  <1>3. PICK f : Upto(f, Len(ss))
    <2>1. Nat \subseteq G
      <3> HIDE DEF G
      <3>1. QED
        BY <1>1, <1>2, NumberInduction
    <2>2. QED
      BY <2>1
  <1> DEFINE h == [i \in 1..Len(ss) |-> f[i]]
  <1>4. \A i \in 1..Len(ss) : h[i] = f[i] /\ (i # 1 => h[i - 1] = f[i - 1])
    OBVIOUS
  <1>5. h = [i \in 1..Len(ss) |-> h[i]]
    OBVIOUS
  <1>6. \A i \in 1..Len(ss) : h[i] = IF i = 1 THEN ss[i] ELSE h[i - 1] \o ss[i]
    <2> HIDE DEF h
    <2>1. QED
      BY <1>3, <1>4
  <1>7. IsFlat(h, ss)
    <2> HIDE DEF h
    <2>1. QED
      BY <1>5, <1>6 DEF IsFlat
  <1>8. QED
    BY <1>7

\* A sequence that is not empty is put together from the first on.
LEMMA FlatSteps ==
    ASSUME NEW ss, Len(ss) \in Nat, Len(ss) # 0
    PROVE  \E f : /\ \A i \in 1..Len(ss) : f[i] = IF i = 1 THEN ss[i] ELSE f[i - 1] \o ss[i]
                  /\ FlattenSeq(ss) = f[Len(ss)]
  <1> DEFINE f == CHOOSE g : IsFlat(g, ss)
  <1>1. FlattenSeq(ss) = f[Len(ss)]
    BY DEF FlattenSeq, IsFlat
  <1>2. IsFlat(f, ss)
    BY FlatExists
  <1> HIDE DEF f
  <1>3. QED
    BY <1>1, <1>2 DEF IsFlat

\* Induction over a sequence of sequences: G has what is put together of the
\* first n of them.
LEMMA FlatInduction ==
    ASSUME NEW S, NEW ss \in Seq(Seq(S)), NEW G,
           <<0, <<>>>> \in G,
           \A n \in 1..Len(ss) : \A s \in Seq(S) : <<n - 1, s>> \in G => <<n, s \o ss[n]>> \in G
    PROVE  <<Len(ss), FlattenSeq(ss)>> \in G /\ FlattenSeq(ss) \in Seq(S)
  <1>1. Len(ss) \in Nat /\ DOMAIN ss = 1..Len(ss) /\ \A k \in 1..Len(ss) : ss[k] \in Seq(S)
    BY LenProperties
  <1>2. CASE Len(ss) = 0
    BY <1>2, EmptySeq DEF FlattenSeq
  <1>3. CASE Len(ss) # 0
    <2>1. PICK f : /\ \A i \in 1..Len(ss) : f[i] = IF i = 1 THEN ss[i] ELSE f[i - 1] \o ss[i]
                   /\ FlattenSeq(ss) = f[Len(ss)]
      BY <1>1, <1>3, FlatSteps
    <2> DEFINE D == {n \in Nat : n + 1 <= Len(ss) => f[n + 1] \in Seq(S) /\ <<n + 1, f[n + 1]>> \in G}
    <2>2. 0 \in D
      <3>1. 1 \in 1..Len(ss)
        BY <1>1, <1>3
      <3>2. f[1] = ss[1] /\ ss[1] \in Seq(S)
        BY <1>1, <2>1, <3>1
      <3>3. <<>> \o ss[1] = ss[1] /\ <<>> \in Seq(S)
        BY <3>2, ConcatEmptySeq, EmptySeq
      <3>4. <<1, ss[1]>> \in G
        <4>1. <<1 - 1, <<>>>> \in G
          OBVIOUS
        <4>2. QED
          BY <3>3, <3>1, <4>1
      <3>5. 0 + 1 = 1
        OBVIOUS
      <3>6. QED
        BY <3>2, <3>4, <3>5
    <2>3. ASSUME NEW n \in Nat, n \in D PROVE n + 1 \in D
      <3> SUFFICES ASSUME n + 2 <= Len(ss) PROVE f[n + 2] \in Seq(S) /\ <<n + 2, f[n + 2]>> \in G
        OBVIOUS
      <3>1. n + 2 \in 1..Len(ss) /\ n + 2 # 1 /\ (n + 2) - 1 = n + 1 /\ n + 1 <= Len(ss)
        BY <1>1
      <3>2. f[n + 1] \in Seq(S) /\ <<n + 1, f[n + 1]>> \in G
        BY <2>3, <3>1
      <3>3. <<n + 2, f[n + 1] \o ss[n + 2]>> \in G
        BY <3>1, <3>2
      <3>4. QED
        BY <3>2, <3>3, <2>1, <3>1, <1>1, ConcatProperties
    <2>4. Nat \subseteq D
      <3> HIDE DEF D
      <3>1. QED
        BY <2>2, <2>3, NumberInduction
    <2> DEFINE m == Len(ss) - 1
    <2>5. m \in Nat /\ m + 1 = Len(ss)
      BY <1>1, <1>3
    <2> HIDE DEF m
    <2>6. QED
      BY <2>1, <2>5, <2>4, <1>1
  <1>4. QED
    BY <1>2, <1>3

\* Nothing is added, and nothing lost.
LEMMA FlatType ==
    ASSUME NEW S, NEW ss \in Seq(Seq(S))
    PROVE  /\ FlattenSeq(ss) \in Seq(S)
           /\ ToSet(FlattenSeq(ss)) = UNION {ToSet(ss[k]) : k \in DOMAIN ss}
  <1> DEFINE Upto(n) == UNION {ToSet(ss[k]) : k \in 1..n}
             G == {p \in Nat \X Seq(S) : ToSet(p[2]) = Upto(p[1])}
  <1>1. Len(ss) \in Nat /\ DOMAIN ss = 1..Len(ss) /\ \A k \in 1..Len(ss) : ss[k] \in Seq(S)
    BY LenProperties
  <1>2. <<0, <<>>>> \in G
    <2>1. ToSet(<<>>) = {} /\ Upto(0) = {}
      BY DEF ToSet
    <2>2. <<>> \in Seq(S)
      BY EmptySeq
    <2> HIDE DEF Upto
    <2>3. QED
      BY <2>1, <2>2
  <1>3. ASSUME NEW n \in 1..Len(ss), NEW s \in Seq(S), <<n - 1, s>> \in G
        PROVE  <<n, s \o ss[n]>> \in G
    <2>1. ToSet(s) = Upto(n - 1)
      BY <1>3
    <2>2. ss[n] \in Seq(S)
      BY <1>1
    <2>3. ToSet(s \o ss[n]) = ToSet(s) \cup ToSet(ss[n])
      <3>1. Range(s \o ss[n]) = Range(s) \cup Range(ss[n])
        BY <2>2, RangeConcatenation
      <3>2. QED
        BY <3>1 DEF Range, ToSet
    <2>4. Upto(n) = Upto(n - 1) \cup ToSet(ss[n])
      BY <1>1
    <2>5. s \o ss[n] \in Seq(S) /\ n \in Nat
      BY <1>1, <2>2, ConcatProperties
    <2> HIDE DEF Upto
    <2>6. QED
      BY <2>1, <2>3, <2>4, <2>5
  <1>4. <<Len(ss), FlattenSeq(ss)>> \in G /\ FlattenSeq(ss) \in Seq(S)
    <2> HIDE DEF G
    <2>1. QED
      BY <1>2, <1>3, FlatInduction
  <1>5. QED
    BY <1>1, <1>4

\* Sequences of one element put together.
LEMMA FlatSingles ==
    ASSUME NEW S, NEW ss \in Seq(Seq(S)), \A k \in 1..Len(ss) : Len(ss[k]) = 1
    PROVE  /\ Len(FlattenSeq(ss)) = Len(ss)
           /\ \A k \in 1..Len(ss) : FlattenSeq(ss)[k] = ss[k][1]
  <1> DEFINE l == Len(ss)
             Good(n, s) == Len(s) = n /\ \A k \in 1..n : s[k] = ss[k][1]
             G == {q \in (0..l) \X Seq(S) : Good(q[1], q[2])}
  <1>1. l \in Nat /\ DOMAIN ss = 1..l /\ \A k \in 1..l : ss[k] \in Seq(S)
    BY LenProperties
  <1>2. <<0, <<>>>> \in G
    <2>1. <<>> \in Seq(S) /\ 0 \in 0..l
      BY <1>1, EmptySeq
    <2>2. Good(0, <<>>)
      BY EmptySeq
    <2> HIDE DEF Good, l
    <2>3. QED
      BY <2>1, <2>2
  <1>3. ASSUME NEW n \in 1..l, NEW s \in Seq(S), <<n - 1, s>> \in G PROVE <<n, s \o ss[n]>> \in G
    <2> DEFINE r == ss[n]
               t == s \o r
    <2>1. Len(s) = n - 1 /\ \A k \in 1..(n - 1) : s[k] = ss[k][1]
      BY <1>3
    <2>2. r \in Seq(S) /\ Len(r) = 1
      BY <1>1
    <2> HIDE DEF r
    <2>3. t \in Seq(S) /\ Len(t) = Len(s) + Len(r)
          /\ \A i \in 1..(Len(s) + Len(r)) : t[i] = IF i <= Len(s) THEN s[i] ELSE r[i - Len(s)]
      BY <2>2, ConcatProperties
    <2> HIDE DEF t, l
    <2>4. n \in Nat /\ n \in 0..l /\ (n - 1) + 1 = n
      BY <1>1
    <2>5. ASSUME NEW k \in 1..n PROVE t[k] = ss[k][1]
      <3>1. CASE k <= n - 1
        BY <2>1, <2>2, <2>4, <3>1, <2>3
      <3>2. CASE k = n
        BY <2>1, <2>2, <2>4, <2>3, <3>2 DEF r
      <3>3. QED
        BY <2>4, <3>1, <3>2
    <2>6. Good(n, t)
      BY <2>5, <2>1, <2>2, <2>3, <2>4
    <2> HIDE DEF Good
    <2>7. QED
      BY <2>3, <2>4, <2>6 DEF t, r
  <1>4. <<l, FlattenSeq(ss)>> \in G
    <2> HIDE DEF G
    <2>1. QED
      BY <1>2, <1>3, FlatInduction
  <1>5. QED
    BY <1>4
=============================================================================
