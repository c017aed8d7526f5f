----------------------- MODULE PlatformBuilder_proofs -----------------------
(***************************************************************************)
(* What the transactions of the P-chain builder are, for all calls, funds, *)
(* assets and answers of the spender that keep its contract: they burn the *)
(* fee and nothing else, the amount goes where the caller wants it, and    *)
(* what they are signed for comes in the order in which they are           *)
(* serialised.                                                             *)
(***************************************************************************)
EXTENDS PlatformBuilder, SumTheorems, SequenceTheorems

-----------------------------------------------------------------------------
\* Inputs in the order of their ids.

InOrder(s) == \A j, k \in DOMAIN s : j < k => s[j].id < s[k].id

Distinct(S) == \A u, v \in S : u.id = v.id => u = v

\* A finite set of inputs that is not empty has one with the greatest id.
LEMMA GreatestId ==
    ASSUME NEW S \in SUBSET Input, IsFiniteSet(S), S # {}
    PROVE  \E m \in S : \A u \in S : u.id <= m.id
  <1> DEFINE Bounded(T) == \E m \in T : \A u \in T : u.id <= m.id
             G == {T \in SUBSET S : T # {} => Bounded(T)}
  <1>1. {} \in G
    OBVIOUS
  <1>2. ASSUME NEW T \in SUBSET S, NEW x \in S \ T, T \in G PROVE T \cup {x} \in G
    <2>1. CASE T = {}
      <3>1. x \in T \cup {x} /\ \A u \in T \cup {x} : u.id <= x.id
        BY <2>1 DEF Input
      <3>2. QED
        BY <3>1
    <2>2. CASE T # {}
      <3>1. PICK m \in T : \A u \in T : u.id <= m.id
        BY <1>2, <2>2
      <3>2. \A u \in T \cup {x} : u.id \in Nat
        BY DEF Input
      <3>3. CASE x.id <= m.id
        BY <3>1, <3>3
      <3>4. CASE ~(x.id <= m.id)
        <4>1. \A u \in T \cup {x} : u.id <= x.id
          BY <3>1, <3>2, <3>4
        <4>2. QED
          BY <4>1
      <3>5. QED
        BY <3>3, <3>4
    <2>3. QED
      BY <2>1, <2>2
  <1>3. SUBSET S \subseteq G
    <2> HIDE DEF G
    <2>1. QED
      BY <1>1, <1>2, SubsetInduction
  <1>4. QED
    BY <1>3

Orders(S) == {s \in [1..Cardinality(S) -> S] : InOrder(s)}

\* Every finite set of inputs can be brought in order.
LEMMA OrderExists ==
    ASSUME NEW S \in SUBSET Input, IsFiniteSet(S), Distinct(S)
    PROVE  Orders(S) # {}
  <1> DEFINE G == {n \in Nat : \A T \in SUBSET S : Cardinality(T) = n => Orders(T) # {}}
  <1>0. \A T \in SUBSET S : IsFiniteSet(T) /\ Cardinality(T) \in Nat
    BY FS_Subset, FS_CardinalityType
  <1>1. 0 \in G
    <2> SUFFICES ASSUME NEW T \in SUBSET S, Cardinality(T) = 0 PROVE Orders(T) # {}
      OBVIOUS
    <2> DEFINE s == [k \in 1..0 |-> k]
    <2>1. 1..0 = {}
      OBVIOUS
    <2>2. s \in [1..Cardinality(T) -> T] /\ InOrder(s)
      BY <2>1 DEF InOrder
    <2>3. QED
      BY <2>2 DEF Orders
  <1>2. ASSUME NEW n \in Nat, n \in G PROVE n + 1 \in G
    <2> SUFFICES ASSUME NEW T \in SUBSET S, Cardinality(T) = n + 1 PROVE Orders(T) # {}
      OBVIOUS
    <2>1. T # {} /\ IsFiniteSet(T) /\ T \in SUBSET Input
      BY <1>0, FS_EmptySet
    <2>2. PICK m \in T : \A u \in T : u.id <= m.id
      BY <2>1, GreatestId
    <2> DEFINE U == T \ {m}
    <2>3. Cardinality(U) = n /\ U \in SUBSET S
      <3>1. Cardinality(U) = Cardinality(T) - 1
        BY <2>1, FS_RemoveElement
      <3>2. QED
        BY <3>1
    <2>4. PICK t \in Orders(U) : TRUE
      BY <1>2, <2>3
    <2>5. t \in [1..n -> U] /\ \A j, k \in 1..n : j < k => t[j].id < t[k].id
      BY <2>3, <2>4 DEF Orders, InOrder
    <2> DEFINE s == [k \in 1..(n + 1) |-> IF k = n + 1 THEN m ELSE t[k]]
    <2>6. \A k \in 1..(n + 1) : k # n + 1 => k \in 1..n
      OBVIOUS
    <2>7. s \in [1..(n + 1) -> T]
      BY <2>5, <2>6
    <2>8. \A u \in U : u.id < m.id
      <3> SUFFICES ASSUME NEW u \in U PROVE u.id < m.id
        OBVIOUS
      <3>1. u \in S /\ m \in S /\ u # m
        OBVIOUS
      <3>2. u.id # m.id /\ u.id \in Nat /\ m.id \in Nat
        BY <3>1 DEF Distinct, Input
      <3>3. QED
        BY <2>2, <3>2
    <2>9. InOrder(s)
      <3> SUFFICES ASSUME NEW j \in 1..(n + 1), NEW k \in 1..(n + 1), j < k
                   PROVE  s[j].id < s[k].id
        BY DEF InOrder
      <3>1. j \in 1..n /\ s[j] = t[j] /\ t[j] \in U
        BY <2>5
      <3>2. CASE k = n + 1
        BY <2>8, <3>1, <3>2
      <3>3. CASE k # n + 1
        BY <2>5, <2>6, <3>1, <3>3
      <3>4. QED
        BY <3>2, <3>3
    <2> HIDE DEF s
    <2>10. QED
      BY <2>7, <2>9 DEF Orders
  <1>3. Nat \subseteq G
    <2> HIDE DEF G
    <2>1. QED
      BY <1>1, <1>2, NumberInduction
  <1>4. QED
    BY <1>0, <1>3

\* What the sort makes of a set of inputs.
LEMMA SortedFacts ==
    ASSUME NEW S \in SUBSET Input, IsFiniteSet(S), Distinct(S)
    PROVE  /\ Sorted(S) \in [1..Cardinality(S) -> S] /\ Cardinality(S) \in Nat
           /\ Sorted(S) \in Seq(S) /\ Len(Sorted(S)) = Cardinality(S)
           /\ ToSet(Sorted(S)) = S
  <1> DEFINE n == Cardinality(S)
             s == Sorted(S)
  <1>1. s \in [1..n -> S] /\ InOrder(s)
    <2>1. s = CHOOSE t \in [1..n -> S] : InOrder(t)
      BY DEF Sorted, InOrder
    <2>2. \E t \in [1..n -> S] : InOrder(t)
      BY OrderExists DEF Orders
    <2>3. QED
      BY <2>1, <2>2
  <1>2. n \in Nat
    BY FS_CardinalityType
  <1>3. IsFiniteSet(1..n) /\ Cardinality(1..n) = n
    BY <1>2, FS_Interval
  <1> HIDE DEF n, s
  <1>4. s \in Injection(1..n, S)
    <2>1. \A j, k \in 1..n : j # k => s[j] # s[k]
      <3> SUFFICES ASSUME NEW j \in 1..n, NEW k \in 1..n, j < k PROVE s[j] # s[k]
        BY <1>2
      <3>1. s[j].id < s[k].id /\ s[j].id \in Nat /\ s[k].id \in Nat
        BY <1>1 DEF InOrder, Input
      <3>2. QED
        BY <3>1
    <2>2. QED
      BY <1>1, <2>1 DEF Injection, IsInjective
  <1>5. s \in Surjection(1..n, S)
    BY <1>3, <1>4, FS_Injection DEF n
  <1>6. ToSet(s) = S
    BY <1>1, <1>5 DEF Surjection, ToSet
  <1>7. s \in Seq(S) /\ Len(s) = n
    <2>1. s \in Seq(S)
      BY <1>1, <1>2, SeqDef
    <2>2. DOMAIN s = 1..Len(s) /\ Len(s) \in Nat /\ DOMAIN s = 1..n
      BY <1>1, <2>1, LenProperties
    <2>3. Len(s) = n
      <3>1. Len(s) < n => n \in 1..n /\ n \notin 1..Len(s)
        BY <1>2, <2>2
      <3>2. n < Len(s) => Len(s) \in 1..Len(s) /\ Len(s) \notin 1..n
        BY <1>2, <2>2
      <3>3. ~(Len(s) < n) /\ ~(n < Len(s))
        BY <2>2, <3>1, <3>2
      <3>4. Len(s) \in Nat
        BY <2>2
      <3>5. QED
        BY <1>2, <3>3, <3>4
    <2>4. QED
      BY <2>1, <2>3
  <1>8. QED
    BY <1>1, <1>2, <1>6, <1>7 DEF n, s

-----------------------------------------------------------------------------
\* What inputs hold.

LEMMA TotalIs ==
    ASSUME NEW S, NEW a \in Asset
    PROVE  Total(S)[a] = SumFunctionOnSet([u \in S |-> u.amount], {u \in S : u.asset = a})
  BY DEF Total

LEMMA TotalNat ==
    ASSUME NEW S \in SUBSET Input, IsFiniteSet(S)
    PROVE  Total(S) \in [Asset -> Nat]
  <1> SUFFICES ASSUME NEW a \in Asset PROVE Total(S)[a] \in Nat
    BY DEF Total
  <1> DEFINE T == {u \in S : u.asset = a}
             f == [u \in S |-> u.amount]
  <1>1. IsFiniteSet(T) /\ \A u \in T : f[u] \in Nat
    BY FS_Subset DEF Input
  <1> HIDE DEF T, f
  <1>2. SumFunctionOnSet(f, T) \in Nat
    BY <1>1, SumNat
  <1>3. QED
    BY <1>2, TotalIs DEF T, f

LEMMA TotalNone ==
    ASSUME NEW S, NEW a \in Asset, \A u \in S : u.asset # a
    PROVE  Total(S)[a] = 0
  <1>1. {u \in S : u.asset = a} = {}
    OBVIOUS
  <1>2. SumFunctionOnSet([u \in S |-> u.amount], {u \in S : u.asset = a})
            = SumFunctionOnSet([u \in S |-> u.amount], {})
    BY <1>1, Zenon
  <1>3. QED
    BY <1>2, SumEmpty, TotalIs

LEMMA TotalAdd ==
    ASSUME NEW S \in SUBSET Input, IsFiniteSet(S), NEW v \in Input \ S, NEW a \in Asset
    PROVE  Total(S \cup {v})[a] = Total(S)[a] + (IF v.asset = a THEN v.amount ELSE 0)
  <1> DEFINE f == [u \in S |-> u.amount]
             g == [u \in S \cup {v} |-> u.amount]
             T == {u \in S : u.asset = a}
             U == {u \in S \cup {v} : u.asset = a}
  <1>1. /\ IsFiniteSet(T) /\ v \notin T
        /\ \A u \in T \cup {v} : g[u] \in Int
        /\ \A u \in T : f[u] = g[u]
        /\ g[v] = v.amount
    <2>1. IsFiniteSet(T) /\ v \notin T
      BY FS_Subset
    <2>2. \A u \in T \cup {v} : g[u] \in Int
      BY DEF Input
    <2>3. QED
      BY <2>1, <2>2
  <1>2. Total(S)[a] = SumFunctionOnSet(f, T) /\ Total(S \cup {v})[a] = SumFunctionOnSet(g, U)
    BY TotalIs
  <1>3. Total(S)[a] \in Nat
    BY TotalNat
  <1>4. (v.asset = a => U = T \cup {v}) /\ (v.asset # a => U = T)
    OBVIOUS
  <1> HIDE DEF f, g, T, U
  <1>5. SumFunctionOnSet(f, T) = SumFunctionOnSet(g, T)
    BY <1>1, SumSame
  <1>6. CASE v.asset = a
    <2>1. SumFunctionOnSet(g, U) = SumFunctionOnSet(g, T \cup {v})
      BY <1>4, <1>6, Zenon
    <2>2. SumFunctionOnSet(g, T \cup {v}) = g[v] + SumFunctionOnSet(g, T)
      BY <1>1, SumAdd
    <2>3. v.amount \in Nat
      BY DEF Input
    <2>4. QED
      BY <1>1, <1>2, <1>3, <1>5, <1>6, <2>1, <2>2, <2>3
  <1>7. CASE v.asset # a
    <2>1. SumFunctionOnSet(g, U) = SumFunctionOnSet(g, T)
      BY <1>4, <1>7, Zenon
    <2>2. QED
      BY <1>2, <1>3, <1>5, <1>7, <2>1
  <1>8. QED
    BY <1>6, <1>7

-----------------------------------------------------------------------------
\* The loop over the imports.

LoopStart == [feepaid |-> 0, outs |-> Nothing]

\* The equation of the fold at the set s of indices.
LoopAt(c, g, s) ==
    g[s] = IF s = {} THEN LoopStart ELSE ImportFeeStep(c, g[s \ {Max(s)}], c.imports[Max(s)])

IsLoop(c, g) ==
    g = [s \in SUBSET (DOMAIN c.imports) |->
            IF s = {} THEN LoopStart ELSE ImportFeeStep(c, g[s \ {Max(s)}], c.imports[Max(s)])]

LEMMA LoopUnfold ==
    ASSUME NEW c
    PROVE  ImportFee(c) = (CHOOSE g : IsLoop(c, g))[DOMAIN c.imports]
  BY DEF ImportFee, FoldLeft, MapThenFoldSet, IsLoop, LoopStart

LEMMA LoopExists ==
    ASSUME NEW c, IsFiniteSet(DOMAIN c.imports), DOMAIN c.imports \subseteq Nat
    PROVE  \E g : IsLoop(c, g)
  <1> DEFINE D == DOMAIN c.imports
             Small(n) == {s \in SUBSET D : Cardinality(s) <= n}
             Upto(n, g) == \A s \in Small(n) : LoopAt(c, g, s)
             G == {n \in Nat : \E g : Upto(n, g)}
  <1>0. \A s \in SUBSET D : IsFiniteSet(s) /\ Cardinality(s) \in Nat
    BY FS_Subset, FS_CardinalityType
  <1>1. 0 \in G
    <2>1. \A s \in Small(0) : s = {}
      BY <1>0, FS_EmptySet
    <2>2. Upto(0, [s \in SUBSET D |-> LoopStart])
      BY <2>1 DEF LoopAt
    <2>3. QED
      BY <2>2
  <1>2. ASSUME NEW n \in Nat, n \in G PROVE n + 1 \in G
    <2>1. PICK g : Upto(n, g)
      BY <1>2
    <2> DEFINE OneMore(s) == ImportFeeStep(c, g[s \ {Max(s)}], c.imports[Max(s)])
               h == [s \in SUBSET D |-> IF s \in Small(n) THEN g[s] ELSE OneMore(s)]
    <2>2. ASSUME NEW s \in Small(n + 1) PROVE LoopAt(c, h, s)
      <3>1. CASE s = {}
        <4>1. s \in Small(n)
          BY <3>1, FS_EmptySet
        <4>2. QED
          BY <2>1, <3>1, <4>1 DEF LoopAt
      <3>2. CASE s # {}
        <4>1. Max(s) \in s
          BY <1>0, <3>2, GreatestNumber
        <4>2. /\ s \ {Max(s)} \in SUBSET D
              /\ Cardinality(s) \in Nat
              /\ Cardinality(s \ {Max(s)}) = Cardinality(s) - 1
          BY <1>0, <4>1, FS_RemoveElement
        <4>3. s \ {Max(s)} \in Small(n)
          BY <4>2
        <4>4. h[s \ {Max(s)}] = g[s \ {Max(s)}]
          BY <4>2, <4>3
        <4>5. h[s] = OneMore(s)
          BY <2>1, <3>2 DEF LoopAt
        <4> HIDE DEF h
        <4>6. QED
          BY <3>2, <4>4, <4>5 DEF LoopAt
      <3>3. QED
        BY <3>1, <3>2
    <2> HIDE DEF h
    <2>3. Upto(n + 1, h)
      BY <2>2
    <2>4. QED
      BY <2>3
  <1>3. Cardinality(D) \in G
    <2>1. Nat \subseteq G
      <3> HIDE DEF G
      <3>1. QED
        BY <1>1, <1>2, NumberInduction
    <2>2. QED
      BY <1>0, <2>1
  <1>4. PICK g : Upto(Cardinality(D), g)
    BY <1>3
  <1>5. \A s \in SUBSET D : s \in Small(Cardinality(D))
    BY FS_Subset
  <1> DEFINE h == [s \in SUBSET D |-> g[s]]
  <1>6. IsLoop(c, h)
    <2>1. ASSUME NEW s \in SUBSET D
          PROVE  h[s] = IF s = {} THEN LoopStart ELSE ImportFeeStep(c, h[s \ {Max(s)}], c.imports[Max(s)])
      <3>1. LoopAt(c, g, s)
        BY <1>4, <1>5
      <3>2. h[s] = g[s] /\ h[s \ {Max(s)}] = g[s \ {Max(s)}]
        OBVIOUS
      <3> HIDE DEF h
      <3>3. QED
        BY <3>1, <3>2 DEF LoopAt
    <2>2. QED
      BY <2>1 DEF IsLoop
  <1>7. QED
    BY <1>6

\* Part of what was imported, in an asset, has been taken for the fee.
Paid(c, acc, a) == IF a = c.feeAsset THEN acc.feepaid ELSE 0

Sound(c, acc) ==
    /\ acc.feepaid \in Nat /\ acc.feepaid <= c.fee
    /\ acc.outs \in [Asset -> Nat]
    /\ acc.feepaid < c.fee => acc.outs[c.feeAsset] = 0

\* One import: what it holds becomes output or fee.
LEMMA ImportStep ==
    ASSUME NEW c \in Call, NEW acc, Sound(c, acc), NEW u \in Input
    PROVE  LET next == ImportFeeStep(c, acc, u)
           IN /\ Sound(c, next)
              /\ \A a \in Asset : next.outs[a] + Paid(c, next, a)
                                    = acc.outs[a] + Paid(c, acc, a) + (IF u.asset = a THEN u.amount ELSE 0)
  <1> DEFINE next == ImportFeeStep(c, acc, u)
             pays == c.fee > 0 /\ acc.feepaid < c.fee /\ u.asset = c.feeAsset
             feepaid == acc.feepaid + u.amount
             left == IF ~pays THEN u.amount ELSE IF feepaid >= c.fee THEN feepaid - c.fee ELSE 0
  <1>1. /\ c.fee \in Nat /\ c.feeAsset \in Asset
        /\ u.amount \in Nat /\ u.asset \in Asset
        /\ acc.feepaid \in Nat /\ acc.feepaid <= c.fee /\ acc.outs \in [Asset -> Nat]
        /\ acc.feepaid < c.fee => acc.outs[c.feeAsset] = 0
    BY DEF Call, Input, Sound
  <1>2. /\ next.feepaid = (IF ~pays THEN acc.feepaid ELSE IF feepaid >= c.fee THEN c.fee ELSE feepaid)
        /\ next.outs = [acc.outs EXCEPT ![u.asset] = @ + left]
    BY DEF ImportFeeStep, FeeCheck
  <1>3. left \in Nat
    BY <1>1
  <1>4. \A a \in Asset : next.outs[a] = acc.outs[a] + (IF a = u.asset THEN left ELSE 0)
    BY <1>1, <1>2, <1>3
  <1>5. next.outs \in [Asset -> Nat]
    BY <1>1, <1>2, <1>3
  <1> HIDE DEF next
  <1>6. Sound(c, next)
    BY <1>1, <1>2, <1>4, <1>5 DEF Sound
  <1>7. ASSUME NEW a \in Asset
        PROVE  next.outs[a] + Paid(c, next, a)
                   = acc.outs[a] + Paid(c, acc, a) + (IF u.asset = a THEN u.amount ELSE 0)
    <2>1. acc.outs[a] \in Nat
      BY <1>1
    <2>2. QED
      BY <1>1, <1>2, <1>4, <2>1 DEF Paid
  <1>8. QED
    BY <1>6, <1>7 DEF next

Imported(c, n) == {c.imports[k] : k \in 1..n}

DistinctImports(c) == \A j, k \in DOMAIN c.imports : c.imports[j].id = c.imports[k].id => j = k

\* After n imports.
LoopInv(c, n, acc) ==
    /\ Sound(c, acc)
    /\ \A a \in Asset : acc.outs[a] + Paid(c, acc, a) = Total(Imported(c, n))[a]

\* The first n imports are inputs, and the next one is another.
LEMMA ImportedFacts ==
    ASSUME NEW c \in Call, DistinctImports(c), NEW n \in Nat, n <= Len(c.imports)
    PROVE  /\ Imported(c, n) \in SUBSET Input /\ IsFiniteSet(Imported(c, n))
           /\ n < Len(c.imports) =>
                 /\ c.imports[n + 1] \in Input \ Imported(c, n)
                 /\ Imported(c, n + 1) = Imported(c, n) \cup {c.imports[n + 1]}
  <1>1. c.imports \in Seq(Input)
    BY DEF Call
  <1>2. /\ Len(c.imports) \in Nat /\ DOMAIN c.imports = 1..Len(c.imports)
        /\ c.imports \in [1..Len(c.imports) -> Input]
    BY <1>1, LenProperties
  <1>3. \A k \in 1..n : k \in 1..Len(c.imports)
    BY <1>2
  <1>4. Imported(c, n) \in SUBSET Input
    BY <1>2, <1>3 DEF Imported
  <1>5. IsFiniteSet(Imported(c, n))
    <2>1. IsFiniteSet(1..n)
      BY FS_Interval
    <2> DEFINE f == [k \in 1..n |-> c.imports[k]]
    <2>2. f \in Surjection(1..n, Imported(c, n))
      BY DEF Surjection, Imported
    <2>3. QED
      BY <2>1, <2>2, FS_Surjection
  <1>6. ASSUME n < Len(c.imports)
        PROVE  /\ c.imports[n + 1] \in Input \ Imported(c, n)
               /\ Imported(c, n + 1) = Imported(c, n) \cup {c.imports[n + 1]}
    <2>1. n + 1 \in 1..Len(c.imports)
      BY <1>2, <1>6
    <2>2. \A k \in 1..n : k # n + 1
      OBVIOUS
    <2>3. \A k \in 1..n : c.imports[k] # c.imports[n + 1]
      BY <1>2, <1>3, <2>1, <2>2 DEF DistinctImports
    <2>4. 1..(n + 1) = (1..n) \cup {n + 1}
      OBVIOUS
    <2>5. c.imports[n + 1] \in Input \ Imported(c, n)
      BY <1>2, <2>1, <2>3 DEF Imported
    <2>6. Imported(c, n + 1) = Imported(c, n) \cup {c.imports[n + 1]}
      BY <2>4 DEF Imported
    <2>7. QED
      BY <2>5, <2>6
  <1>7. QED
    BY <1>4, <1>5, <1>6

\* The loop at the end: outputs and fee are what the imports hold.
LEMMA ImportFeeFacts ==
    ASSUME NEW c \in Call, DistinctImports(c)
    PROVE  LoopInv(c, Len(c.imports), ImportFee(c))
  <1> DEFINE D == DOMAIN c.imports
             g == CHOOSE h : IsLoop(c, h)
             G == {n \in Nat : n <= Len(c.imports) => LoopInv(c, n, g[1..n])}
  <1>1. c.imports \in Seq(Input) /\ c.fee \in Nat
    BY DEF Call
  <1>2. /\ Len(c.imports) \in Nat /\ D = 1..Len(c.imports)
        /\ c.imports \in [1..Len(c.imports) -> Input]
    BY <1>1, LenProperties
  <1>3. IsFiniteSet(D) /\ D \subseteq Nat
    BY <1>2, FS_Interval
  <1>4. IsLoop(c, g)
    BY <1>3, LoopExists
  <1> HIDE DEF g
  <1>5. \A s \in SUBSET D : LoopAt(c, g, s)
    BY <1>4 DEF IsLoop, LoopAt
  <1>6. 0 \in G
    <2>1. 1..0 = {} /\ {} \in SUBSET D
      OBVIOUS
    <2>2. g[{}] = LoopStart
      BY <1>5 DEF LoopAt
    <2>3. g[1..0] = LoopStart
      BY <2>1, <2>2, Zenon
    <2>4. \A a \in Asset : Total(Imported(c, 0))[a] = 0
      BY <2>1, TotalNone DEF Imported
    <2>5. LoopStart.feepaid = 0 /\ LoopStart.outs = [a \in Asset |-> 0]
      BY DEF LoopStart, Nothing
    <2>6. c.feeAsset \in Asset
      BY DEF Call
    <2>7. Sound(c, LoopStart)
      BY <1>1, <2>5, <2>6 DEF Sound
    <2>8. LoopInv(c, 0, LoopStart)
      BY <2>4, <2>5, <2>7 DEF LoopInv, Paid
    <2>9. QED
      BY <2>3, <2>8
  <1>7. ASSUME NEW n \in Nat, n \in G PROVE n + 1 \in G
    <2> SUFFICES ASSUME n + 1 <= Len(c.imports) PROVE LoopInv(c, n + 1, g[1..(n + 1)])
      OBVIOUS
    <2>1. n <= Len(c.imports) /\ n < Len(c.imports) /\ n + 1 \in Nat
      BY <1>2
    <2> DEFINE acc == g[1..n]
               u == c.imports[n + 1]
               next == ImportFeeStep(c, acc, u)
    <2>2. g[1..(n + 1)] = next
      <3>1. 1..(n + 1) \in SUBSET D
        BY <1>2, <2>1
      <3>2. LoopAt(c, g, 1..(n + 1))
        BY <1>5, <3>1
      <3>3. g[1..(n + 1)] = ImportFeeStep(c, g[(1..(n + 1)) \ {n + 1}], c.imports[n + 1])
        BY <3>2, LastIndex, Zenon DEF LoopAt
      <3>4. QED
        BY <3>3, LastIndex, Zenon
    <2>3. LoopInv(c, n, acc)
      BY <1>7, <2>1
    <2>4. u \in Input \ Imported(c, n) /\ Imported(c, n + 1) = Imported(c, n) \cup {u}
      BY <2>1, ImportedFacts
    <2>5. Imported(c, n) \in SUBSET Input /\ IsFiniteSet(Imported(c, n))
      BY <2>1, ImportedFacts
    <2> HIDE DEF acc, u
    <2>6. /\ Sound(c, next)
          /\ \A a \in Asset : next.outs[a] + Paid(c, next, a)
                                = acc.outs[a] + Paid(c, acc, a) + (IF u.asset = a THEN u.amount ELSE 0)
      <3>1. Sound(c, acc) /\ u \in Input
        BY <2>3, <2>4 DEF LoopInv
      <3>2. QED
        BY <3>1, ImportStep
    <2> HIDE DEF next
    <2>7. ASSUME NEW a \in Asset
          PROVE  next.outs[a] + Paid(c, next, a) = Total(Imported(c, n + 1))[a]
      <3>1. Total(Imported(c, n) \cup {u})[a]
                = Total(Imported(c, n))[a] + (IF u.asset = a THEN u.amount ELSE 0)
        BY <2>4, <2>5, TotalAdd
      <3>2. Total(Imported(c, n + 1))[a] = Total(Imported(c, n) \cup {u})[a]
        BY <2>4, Zenon
      <3>3. acc.outs[a] + Paid(c, acc, a) = Total(Imported(c, n))[a]
        BY <2>3 DEF LoopInv
      <3>4. QED
        BY <2>6, <3>1, <3>2, <3>3
    <2>8. LoopInv(c, n + 1, next)
      BY <2>6, <2>7 DEF LoopInv
    <2>9. QED
      BY <2>2, <2>8
  <1>8. Len(c.imports) \in G
    <2>1. Nat \subseteq G
      <3> HIDE DEF G
      <3>1. QED
        BY <1>6, <1>7, NumberInduction
    <2>2. QED
      BY <1>2, <2>1
  <1>9. ImportFee(c) = g[1..Len(c.imports)]
    <2>1. ImportFee(c) = g[D]
      BY LoopUnfold DEF g
    <2>2. QED
      BY <1>2, <2>1, Zenon
  <1>10. QED
    BY <1>2, <1>8, <1>9

-----------------------------------------------------------------------------
\* The inductive invariant: what was asked for is the fee, or what is left of it,
\* and the amount; what was answered burns no more than that; what is made of it
\* balances, and is owned by those who have to sign it.

BurnIn(asked, a) == IF a \in DOMAIN asked THEN asked[a].burn ELSE 0

AmountIn(asked, a) == IF a \in DOMAIN asked THEN asked[a].amount ELSE 0

BurnDue(a) ==
    IF call.kind = "Export" THEN IF a = call.feeAsset THEN call.fee + call.amount ELSE 0
    ELSE IF call.kind = "Import" THEN IF a = call.feeAsset THEN FeeRemaining(call) ELSE 0
    ELSE FeeOf(a)

SendsAsset == {"Base", "AddValidator", "AddDelegator", "CaminoAddValidator", "AddProposal"}

AmountDue(a) ==
    IF call.kind \in SendsAsset THEN IF a = call.asset THEN call.amount ELSE 0
    ELSE IF call.kind = "Deposit" /\ call.fee > 0 /\ a = call.feeAsset THEN call.amount ELSE 0

CallFits == caminoEnabled \in BOOLEAN /\ call \in Calls

NotAsked ==
    /\ phase \in {"called", "asking"} => answer = NoAnswer
    /\ phase = "called" => ask = <<>> /\ lockMode = "Unlocked"

Asked == phase \in {"asking", "answered", "built", "signed", "unsigned"}

AskOK(asked, mode) ==
    /\ DOMAIN asked \subseteq Asset
    /\ \A a \in DOMAIN asked : asked[a].amount \in Nat /\ asked[a].burn \in Nat
    /\ \A a \in Asset : BurnIn(asked, a) = BurnDue(a) /\ AmountIn(asked, a) = AmountDue(a)
    /\ call.kind = "Export" => call.feeAsset = call.asset
    /\ mode = "Stake" => ~caminoEnabled
    /\ mode = "Stake" => call.kind \in {"AddValidator", "AddDelegator", "AddSubnetValidator"}
    /\ call.kind \in {"AddValidator", "AddDelegator"} => ~caminoEnabled

\* An import that pays its fee itself asks for nothing.
PaysItself == call.kind = "Import" /\ FeeRemaining(call) = 0

AskFits ==
    Asked => AskOK(ask, lockMode) /\ (PaysItself => phase # "asking" /\ answer = NoAnswer)

Answers == phase \in {"answered", "built", "signed", "unsigned"}

InputsFit(s) == s \in Seq(Input) /\ ToSet(s) \in SUBSET Funds /\ s = Sorted(ToSet(s))

Spent(got, a) == Total(ToSet(got.ins))[a] - got.outs[a] - got.change[a]

AnswerOK(got) ==
    /\ InputsFit(got.ins)
    /\ got.outs \in [Asset -> Nat] /\ got.change \in [Asset -> Nat]
    /\ \A a \in Asset :
           IF lockMode = "Stake" THEN Spent(got, a) >= 0 /\ Spent(got, a) <= BurnDue(a)
           ELSE Spent(got, a) = BurnDue(a)
    /\ \A a \in Asset :
           /\ got.outs[a] >= AmountDue(a)
           /\ ~caminoEnabled => got.outs[a] <= AmountDue(a) + BurnDue(a)
    /\ caminoEnabled => got.owners = [k \in DOMAIN got.ins |-> Owner("in", got.ins[k].id)]

AnswerFits == Answers => AnswerOK(answer)

Balanced(t) ==
    \A a \in Asset :
        LET burned == Total(ToSet(t.ins))[a] + Total(ToSet(t.imports))[a] + MintedOf(a)
                          - (t.outs[a] + t.exported[a] + t.staked[a])
        IN IF lockMode = "Stake" THEN burned >= 0 /\ burned <= FeeOf(a) ELSE burned = FeeOf(a)

Directed(t) ==
    /\ call.kind = "Export" => t.exported = [Nothing EXCEPT ![call.asset] = call.amount]
    /\ call.kind \in {"AddValidator", "AddDelegator"} =>
           /\ t.staked[call.asset] >= call.amount
           /\ t.staked[call.asset] <= call.amount + call.fee
    /\ call.kind \in {"Base", "CaminoAddValidator", "AddProposal"} => t.outs[call.asset] >= call.amount
    /\ call.kind = "Deposit" /\ call.fee > 0 => t.outs[call.feeAsset] >= call.amount

\* What the owners own.
Owned(s) == [k \in DOMAIN s |-> s[k].of]

CanSign(s) ==
    \A k \in DOMAIN s :
        s[k].addresses \in Nat /\ s[k].threshold \in Nat /\ s[k].addresses >= s[k].threshold

Aligned(t) ==
    /\ Owned(t.owners) = InBytes(t) \o Parties
    /\ CanSign(t.owners) \/ NobodySigns

TxOK(t) ==
    /\ t.ins = answer.ins
    /\ t.imports = (IF call.kind = "Import" THEN call.imports ELSE <<>>)
    /\ ~DropsImports => Balanced(t)
    /\ Directed(t)
    /\ caminoEnabled /\ HasItsOwners => Aligned(t)

TxFits == Made => TxOK(tx)

Signed ==
    phase = "unsigned" /\ caminoEnabled /\ HasItsOwners => NobodySigns \/ call.kind = "MultisigAlias"

BInv == CallFits /\ NotAsked /\ AskFits /\ AnswerFits /\ TxFits /\ Signed

-----------------------------------------------------------------------------
\* Calls.

LEMMA CallType ==
    ASSUME NEW c \in Calls
    PROVE  /\ c \in Call /\ DistinctImports(c)
           /\ c.kind \in Kinds /\ c.asset \in Asset /\ c.feeAsset \in Asset
           /\ c.amount \in Nat /\ c.fee \in Nat
           /\ c.imports \in Seq(Input) /\ c.auth \in Seq(Nat)
           /\ c.claims \in Seq([amount : Nat, fault : ClaimFaults])
  <1>1. c \in Call /\ DistinctImports(c)
    BY CallsAssumption DEF DistinctImports
  <1>2. QED
    BY <1>1 DEF Call

\* What the imports leave of the fee, and as outputs.
LEMMA ImportFits ==
    ASSUME NEW c \in Calls
    PROVE  /\ FeeRemaining(c) \in Nat /\ FeeRemaining(c) <= c.fee
           /\ ImportFee(c).outs \in [Asset -> Nat]
           /\ ToSet(c.imports) \in SUBSET Input /\ IsFiniteSet(ToSet(c.imports))
           /\ \A a \in Asset :
                  ImportFee(c).outs[a] + (IF a = c.feeAsset THEN c.fee - FeeRemaining(c) ELSE 0)
                      = Total(ToSet(c.imports))[a]
           /\ FeeRemaining(c) > 0 => ImportFee(c).outs[c.feeAsset] = 0
  <1>1. c \in Call /\ DistinctImports(c) /\ c.fee \in Nat /\ c.imports \in Seq(Input)
    BY CallType
  <1>2. Len(c.imports) \in Nat /\ DOMAIN c.imports = 1..Len(c.imports)
    BY <1>1, LenProperties
  <1>3. LoopInv(c, Len(c.imports), ImportFee(c))
    BY <1>1, ImportFeeFacts
  <1>4. ToSet(c.imports) = Imported(c, Len(c.imports))
    BY <1>2 DEF ToSet, Imported
  <1>5. Imported(c, Len(c.imports)) \in SUBSET Input /\ IsFiniteSet(Imported(c, Len(c.imports)))
    <2>1. Len(c.imports) <= Len(c.imports)
      BY <1>2
    <2>2. QED
      BY <1>1, <1>2, <2>1, ImportedFacts
  <1>6. ToSet(c.imports) \in SUBSET Input /\ IsFiniteSet(ToSet(c.imports))
    BY <1>4, <1>5, Zenon
  <1> DEFINE paid == ImportFee(c).feepaid
  <1>7. paid \in Nat /\ paid <= c.fee /\ FeeRemaining(c) = c.fee - paid
    BY <1>3 DEF LoopInv, Sound, FeeRemaining
  <1>8. ImportFee(c).outs \in [Asset -> Nat]
    BY <1>3 DEF LoopInv, Sound
  <1>9. paid < c.fee => ImportFee(c).outs[c.feeAsset] = 0
    BY <1>3 DEF LoopInv, Sound
  <1>10. ASSUME NEW a \in Asset
         PROVE  ImportFee(c).outs[a] + (IF a = c.feeAsset THEN paid ELSE 0) = Total(ToSet(c.imports))[a]
    <2>1. ImportFee(c).outs[a] + (IF a = c.feeAsset THEN paid ELSE 0)
              = Total(Imported(c, Len(c.imports)))[a]
      BY <1>3 DEF LoopInv, Paid
    <2>2. QED
      BY <1>4, <2>1, Zenon
  <1> HIDE DEF paid
  <1>11. c.fee - FeeRemaining(c) = paid
    BY <1>1, <1>7
  <1>12. QED
    BY <1>1, <1>6, <1>7, <1>8, <1>9, <1>10, <1>11

LEMMA ClaimedNat ==
    ASSUME NEW c \in Calls
    PROVE  Claimed(c) \in Nat
  <1> DEFINE f == [k \in DOMAIN c.claims |-> c.claims[k].amount]
  <1>1. c.claims \in Seq([amount : Nat, fault : ClaimFaults])
    BY CallType
  <1>2. /\ DOMAIN c.claims = 1..Len(c.claims) /\ Len(c.claims) \in Nat
        /\ c.claims \in [1..Len(c.claims) -> [amount : Nat, fault : ClaimFaults]]
    BY <1>1, LenProperties
  <1>3. IsFiniteSet(DOMAIN f) /\ \A k \in DOMAIN f : f[k] \in Nat
    <2>1. IsFiniteSet(1..Len(c.claims))
      BY <1>2, FS_Interval
    <2>2. QED
      BY <1>2, <2>1
  <1>4. Claimed(c) = SumFunctionOnSet(f, DOMAIN f)
    BY DEF Claimed, SumFunction
  <1> HIDE DEF f
  <1>5. QED
    BY <1>3, <1>4, SumNat

-----------------------------------------------------------------------------
\* Owners and what they own.

Sorts == {"in", "import", "subnet", "node", "party", "member", "offer", "claim"}

Things == Sorts \X Nat

Party == [of : Things, addresses : Nat, threshold : Nat]

LEMMA OwnedType ==
    ASSUME NEW s \in Seq(Party)
    PROVE  /\ Owned(s) \in Seq(Things) /\ Len(Owned(s)) = Len(s)
           /\ \A k \in 1..Len(s) : Owned(s)[k] = s[k].of
  <1>1. /\ Len(s) \in Nat /\ DOMAIN s = 1..Len(s)
        /\ s \in [1..Len(s) -> Party]
    BY LenProperties
  <1>2. Owned(s) \in [1..Len(s) -> Things] /\ \A k \in 1..Len(s) : Owned(s)[k] = s[k].of
    BY <1>1 DEF Owned, Party
  <1>3. QED
    BY <1>1, <1>2

LEMMA OwnedConcat ==
    ASSUME NEW s \in Seq(Party), NEW t \in Seq(Party)
    PROVE  s \o t \in Seq(Party) /\ Owned(s \o t) = Owned(s) \o Owned(t)
  <1>1. /\ s \o t \in Seq(Party) /\ Len(s \o t) = Len(s) + Len(t)
        /\ \A i \in 1 .. Len(s) + Len(t) :
               (s \o t)[i] = IF i <= Len(s) THEN s[i] ELSE t[i - Len(s)]
    BY ConcatProperties
  <1>2. /\ Owned(s) \in Seq(Things) /\ Len(Owned(s)) = Len(s)
        /\ \A k \in 1..Len(s) : Owned(s)[k] = s[k].of
    BY OwnedType
  <1>3. /\ Owned(t) \in Seq(Things) /\ Len(Owned(t)) = Len(t)
        /\ \A k \in 1..Len(t) : Owned(t)[k] = t[k].of
    BY OwnedType
  <1>4. /\ Owned(s \o t) \in Seq(Things) /\ Len(Owned(s \o t)) = Len(s) + Len(t)
        /\ \A k \in 1..Len(s) + Len(t) : Owned(s \o t)[k] = (s \o t)[k].of
    BY <1>1, OwnedType
  <1>5. /\ Owned(s) \o Owned(t) \in Seq(Things)
        /\ Len(Owned(s) \o Owned(t)) = Len(s) + Len(t)
        /\ \A i \in 1 .. Len(s) + Len(t) :
               (Owned(s) \o Owned(t))[i] = IF i <= Len(s) THEN Owned(s)[i] ELSE Owned(t)[i - Len(s)]
    <2> DEFINE p == Owned(s)
               q == Owned(t)
    <2>1. p \in Seq(Things) /\ q \in Seq(Things) /\ Len(p) = Len(s) /\ Len(q) = Len(t)
      BY <1>2, <1>3
    <2> HIDE DEF p, q
    <2>2. /\ p \o q \in Seq(Things)
          /\ Len(p \o q) = Len(p) + Len(q)
          /\ \A i \in 1 .. Len(p) + Len(q) : (p \o q)[i] = IF i <= Len(p) THEN p[i] ELSE q[i - Len(p)]
      BY <2>1, ConcatProperties
    <2>3. QED
      BY <2>1, <2>2 DEF p, q
  <1>6. ASSUME NEW i \in 1..Len(s) + Len(t)
        PROVE  Owned(s \o t)[i] = (Owned(s) \o Owned(t))[i]
    <2>1. Len(s) \in Nat /\ Len(t) \in Nat
      BY LenProperties
    <2>2. CASE i <= Len(s)
      <3>1. i \in 1..Len(s)
        BY <2>1, <2>2
      <3>2. QED
        BY <1>1, <1>2, <1>4, <1>5, <2>2, <3>1
    <2>3. CASE ~(i <= Len(s))
      <3>1. i - Len(s) \in 1..Len(t)
        BY <2>1, <2>3
      <3>2. QED
        BY <1>1, <1>3, <1>4, <1>5, <2>3, <3>1
    <2>4. QED
      BY <2>2, <2>3
  <1>7. Owned(s \o t) = Owned(s) \o Owned(t)
    BY <1>4, <1>5, <1>6, SeqEqual
  <1>8. QED
    BY <1>1, <1>7

-----------------------------------------------------------------------------
\* Up to the await: every build function ends, asks for what is due, or has its
\* answer because nothing is due.

Asks(asked, mode) == AskFor(asked, mode) /\ AskOK(asked, mode) /\ ~PaysItself

BuildLeads ==
    \/ End("failed") \/ End("undefined")
    \/ End("answered") /\ AskOK(<<>>, "Unlocked")
    \/ \E asked, mode : Asks(asked, mode)

\* The two assets of amount and fee may be one.
LEMMA AmountAndFeeFits ==
    ASSUME call \in Calls
    PROVE  /\ DOMAIN AmountAndFee \subseteq Asset
           /\ \A a \in DOMAIN AmountAndFee :
                  AmountAndFee[a].amount \in Nat /\ AmountAndFee[a].burn \in Nat
           /\ \A a \in Asset :
                  /\ BurnIn(AmountAndFee, a) = (IF a = call.feeAsset THEN call.fee ELSE 0)
                  /\ AmountIn(AmountAndFee, a) = (IF a = call.asset THEN call.amount ELSE 0)
  <1>1. /\ call.asset \in Asset /\ call.feeAsset \in Asset
        /\ call.amount \in Nat /\ call.fee \in Nat
    BY CallType
  <1>2. DOMAIN AmountAndFee = {call.asset} \cup (IF call.fee > 0 THEN {call.feeAsset} ELSE {})
    BY DEF AmountAndFee, FeeCheck
  <1>3. \A a \in DOMAIN AmountAndFee :
            /\ AmountAndFee[a].amount = (IF a = call.asset THEN call.amount ELSE 0)
            /\ AmountAndFee[a].burn = (IF a = call.feeAsset THEN call.fee ELSE 0)
    BY DEF AmountAndFee, FeeCheck
  <1>4. ASSUME NEW a \in Asset
        PROVE  /\ BurnIn(AmountAndFee, a) = (IF a = call.feeAsset THEN call.fee ELSE 0)
               /\ AmountIn(AmountAndFee, a) = (IF a = call.asset THEN call.amount ELSE 0)
    <2>1. CASE a \in DOMAIN AmountAndFee
      BY <1>3, <2>1 DEF BurnIn, AmountIn
    <2>2. CASE a \notin DOMAIN AmountAndFee
      <3>1. a # call.asset /\ (a = call.feeAsset => call.fee = 0)
        BY <1>1, <1>2, <2>2
      <3>2. QED
        BY <2>2, <3>1 DEF BurnIn, AmountIn
    <2>3. QED
      BY <2>1, <2>2
  <1>5. QED
    BY <1>1, <1>2, <1>3, <1>4

LEMMA FeeAmountFits ==
    ASSUME call \in Calls, NEW amount \in Nat, NEW fee \in Nat
    PROVE  /\ DOMAIN FeeAmount(amount, fee) \subseteq Asset
           /\ \A a \in DOMAIN FeeAmount(amount, fee) :
                  FeeAmount(amount, fee)[a].amount \in Nat /\ FeeAmount(amount, fee)[a].burn \in Nat
           /\ \A a \in Asset :
                  /\ BurnIn(FeeAmount(amount, fee), a) = (IF a = call.feeAsset THEN fee ELSE 0)
                  /\ AmountIn(FeeAmount(amount, fee), a) = (IF a = call.feeAsset THEN amount ELSE 0)
  <1>1. call.feeAsset \in Asset
    BY CallType
  <1>2. QED
    BY <1>1 DEF FeeAmount, BurnIn, AmountIn

\* Nothing is due.
LEMMA NothingFits ==
    ASSUME \A a \in Asset : BurnDue(a) = 0 /\ AmountDue(a) = 0,
           call.kind \notin {"Export", "AddValidator", "AddDelegator"}
    PROVE  AskOK(<<>>, "Unlocked")
  BY DEF AskOK, BurnIn, AmountIn

\* A transaction that asks for one fee.
LEMMA AskForFeeLeads ==
    ASSUME call \in Calls, NEW amount \in Nat, NEW fee \in Nat, NEW mode,
           AskForFee(amount, fee, mode),
           ~PaysItself \/ fee = 0,
           \A a \in Asset : /\ BurnDue(a) = (IF a = call.feeAsset THEN fee ELSE 0)
                            /\ AmountDue(a) = (IF a = call.feeAsset /\ fee > 0 THEN amount ELSE 0),
           call.kind \notin {"Export", "AddValidator", "AddDelegator"},
           mode = "Stake" => ~caminoEnabled /\ call.kind = "AddSubnetValidator"
    PROVE  BuildLeads
  <1>1. CASE FeeCheck(fee) /\ AskFor(FeeAmount(amount, fee), mode)
    <2>1. fee > 0 /\ ~PaysItself
      BY <1>1 DEF FeeCheck
    <2>2. AskOK(FeeAmount(amount, fee), mode)
      BY <2>1, FeeAmountFits DEF AskOK
    <2>3. QED
      BY <1>1, <2>1, <2>2 DEF BuildLeads, Asks
  <1>2. CASE ~FeeCheck(fee) /\ End("answered")
    <2>1. fee = 0
      BY <1>2 DEF FeeCheck
    <2>2. AskOK(<<>>, "Unlocked")
      BY <2>1, NothingFits
    <2>3. QED
      BY <1>2, <2>2 DEF BuildLeads
  <1>3. QED
    BY <1>1, <1>2 DEF AskForFee

\* A transaction that asks for an amount and a fee.
LEMMA AmountAndFeeLeads ==
    ASSUME call \in Calls, NEW mode, AskFor(AmountAndFee, mode),
           call.kind \in SendsAsset \ {"CaminoAddValidator"},
           mode = "Stake" => call.kind \in {"AddValidator", "AddDelegator"},
           call.kind \in {"AddValidator", "AddDelegator"} => ~caminoEnabled
    PROVE  BuildLeads
  <1>1. \A a \in Asset : /\ BurnDue(a) = (IF a = call.feeAsset THEN call.fee ELSE 0)
                         /\ AmountDue(a) = (IF a = call.asset THEN call.amount ELSE 0)
    BY DEF BurnDue, AmountDue, FeeOf, SendsAsset
  <1>2. AskOK(AmountAndFee, mode)
    BY <1>1, AmountAndFeeFits DEF AskOK, SendsAsset
  <1>3. ~PaysItself
    BY DEF PaysItself, SendsAsset
  <1>4. QED
    BY <1>2, <1>3 DEF BuildLeads, Asks

LEMMA BuildBase == ASSUME call \in Calls, BuildBaseTx PROVE BuildLeads
  <1>1. call.kind = "Base"
    BY DEF BuildBaseTx, Called
  <1>2. CASE End("failed") \/ End("undefined")
    BY <1>2 DEF BuildLeads
  <1>3. CASE AskFor(AmountAndFee, "Unlocked")
    BY <1>1, <1>3, AmountAndFeeLeads DEF SendsAsset
  <1>4. QED
    BY <1>2, <1>3 DEF BuildBaseTx

LEMMA BuildImport == ASSUME call \in Calls, BuildImportTx PROVE BuildLeads
  <1>1. call.kind = "Import" /\ AskForFee(0, FeeRemaining(call), "Unlocked")
    BY DEF BuildImportTx, Called
  <1>2. FeeRemaining(call) \in Nat
    BY ImportFits
  <1>3. \A a \in Asset : /\ BurnDue(a) = (IF a = call.feeAsset THEN FeeRemaining(call) ELSE 0)
                         /\ AmountDue(a) = 0
    BY <1>1 DEF BurnDue, AmountDue, SendsAsset
  <1>4. ~PaysItself \/ FeeRemaining(call) = 0
    BY <1>1 DEF PaysItself
  <1>5. QED
    BY <1>1, <1>2, <1>3, <1>4, AskForFeeLeads

LEMMA BuildExport == ASSUME call \in Calls, BuildExportTx PROVE BuildLeads
  <1>1. call.kind = "Export"
    BY DEF BuildExportTx, Called
  <1>2. CASE End("failed") \/ End("undefined")
    BY <1>2 DEF BuildLeads
  <1>3. CASE call.feeAsset = call.asset /\ AskFor(FeeAmount(0, call.fee + call.amount), "Unlocked")
    <2>1. call.fee + call.amount \in Nat
      <3>1. call.fee \in Nat /\ call.amount \in Nat
        BY CallType
      <3>2. QED
        BY <3>1
    <2> DEFINE due == call.fee + call.amount
    <2>2. \A a \in Asset : /\ BurnDue(a) = (IF a = call.feeAsset THEN due ELSE 0)
                           /\ AmountDue(a) = 0
      BY <1>1 DEF BurnDue, AmountDue, SendsAsset
    <2>3. due \in Nat
      BY <2>1
    <2> HIDE DEF due
    <2>4. AskOK(FeeAmount(0, due), "Unlocked")
      BY <1>1, <1>3, <2>2, <2>3, FeeAmountFits DEF AskOK
    <2>5. ~PaysItself
      BY <1>1 DEF PaysItself
    <2>6. QED
      BY <1>3, <2>4, <2>5 DEF BuildLeads, Asks, due
  <1>4. QED
    BY <1>2, <1>3 DEF BuildExportTx

LEMMA BuildStake == ASSUME call \in Calls, BuildStakeTx PROVE BuildLeads
  <1>1. call.kind \in {"AddValidator", "AddDelegator"}
    BY DEF BuildStakeTx, Called
  <1>2. CASE End("failed")
    BY <1>2 DEF BuildLeads
  <1>3. CASE ~caminoEnabled /\ AskFor(AmountAndFee, "Stake")
    BY <1>1, <1>3, AmountAndFeeLeads DEF SendsAsset
  <1>4. QED
    BY <1>2, <1>3 DEF BuildStakeTx

LEMMA BuildCaminoAddValidator == ASSUME call \in Calls, BuildCaminoAddValidatorTx PROVE BuildLeads
  <1>1. call.kind = "CaminoAddValidator"
    BY DEF BuildCaminoAddValidatorTx, Called
  <1>2. CASE End("failed")
    BY <1>2 DEF BuildLeads
  <1> DEFINE asked == [a \in {call.asset} |-> [amount |-> call.amount, burn |-> 0]]
  <1>3. CASE AskFor(asked, "Bond")
    <2>1. call.asset \in Asset /\ call.amount \in Nat
      BY CallType
    <2>2. \A a \in Asset : BurnDue(a) = 0 /\ AmountDue(a) = (IF a = call.asset THEN call.amount ELSE 0)
      BY <1>1 DEF BurnDue, AmountDue, FeeOf, SendsAsset
    <2>3. AskOK(asked, "Bond")
      BY <1>1, <2>1, <2>2 DEF AskOK, BurnIn, AmountIn
    <2>4. ~PaysItself
      BY <1>1 DEF PaysItself
    <2> HIDE DEF asked
    <2>5. QED
      BY <1>3, <2>3, <2>4 DEF BuildLeads, Asks
  <1>4. QED
    BY <1>2, <1>3 DEF BuildCaminoAddValidatorTx

LEMMA BuildAddProposal == ASSUME call \in Calls, BuildAddProposalTx PROVE BuildLeads
  <1>1. call.kind = "AddProposal" /\ AskFor(AmountAndFee, "Bond")
    BY DEF BuildAddProposalTx, Called
  <1>2. QED
    BY <1>1, AmountAndFeeLeads DEF SendsAsset

LEMMA BuildAddSubnetValidator == ASSUME call \in Calls, BuildAddSubnetValidatorTx PROVE BuildLeads
  <1>1. call.kind = "AddSubnetValidator" /\ call.fee \in Nat
    BY CallType DEF BuildAddSubnetValidatorTx, Called
  <1>2. CASE End("failed")
    BY <1>2 DEF BuildLeads
  <1> DEFINE mode == IF caminoEnabled THEN "Unlocked" ELSE "Stake"
  <1>3. CASE AskForFee(0, call.fee, mode)
    <2>1. \A a \in Asset : BurnDue(a) = (IF a = call.feeAsset THEN call.fee ELSE 0) /\ AmountDue(a) = 0
      BY <1>1 DEF BurnDue, AmountDue, FeeOf, SendsAsset
    <2>2. ~PaysItself
      BY <1>1 DEF PaysItself
    <2>3. mode = "Stake" => ~caminoEnabled
      OBVIOUS
    <2> HIDE DEF mode
    <2>4. QED
      BY <1>1, <1>3, <2>1, <2>2, <2>3, AskForFeeLeads
  <1>4. QED
    BY <1>2, <1>3 DEF BuildAddSubnetValidatorTx

LEMMA BuildFeeOnly == ASSUME call \in Calls, BuildFeeOnlyTx PROVE BuildLeads
  <1>1. /\ call.kind \in FeeOnlyKinds \ {"AddSubnetValidator"} /\ call.fee \in Nat
        /\ AskForFee(0, call.fee, "Unlocked")
    BY CallType DEF BuildFeeOnlyTx, Called
  <1>2. \A a \in Asset : BurnDue(a) = (IF a = call.feeAsset THEN call.fee ELSE 0) /\ AmountDue(a) = 0
    BY <1>1 DEF BurnDue, AmountDue, FeeOf, SendsAsset, FeeOnlyKinds
  <1>3. ~PaysItself /\ call.kind \notin {"Export", "AddValidator", "AddDelegator"}
    BY <1>1 DEF PaysItself, FeeOnlyKinds
  <1>4. QED
    BY <1>1, <1>2, <1>3, AskForFeeLeads

LEMMA BuildDeposit == ASSUME call \in Calls, BuildDepositTx PROVE BuildLeads
  <1>1. /\ call.kind = "Deposit" /\ call.fee \in Nat /\ call.amount \in Nat
        /\ AskForFee(call.amount, call.fee, "Deposit")
    BY CallType DEF BuildDepositTx, Called
  <1>2. \A a \in Asset : /\ BurnDue(a) = (IF a = call.feeAsset THEN call.fee ELSE 0)
                         /\ AmountDue(a) = (IF a = call.feeAsset /\ call.fee > 0 THEN call.amount ELSE 0)
    BY <1>1 DEF BurnDue, AmountDue, FeeOf, SendsAsset
  <1>3. ~PaysItself
    BY <1>1 DEF PaysItself
  <1>4. QED
    BY <1>1, <1>2, <1>3, AskForFeeLeads

-----------------------------------------------------------------------------
\* What does not change what the invariant speaks of keeps it.

LEMMA AskKept ==
    ASSUME UNCHANGED <<given, ask, lockMode>>, AskOK(ask, lockMode)
    PROVE  AskOK(ask, lockMode)'
  BY DEF given, AskOK, BurnIn, AmountIn, BurnDue, AmountDue, FeeOf, SendsAsset

LEMMA AnswerKept ==
    ASSUME UNCHANGED <<given, lockMode, answer>>, AnswerOK(answer)
    PROVE  AnswerOK(answer)'
  BY DEF given, AnswerOK, Spent, BurnDue, AmountDue, FeeOf, SendsAsset

LEMMA TxKept ==
    ASSUME UNCHANGED <<given, lockMode, answer, tx>>, TxOK(tx)
    PROVE  TxOK(tx)'
  BY DEF given, TxOK, Balanced, Directed, Aligned, InBytes, Parties, Authorisations, DropsImports,
         HasItsOwners, NobodySigns, MintedOf, FeeOf

LEMMA NoInputs == InputsFit(<<>>) /\ ToSet(<<>>) = {}
  <1>1. <<>> \in Seq(Input) /\ <<>> \in Seq({}) /\ Len(<<>>) = 0
    BY EmptySeq
  <1>2. ToSet(<<>>) = {}
    BY DEF ToSet
  <1>3. {} \in SUBSET Input /\ IsFiniteSet({}) /\ Distinct({})
    BY FS_EmptySet DEF Distinct
  <1>4. Sorted({}) \in Seq({}) /\ Len(Sorted({})) = 0
    <2>1. Cardinality({}) = 0
      BY FS_EmptySet
    <2>2. QED
      BY <1>3, <2>1, SortedFacts
  <1>5. <<>> = Sorted({})
    BY <1>4, EmptySeq
  <1>6. QED
    BY <1>1, <1>2, <1>5, Zenon DEF InputsFit

\* If nothing was due, no answer is an answer.
LEMMA NoAnswerFits ==
    ASSUME AskOK(<<>>, "Unlocked"), lockMode = "Unlocked"
    PROVE  AnswerOK(NoAnswer)
  <1>1. /\ NoAnswer.ins = <<>> /\ NoAnswer.owners = <<>>
        /\ NoAnswer.outs = Nothing /\ NoAnswer.change = Nothing
    BY DEF NoAnswer
  <1>2. InputsFit(NoAnswer.ins)
    BY <1>1, NoInputs, Zenon
  <1>3. Nothing \in [Asset -> Nat] /\ \A a \in Asset : Nothing[a] = 0
    BY DEF Nothing
  <1>4. \A a \in Asset : BurnDue(a) = 0 /\ AmountDue(a) = 0
    <2>1. \A a \in Asset : BurnIn(<<>>, a) = 0 /\ AmountIn(<<>>, a) = 0
      BY DEF BurnIn, AmountIn
    <2>2. \A a \in Asset : BurnIn(<<>>, a) = BurnDue(a) /\ AmountIn(<<>>, a) = AmountDue(a)
      BY DEF AskOK
    <2>3. QED
      BY <2>1, <2>2
  <1>5. \A a \in Asset : Spent(NoAnswer, a) = 0
    <2> SUFFICES ASSUME NEW a \in Asset PROVE Spent(NoAnswer, a) = 0
      OBVIOUS
    <2>1. Total({})[a] = 0
      BY TotalNone
    <2>2. Total(ToSet(NoAnswer.ins))[a] = 0
      BY <1>1, <2>1, NoInputs, Zenon
    <2>3. QED
      BY <1>1, <1>3, <2>2 DEF Spent
  <1>6. NoAnswer.owners = [k \in DOMAIN NoAnswer.ins |-> Owner("in", NoAnswer.ins[k].id)]
    BY <1>1
  <1>7. QED
    BY <1>1, <1>2, <1>3, <1>4, <1>5, <1>6 DEF AnswerOK

\* Until it is asked for, nothing is known of the answer and the transaction.
LEMMA BuildNext ==
    ASSUME BInv, Build
    PROVE  BInv'
  <1>1. BuildLeads
    BY BuildBase, BuildImport, BuildExport, BuildStake, BuildCaminoAddValidator, BuildAddProposal,
       BuildAddSubnetValidator, BuildFeeOnly, BuildDeposit DEF BInv, CallFits, Build
  <1>2. phase = "called" /\ answer = NoAnswer /\ ask = <<>> /\ lockMode = "Unlocked"
    BY DEF BInv, NotAsked, Build, BuildBaseTx, BuildImportTx, BuildExportTx, BuildStakeTx,
           BuildCaminoAddValidatorTx, BuildAddProposalTx, BuildAddSubnetValidatorTx, BuildFeeOnlyTx,
           BuildDepositTx, Called
  <1>3. CASE End("failed") \/ End("undefined")
    BY <1>3 DEF BInv, End, given, CallFits, NotAsked, AskFits, Asked, AnswerFits, Answers, TxFits, Made,
                Signed
  <1>4. CASE End("answered") /\ AskOK(<<>>, "Unlocked")
    <2>1. /\ phase' = "answered"
          /\ UNCHANGED <<given, ask, lockMode, answer, tx, credentials>>
      BY <1>4 DEF End
    <2>2. CallFits' /\ NotAsked' /\ TxFits' /\ Signed'
      BY <2>1 DEF BInv, CallFits, given, NotAsked, TxFits, Made, Signed
    <2>3. AskOK(ask, lockMode)'
      BY <1>2, <1>4, <2>1, AskKept
    <2>4. AnswerOK(answer)
      BY <1>2, <1>4, NoAnswerFits
    <2>5. AnswerOK(answer)'
      BY <2>1, <2>4, AnswerKept
    <2>6. AskFits' /\ AnswerFits'
      BY <1>2, <2>1, <2>3, <2>5 DEF AskFits, AnswerFits
    <2>7. QED
      BY <2>2, <2>6 DEF BInv
  <1>5. ASSUME NEW asked, NEW mode, Asks(asked, mode)
        PROVE  BInv'
    <2>1. /\ phase' = "asking" /\ ask' = asked /\ lockMode' = mode
          /\ UNCHANGED <<given, answer, tx, credentials>>
          /\ AskOK(asked, mode) /\ ~PaysItself
      BY <1>5 DEF Asks, AskFor
    <2>2. CallFits' /\ NotAsked' /\ TxFits' /\ Signed' /\ AnswerFits'
      BY <1>2, <2>1 DEF BInv, CallFits, given, NotAsked, TxFits, Made, Signed, AnswerFits, Answers
    <2>3. AskOK(ask, lockMode)'
      BY <2>1 DEF given, AskOK, BurnIn, AmountIn, BurnDue, AmountDue, FeeOf, SendsAsset
    <2>4. ~PaysItself'
      BY <2>1 DEF given, PaysItself
    <2>5. AskFits'
      BY <2>3, <2>4 DEF AskFits
    <2>6. QED
      BY <2>2, <2>5 DEF BInv
  <1>6. QED
    BY <1>1, <1>3, <1>4, <1>5 DEF BuildLeads

-----------------------------------------------------------------------------
\* The answer: what is consumed is sent, change, or burned as it was due.

LEMMA FundsFit ==
    ASSUME NEW S \in SUBSET Funds
    PROVE  /\ S \in SUBSET Input /\ IsFiniteSet(S) /\ Distinct(S)
           /\ Total(S) \in [Asset -> Nat]
           /\ InputsFit(Sorted(S)) /\ ToSet(Sorted(S)) = S
           /\ DOMAIN Sorted(S) = 1..Cardinality(S)
  <1>1. S \in SUBSET Input /\ IsFiniteSet(S) /\ Distinct(S)
    BY FundsAssumption, FS_Subset DEF Distinct
  <1>2. Total(S) \in [Asset -> Nat]
    BY <1>1, TotalNat
  <1>3. Sorted(S) \in Seq(S) /\ ToSet(Sorted(S)) = S /\ Sorted(S) \in [1..Cardinality(S) -> S]
    BY <1>1, SortedFacts
  <1>4. Sorted(S) \in Seq(Input)
    BY <1>1, <1>3, SeqMonotonic
  <1>5. InputsFit(Sorted(S))
    <2>1. Sorted(S) = Sorted(ToSet(Sorted(S)))
      BY <1>3, Zenon
    <2>2. ToSet(Sorted(S)) \in SUBSET Funds
      BY <1>3
    <2>3. QED
      BY <1>4, <2>1, <2>2 DEF InputsFit
  <1>6. QED
    BY <1>1, <1>2, <1>3, <1>5

\* The division of what is consumed, asset by asset.
LEMMA HonouredFits ==
    ASSUME AskOK(ask, lockMode), NEW consumed \in [Asset -> Nat], NEW sent, NEW change,
           sent \in [Asset -> 0..(call.amount + call.fee)],
           change = [a \in Asset |-> IF a \in DOMAIN ask
                                     THEN consumed[a] - ask[a].amount - ask[a].burn ELSE 0],
           Honours(ask, lockMode, consumed, sent, change)
    PROVE  /\ change \in [Asset -> Nat] /\ sent \in [Asset -> Nat]
           /\ \A a \in Asset :
                 LET spent == consumed[a] - sent[a] - change[a]
                 IN /\ IF lockMode = "Stake" THEN spent >= 0 /\ spent <= BurnDue(a) ELSE spent = BurnDue(a)
                    /\ sent[a] >= AmountDue(a) /\ sent[a] <= AmountDue(a) + BurnDue(a)
  <1>1. sent \in [Asset -> Nat]
    OBVIOUS
  <1>2. ASSUME NEW a \in Asset
        PROVE  /\ change[a] \in Nat
               /\ LET spent == consumed[a] - sent[a] - change[a]
                  IN /\ IF lockMode = "Stake" THEN spent >= 0 /\ spent <= BurnDue(a) ELSE spent = BurnDue(a)
                     /\ sent[a] >= AmountDue(a) /\ sent[a] <= AmountDue(a) + BurnDue(a)
    <2>1. sent[a] \in Nat /\ consumed[a] \in Nat
      BY <1>1
    <2>2. CASE a \in DOMAIN ask
      <3>1. /\ ask[a].amount \in Nat /\ ask[a].burn \in Nat
            /\ BurnDue(a) = ask[a].burn /\ AmountDue(a) = ask[a].amount
        BY <2>2 DEF AskOK, BurnIn, AmountIn
      <3>2. /\ consumed[a] >= ask[a].amount + ask[a].burn
            /\ change[a] = consumed[a] - ask[a].amount - ask[a].burn
            /\ sent[a] >= ask[a].amount
            /\ sent[a] <= ask[a].amount + (IF lockMode = "Stake" THEN ask[a].burn ELSE 0)
        BY <2>2 DEF Honours
      <3> DEFINE amt == ask[a].amount
                 brn == ask[a].burn
      <3>3. /\ amt \in Nat /\ brn \in Nat /\ BurnDue(a) = brn /\ AmountDue(a) = amt
            /\ consumed[a] >= amt + brn
            /\ change[a] = consumed[a] - amt - brn
            /\ sent[a] >= amt
            /\ lockMode = "Stake" => sent[a] <= amt + brn
            /\ lockMode # "Stake" => sent[a] <= amt
        BY <2>1, <3>1, <3>2
      <3> HIDE DEF amt, brn
      <3>4. change[a] \in Nat /\ sent[a] <= amt + brn
        BY <2>1, <3>3
      <3>5. CASE lockMode = "Stake"
        BY <2>1, <3>3, <3>4, <3>5
      <3>6. CASE lockMode # "Stake"
        BY <2>1, <3>3, <3>4, <3>6
      <3>7. QED
        BY <3>5, <3>6
    <2>3. CASE a \notin DOMAIN ask
      <3>1. BurnDue(a) = 0 /\ AmountDue(a) = 0
        BY <2>3 DEF AskOK, BurnIn, AmountIn
      <3>2. consumed[a] = 0 /\ sent[a] = 0 /\ change[a] = 0
        BY <2>3 DEF Honours
      <3>3. QED
        BY <3>1, <3>2
    <2>4. QED
      BY <2>2, <2>3
  <1>3. change \in [Asset -> Nat]
    BY <1>2
  <1>4. QED
    BY <1>1, <1>2, <1>3

LEMMA AnswerIsFit ==
    ASSUME AskOK(ask, lockMode), SpenderAnswers
    PROVE  AnswerOK(answer')
  <1>1. PICK S \in SUBSET Funds, sent \in [Asset -> 0..(call.amount + call.fee)] :
            LET consumed == Total(S)
                change == [a \in Asset |-> IF a \in DOMAIN ask
                                           THEN consumed[a] - ask[a].amount - ask[a].burn ELSE 0]
            IN /\ Honours(ask, lockMode, consumed, sent, change)
               /\ answer' =
                    [ins |-> Sorted(S),
                     outs |-> IF caminoEnabled THEN Plus(sent, change) ELSE sent,
                     change |-> IF caminoEnabled THEN Nothing ELSE change,
                     owners |-> IF caminoEnabled
                                THEN [k \in 1..Cardinality(S) |-> Owner("in", Sorted(S)[k].id)]
                                ELSE <<>>]
    BY DEF SpenderAnswers
  <1> DEFINE consumed == Total(S)
             change == [a \in Asset |-> IF a \in DOMAIN ask
                                        THEN consumed[a] - ask[a].amount - ask[a].burn ELSE 0]
             got == answer'
  <1>2. /\ Honours(ask, lockMode, consumed, sent, change)
        /\ got.ins = Sorted(S)
        /\ got.outs = IF caminoEnabled THEN Plus(sent, change) ELSE sent
        /\ got.change = IF caminoEnabled THEN Nothing ELSE change
        /\ caminoEnabled => got.owners = [k \in 1..Cardinality(S) |-> Owner("in", Sorted(S)[k].id)]
    BY <1>1
  <1>3. consumed \in [Asset -> Nat]
    BY FundsFit
  <1>4. /\ change \in [Asset -> Nat] /\ sent \in [Asset -> Nat]
        /\ \A a \in Asset :
              LET spent == consumed[a] - sent[a] - change[a]
              IN /\ IF lockMode = "Stake" THEN spent >= 0 /\ spent <= BurnDue(a) ELSE spent = BurnDue(a)
                 /\ sent[a] >= AmountDue(a) /\ sent[a] <= AmountDue(a) + BurnDue(a)
    <2>1. change = [a \in Asset |-> IF a \in DOMAIN ask
                                    THEN consumed[a] - ask[a].amount - ask[a].burn ELSE 0]
      OBVIOUS
    <2> HIDE DEF consumed, change
    <2>2. QED
      BY <1>2, <1>3, <2>1, HonouredFits
  <1>5. InputsFit(got.ins) /\ ToSet(got.ins) = S /\ DOMAIN got.ins = 1..Cardinality(S)
    BY <1>2, FundsFit, Zenon
  <1>6. \A a \in Asset : Total(ToSet(got.ins))[a] = consumed[a]
    BY <1>5, Zenon
  <1>7. caminoEnabled => got.owners = [k \in DOMAIN got.ins |-> Owner("in", got.ins[k].id)]
    BY <1>2, <1>5
  <1> HIDE DEF consumed, change, got
  <1>8. /\ got.outs \in [Asset -> Nat] /\ got.change \in [Asset -> Nat]
        /\ \A a \in Asset : got.outs[a] + got.change[a] = sent[a] + change[a]
        /\ \A a \in Asset : got.outs[a] >= sent[a]
        /\ ~caminoEnabled => \A a \in Asset : got.outs[a] = sent[a]
    <2>1. CASE caminoEnabled
      <3>1. got.outs = [a \in Asset |-> sent[a] + change[a]] /\ got.change = [a \in Asset |-> 0]
        BY <1>2, <2>1 DEF Plus, Nothing
      <3>2. \A a \in Asset : sent[a] \in Nat /\ change[a] \in Nat
        BY <1>4
      <3>3. QED
        BY <2>1, <3>1, <3>2
    <2>2. CASE ~caminoEnabled
      <3>1. got.outs = sent /\ got.change = change
        BY <1>2, <2>2
      <3>2. QED
        BY <1>4, <2>2, <3>1
    <2>3. QED
      BY <2>1, <2>2
  <1>9. ASSUME NEW a \in Asset
        PROVE  /\ IF lockMode = "Stake" THEN Spent(got, a) >= 0 /\ Spent(got, a) <= BurnDue(a)
                  ELSE Spent(got, a) = BurnDue(a)
               /\ got.outs[a] >= AmountDue(a)
               /\ ~caminoEnabled => got.outs[a] <= AmountDue(a) + BurnDue(a)
    <2>1. /\ consumed[a] \in Nat /\ sent[a] \in Nat /\ change[a] \in Nat
          /\ got.outs[a] \in Nat /\ got.change[a] \in Nat
      BY <1>3, <1>4, <1>8
    <2>2. Spent(got, a) = consumed[a] - sent[a] - change[a]
      <3>1. Spent(got, a) = consumed[a] - got.outs[a] - got.change[a]
        BY <1>6 DEF Spent
      <3>2. got.outs[a] + got.change[a] = sent[a] + change[a]
        BY <1>8
      <3>3. QED
        BY <2>1, <3>1, <3>2
    <2>3. sent[a] >= AmountDue(a) /\ sent[a] <= AmountDue(a) + BurnDue(a)
      BY <1>4
    <2>4. got.outs[a] >= AmountDue(a)
      <3>1. AmountDue(a) \in Int
        BY DEF AskOK, AmountIn
      <3>2. got.outs[a] >= sent[a]
        BY <1>8
      <3>3. QED
        BY <2>1, <2>3, <3>1, <3>2
    <2>5. QED
      BY <1>4, <1>8, <2>2, <2>3, <2>4
  <1>10. AnswerOK(got)
    BY <1>5, <1>7, <1>8, <1>9 DEF AnswerOK
  <1>11. QED
    BY <1>10 DEF got

LEMMA SpenderNext ==
    ASSUME BInv, SpenderAnswers \/ SpenderRefuses
    PROVE  BInv'
  <1>1. CASE SpenderAnswers
    <2>1. /\ phase = "asking" /\ phase' = "answered"
          /\ UNCHANGED <<given, ask, lockMode, tx, credentials>>
      BY <1>1 DEF SpenderAnswers
    <2>2. AskOK(ask, lockMode) /\ ~PaysItself
      BY <2>1 DEF BInv, AskFits, Asked
    <2>3. CallFits' /\ NotAsked' /\ TxFits' /\ Signed'
      BY <2>1 DEF BInv, CallFits, given, NotAsked, TxFits, Made, Signed
    <2>4. AskFits'
      <3>1. AskOK(ask, lockMode)'
        BY <2>1, <2>2, AskKept
      <3>2. ~PaysItself'
        BY <2>1, <2>2 DEF given, PaysItself
      <3>3. QED
        BY <3>1, <3>2 DEF AskFits
    <2>5. AnswerOK(answer')
      BY <1>1, <2>2, AnswerIsFit
    <2>6. AnswerOK(answer)'
      BY <2>1, <2>5 DEF given, AnswerOK, Spent, BurnDue, AmountDue, FeeOf, SendsAsset
    <2>7. QED
      BY <2>3, <2>4, <2>6 DEF BInv, AnswerFits
  <1>2. CASE SpenderRefuses
    BY <1>2 DEF SpenderRefuses, BInv, End, given, CallFits, NotAsked, AskFits, Asked, AnswerFits, Answers,
                TxFits, Made, Signed
  <1>3. QED
    BY <1>1, <1>2

-----------------------------------------------------------------------------
\* Who owns and who signs.

LEMMA OneParty ==
    ASSUME NEW p \in Party
    PROVE  <<p>> \in Seq(Party) /\ Owned(<<p>>) = <<p.of>> /\ DOMAIN <<p>> = {1} /\ <<p>>[1] = p
  <1>1. <<p>> \in Seq(Party) /\ DOMAIN <<p>> = {1} /\ <<p>>[1] = p
    OBVIOUS
  <1>2. Owned(<<p>>) = <<p.of>>
    BY <1>1 DEF Owned
  <1>3. QED
    BY <1>1, <1>2

LEMMA OwnerType ==
    ASSUME NEW sort \in Sorts, NEW k \in Nat
    PROVE  /\ Owner(sort, k) \in Party /\ Owner(sort, k).of = <<sort, k>>
           /\ Owner(sort, k).addresses >= Owner(sort, k).threshold
  BY DEF Owner, Party, Things

LEMMA OwnerOfType ==
    ASSUME NEW sort \in Sorts, NEW n \in Nat, NEW m \in Nat
    PROVE  /\ OwnerOf(sort, n, m) \in Party /\ OwnerOf(sort, n, m).of = <<sort, 1>>
           /\ n >= m /\ m > 0 => OwnerOf(sort, n, m).addresses >= OwnerOf(sort, n, m).threshold
  BY DEF OwnerOf, Party, Things

LEMMA CanSignConcat ==
    ASSUME NEW s \in Seq(Party), NEW t \in Seq(Party), CanSign(s), CanSign(t)
    PROVE  CanSign(s \o t)
  <1>1. /\ s \o t \in Seq(Party) /\ Len(s \o t) = Len(s) + Len(t)
        /\ \A i \in 1 .. Len(s) + Len(t) :
               (s \o t)[i] = IF i <= Len(s) THEN s[i] ELSE t[i - Len(s)]
    BY ConcatProperties
  <1>2. /\ Len(s) \in Nat /\ DOMAIN s = 1..Len(s)
        /\ Len(t) \in Nat /\ DOMAIN t = 1..Len(t)
    BY LenProperties
  <1>3. DOMAIN (s \o t) = 1..(Len(s) + Len(t))
    BY <1>1, LenProperties
  <1>4. ASSUME NEW i \in 1..(Len(s) + Len(t))
        PROVE  /\ (s \o t)[i].addresses \in Nat /\ (s \o t)[i].threshold \in Nat
               /\ (s \o t)[i].addresses >= (s \o t)[i].threshold
    <2>1. CASE i <= Len(s)
      <3>1. i \in DOMAIN s
        BY <1>2, <2>1
      <3>2. QED
        BY <1>1, <2>1, <3>1 DEF CanSign
    <2>2. CASE ~(i <= Len(s))
      <3>1. i - Len(s) \in DOMAIN t
        BY <1>2, <2>2
      <3>2. QED
        BY <1>1, <2>2, <3>1 DEF CanSign
    <2>3. QED
      BY <2>1, <2>2
  <1>5. QED
    BY <1>3, <1>4 DEF CanSign

\* What is signed for the inputs, and for the imports.
InPart(t) == [k \in DOMAIN t.ins |-> <<"in", t.ins[k].id>>]

ImportPart(t) == [k \in DOMAIN t.imports |-> <<"import", Sorted(ToSet(t.imports))[k].id>>]

LEMMA InPartFits ==
    ASSUME NEW t, InputsFit(t.ins)
    PROVE  /\ InPart(t) \in Seq(Things) /\ Len(InPart(t)) = Len(t.ins)
           /\ DOMAIN t.ins = 1..Len(t.ins) /\ Len(t.ins) \in Nat
  <1>1. t.ins \in Seq(Input)
    BY DEF InputsFit
  <1>2. /\ DOMAIN t.ins = 1..Len(t.ins) /\ Len(t.ins) \in Nat
        /\ t.ins \in [1..Len(t.ins) -> Input]
    BY <1>1, LenProperties
  <1>3. InPart(t) \in [1..Len(t.ins) -> Things]
    BY <1>2 DEF InPart, Things, Sorts, Input
  <1>4. InPart(t) \in Seq(Things) /\ Len(InPart(t)) = Len(t.ins)
    BY <1>2, <1>3
  <1>5. QED
    BY <1>2, <1>4

\* The serialised inputs are the inputs and the imports in their order.
LEMMA InBytesIs ==
    ASSUME NEW t
    PROVE  InBytes(t) = InPart(t) \o ImportPart(t)
  BY DEF InBytes, InPart, ImportPart

\* A transaction without imports has to be signed for its inputs and the parties.
LEMMA InBytesPlain ==
    ASSUME NEW t, InputsFit(t.ins), t.imports = <<>>
    PROVE  InBytes(t) = InPart(t)
  <1>1. InPart(t) \in Seq(Things)
    BY InPartFits
  <1>2. ImportPart(t) = <<>>
    BY DEF ImportPart
  <1>3. InPart(t) \o <<>> = InPart(t)
    BY <1>1, ConcatEmptySeq
  <1>4. QED
    BY <1>2, <1>3, InBytesIs, Zenon

\* The owners of the answer, and those of what else is signed for.
LEMMA OwnersAlign ==
    ASSUME call \in Calls, caminoEnabled, AnswerOK(answer),
           NEW t, t.ins = answer.ins,
           NEW others \in Seq(Party), t.owners = answer.owners \o others,
           InBytes(t) \o Parties = InPart(t) \o Owned(others),
           CanSign(others) \/ NobodySigns
    PROVE  Aligned(t)
  <1> DEFINE mine == answer.owners
  <1>1. InputsFit(t.ins) /\ mine = [k \in DOMAIN t.ins |-> Owner("in", t.ins[k].id)]
    BY DEF AnswerOK
  <1>2. DOMAIN t.ins = 1..Len(t.ins) /\ Len(t.ins) \in Nat
    BY <1>1, InPartFits
  <1>3. t.ins \in [1..Len(t.ins) -> Input]
    BY <1>1, LenProperties DEF InputsFit
  <1>4. \A k \in 1..Len(t.ins) : t.ins[k].id \in Nat
    BY <1>3 DEF Input
  <1>5. \A k \in 1..Len(t.ins) :
            /\ mine[k] \in Party /\ mine[k].of = <<"in", t.ins[k].id>>
            /\ mine[k].addresses >= mine[k].threshold
    BY <1>1, <1>2, <1>4, OwnerType DEF Sorts
  <1>6. DOMAIN mine = 1..Len(t.ins)
    BY <1>1, <1>2
  <1>7. mine \in [1..Len(t.ins) -> Party]
    BY <1>1, <1>5, <1>6
  <1> HIDE DEF mine
  <1>8. mine \in Seq(Party)
    BY <1>2, <1>7, SeqDef
  <1>9. Owned(mine) = InPart(t)
    BY <1>2, <1>5, <1>6 DEF Owned, InPart
  <1>10. Owned(t.owners) = InBytes(t) \o Parties
    <2>1. Owned(mine \o others) = Owned(mine) \o Owned(others)
      BY <1>8, OwnedConcat
    <2>2. t.owners = mine \o others
      BY DEF mine
    <2>3. QED
      BY <1>9, <2>1, <2>2, Zenon
  <1>11. CanSign(mine)
    BY <1>5, <1>6 DEF CanSign, Party
  <1>12. CanSign(others) => CanSign(t.owners)
    <2>1. CanSign(others) => CanSign(mine \o others)
      BY <1>8, <1>11, CanSignConcat
    <2>2. QED
      BY <2>1 DEF mine
  <1>13. QED
    BY <1>10, <1>12 DEF Aligned

\* Nothing is imported: the parties come after the inputs.
LEMMA PlainAligns ==
    ASSUME call \in Calls, caminoEnabled, AnswerOK(answer),
           NEW t, t.ins = answer.ins, t.imports = <<>>,
           NEW others \in Seq(Party), t.owners = answer.owners \o others,
           Owned(others) = Parties, CanSign(others) \/ NobodySigns
    PROVE  Aligned(t)
  <1>1. InputsFit(t.ins)
    BY DEF AnswerOK
  <1>2. InBytes(t) \o Parties = InPart(t) \o Owned(others)
    BY <1>1, InBytesPlain
  <1>3. QED
    BY <1>2, OwnersAlign

-----------------------------------------------------------------------------
\* After the await: every transaction that is made is as it should be.

Ready ==
    call \in Calls /\ AskOK(ask, lockMode) /\ AnswerOK(answer) /\ (PaysItself => answer = NoAnswer)

FinishLeads == End("failed") \/ \E t : Finish(t) /\ TxOK(t)

LEMMA Amounts ==
    ASSUME Ready, NEW a \in Asset
    PROVE  /\ Total(ToSet(answer.ins))[a] \in Nat
           /\ answer.outs[a] \in Nat /\ answer.change[a] \in Nat
           /\ BurnDue(a) \in Nat /\ AmountDue(a) \in Nat
           /\ AllOutputs[a] = answer.outs[a] + answer.change[a]
           /\ LET spent == Total(ToSet(answer.ins))[a] - AllOutputs[a]
              IN IF lockMode = "Stake" THEN spent >= 0 /\ spent <= BurnDue(a) ELSE spent = BurnDue(a)
           /\ AllOutputs[a] >= AmountDue(a) /\ answer.outs[a] >= AmountDue(a)
  <1>1. ToSet(answer.ins) \in SUBSET Funds
    BY DEF Ready, AnswerOK, InputsFit
  <1>2. Total(ToSet(answer.ins))[a] \in Nat
    BY <1>1, FundsFit
  <1>3. answer.outs[a] \in Nat /\ answer.change[a] \in Nat /\ answer.outs[a] >= AmountDue(a)
    BY DEF Ready, AnswerOK
  <1>4. BurnDue(a) \in Nat /\ AmountDue(a) \in Nat
    BY DEF Ready, AskOK, BurnIn, AmountIn
  <1>5. AllOutputs[a] = answer.outs[a] + answer.change[a]
    BY DEF AllOutputs, Plus
  <1>6. IF lockMode = "Stake" THEN Spent(answer, a) >= 0 /\ Spent(answer, a) <= BurnDue(a)
        ELSE Spent(answer, a) = BurnDue(a)
    BY DEF Ready, AnswerOK
  <1>7. Spent(answer, a) = Total(ToSet(answer.ins))[a] - AllOutputs[a]
    BY <1>2, <1>3, <1>5 DEF Spent
  <1>8. QED
    BY <1>2, <1>3, <1>4, <1>5, <1>6, <1>7

LEMMA TxWithIs ==
    ASSUME NEW outs, NEW owners
    PROVE  LET t == TxWith(outs, owners)
           IN /\ t.ins = answer.ins /\ t.imports = <<>> /\ t.outs = outs
              /\ t.exported = Nothing /\ t.staked = Nothing /\ t.owners = owners
  BY DEF TxWith, NoTx

LEMMA NothingImported ==
    ASSUME NEW a \in Asset
    PROVE  Total(ToSet(<<>>))[a] = 0 /\ Nothing[a] = 0
  <1>1. Total({})[a] = 0
    BY TotalNone
  <1>2. Total(ToSet(<<>>))[a] = Total({})[a]
    BY NoInputs, Zenon
  <1>3. QED
    BY <1>1, <1>2 DEF Nothing

\* The transaction has the outputs of the answer, and mints and exports nothing.
LEMMA PlainOK ==
    ASSUME Ready, NEW owners, NEW t, t = TxWith(AllOutputs, owners),
           call.kind \notin {"Import", "Export", "Claim", "AddValidator", "AddDelegator"},
           caminoEnabled /\ HasItsOwners => Aligned(t)
    PROVE  TxOK(t)
  <1>1. /\ t.ins = answer.ins /\ t.imports = <<>> /\ t.outs = AllOutputs
        /\ t.exported = Nothing /\ t.staked = Nothing
    BY TxWithIs
  <1>2. ASSUME NEW a \in Asset
        PROVE  LET burned == Total(ToSet(t.ins))[a] + Total(ToSet(t.imports))[a] + MintedOf(a)
                                 - (t.outs[a] + t.exported[a] + t.staked[a])
               IN IF lockMode = "Stake" THEN burned >= 0 /\ burned <= FeeOf(a) ELSE burned = FeeOf(a)
    <2>1. BurnDue(a) = FeeOf(a) /\ MintedOf(a) = 0
      BY DEF BurnDue, MintedOf
    <2>2. Total(ToSet(t.imports))[a] = 0 /\ Nothing[a] = 0
      BY <1>1, NothingImported
    <2> DEFINE T == Total(ToSet(answer.ins))[a]
               A == AllOutputs[a]
    <2>3. /\ T \in Nat /\ A \in Nat
          /\ IF lockMode = "Stake" THEN T - A >= 0 /\ T - A <= BurnDue(a) ELSE T - A = BurnDue(a)
      BY Amounts
    <2>4. Total(ToSet(t.ins))[a] = T /\ t.outs[a] = A /\ t.exported[a] = 0 /\ t.staked[a] = 0
      BY <1>1, <2>2
    <2> HIDE DEF T, A
    <2>5. Total(ToSet(t.ins))[a] + Total(ToSet(t.imports))[a] + MintedOf(a)
              - (t.outs[a] + t.exported[a] + t.staked[a]) = T - A
      BY <2>1, <2>2, <2>3, <2>4
    <2>6. QED
      BY <2>1, <2>3, <2>5
  <1>3. Balanced(t)
    BY <1>2 DEF Balanced
  <1>4. Directed(t)
    <2>1. /\ call.asset \in Asset /\ call.feeAsset \in Asset
      BY CallType DEF Ready
    <2>2. AllOutputs[call.asset] >= AmountDue(call.asset) /\ AllOutputs[call.feeAsset] >= AmountDue(call.feeAsset)
      BY <2>1, Amounts
    <2>3. call.kind \in {"Base", "CaminoAddValidator", "AddProposal"} => AmountDue(call.asset) = call.amount
      BY DEF AmountDue, SendsAsset
    <2>4. call.kind = "Deposit" /\ call.fee > 0 => AmountDue(call.feeAsset) = call.amount
      BY DEF AmountDue, SendsAsset
    <2>5. QED
      BY <1>1, <2>2, <2>3, <2>4 DEF Directed
  <1>5. QED
    BY <1>1, <1>3, <1>4 DEF TxOK

\* A plain transaction whose owners are those of the answer and others.
LEMMA PlainLeads ==
    ASSUME Ready, NEW owners, Finish(TxWith(AllOutputs, owners)),
           call.kind \notin {"Import", "Export", "Claim", "AddValidator", "AddDelegator"},
           NEW others \in Seq(Party),
           caminoEnabled /\ HasItsOwners =>
               /\ owners = answer.owners \o others /\ Owned(others) = Parties
               /\ CanSign(others) \/ NobodySigns
    PROVE  FinishLeads
  <1> DEFINE t == TxWith(AllOutputs, owners)
  <1>1. t.ins = answer.ins /\ t.imports = <<>> /\ t.owners = owners
    BY TxWithIs
  <1>2. Finish(t) /\ t = TxWith(AllOutputs, owners)
    OBVIOUS
  <1> HIDE DEF t
  <1>3. caminoEnabled /\ HasItsOwners => Aligned(t)
    <2> SUFFICES ASSUME caminoEnabled, HasItsOwners PROVE Aligned(t)
      OBVIOUS
    <2>1. Owned(others) = Parties /\ (CanSign(others) \/ NobodySigns)
      OBVIOUS
    <2>2. t.owners = answer.owners \o others
      BY <1>1
    <2>3. QED
      BY <1>1, <2>1, <2>2, PlainAligns DEF Ready
  <1>4. TxOK(t)
    BY <1>2, <1>3, PlainOK
  <1>5. QED
    BY <1>2, <1>4 DEF FinishLeads

\* The owners of the answer are a sequence, whenever there are any; without
\* Camino the owners may be anything.
LEMMA AnswerOwners ==
    ASSUME Ready, caminoEnabled
    PROVE  answer.owners \in Seq(Party)
  <1> DEFINE mine == answer.owners
             ins == answer.ins
  <1>1. ins \in Seq(Input) /\ mine = [k \in DOMAIN ins |-> Owner("in", ins[k].id)]
    BY DEF Ready, AnswerOK, InputsFit
  <1> HIDE DEF mine, ins
  <1>2. Len(ins) \in Nat /\ DOMAIN ins = 1..Len(ins) /\ ins \in [1..Len(ins) -> Input]
    BY <1>1, LenProperties
  <1>3. \A k \in 1..Len(ins) : Owner("in", ins[k].id) \in Party
    BY <1>2, OwnerType DEF Input, Sorts
  <1>4. mine \in [1..Len(ins) -> Party]
    BY <1>1, <1>2, <1>3
  <1>5. QED
    BY <1>2, <1>4, SeqDef DEF mine

\* Nobody else signs.
LEMMA NoOthers ==
    ASSUME Ready, caminoEnabled
    PROVE  /\ <<>> \in Seq(Party) /\ Owned(<<>>) = <<>> /\ CanSign(<<>>)
           /\ answer.owners = answer.owners \o <<>>
  <1>1. answer.owners = answer.owners \o <<>>
    BY AnswerOwners, ConcatEmptySeq
  <1>2. QED
    BY <1>1 DEF Owned, CanSign

LEMMA OneOther ==
    ASSUME Ready, caminoEnabled, NEW p \in Party
    PROVE  /\ <<p>> \in Seq(Party) /\ Owned(<<p>>) = <<p.of>>
           /\ p.addresses >= p.threshold => CanSign(<<p>>)
           /\ Append(answer.owners, p) = answer.owners \o <<p>>
  <1>1. Append(answer.owners, p) = answer.owners \o <<p>>
    BY AnswerOwners, AppendIsConcat
  <1>2. QED
    BY <1>1, OneParty DEF CanSign, Party

LEMMA FinishPlain == ASSUME Ready, FinishPlainTx PROVE FinishLeads
  <1>1. call.kind \in {"Base", "CreateSubnet"} /\ Finish(TxWith(AllOutputs, answer.owners))
    BY DEF FinishPlainTx, Answered
  <1>2. <<>> \in Seq(Party)
    OBVIOUS
  <1>3. caminoEnabled => answer.owners = answer.owners \o <<>> /\ Owned(<<>>) = <<>> /\ CanSign(<<>>)
    BY NoOthers
  <1>4. Parties = <<>>
    BY <1>1 DEF Parties, Authorisations
  <1>5. QED
    BY <1>1, <1>2, <1>3, <1>4, PlainLeads

LEMMA FinishOneParty == ASSUME Ready, FinishOnePartyTx PROVE FinishLeads
  <1> DEFINE p == Owner("party", 1)
  <1>1. /\ call.kind \in {"CaminoAddValidator", "AddDepositOffer", "AddProposal", "AddVote"}
        /\ Finish(TxWith(AllOutputs, Append(answer.owners, p)))
    BY DEF FinishOnePartyTx, Answered
  <1>2. p \in Party /\ p.of = <<"party", 1>> /\ p.addresses >= p.threshold
    BY OwnerType DEF Sorts
  <1> HIDE DEF p
  <1>3. <<p>> \in Seq(Party)
    BY <1>2
  <1>4. caminoEnabled => /\ Append(answer.owners, p) = answer.owners \o <<p>>
                         /\ Owned(<<p>>) = <<<<"party", 1>>>> /\ CanSign(<<p>>)
    BY <1>2, OneOther
  <1>5. Parties = <<<<"party", 1>>>>
    BY <1>1 DEF Parties, Authorisations
  <1>6. QED
    BY <1>1, <1>3, <1>4, <1>5, PlainLeads

\* The owners of a subnet are as many as have to sign; if that is nobody, nobody can.
LEMMA SubnetOwner ==
    ASSUME call \in Calls, call.kind \in {"AddSubnetValidator", "CreateChain"}
    PROVE  LET p == OwnerOf("subnet", Len(call.auth), Len(call.auth))
           IN /\ p \in Party /\ p.of = <<"subnet", 1>>
              /\ p.addresses >= p.threshold \/ NobodySigns
  <1>1. call.auth \in Seq(Nat)
    BY CallType
  <1>2. Len(call.auth) \in Nat /\ (call.auth # <<>> => Len(call.auth) > 0)
    BY <1>1, EmptySeq
  <1>3. CASE call.auth = <<>>
    BY <1>2, <1>3, OwnerOfType DEF NobodySigns, Sorts
  <1>4. CASE call.auth # <<>>
    BY <1>2, <1>4, OwnerOfType DEF Sorts
  <1>5. QED
    BY <1>3, <1>4

LEMMA FinishCreateChain == ASSUME Ready, FinishCreateChainTx PROVE FinishLeads
  <1> DEFINE p == OwnerOf("subnet", Len(call.auth), Len(call.auth))
  <1>1. call.kind = "CreateChain" /\ Finish(TxWith(AllOutputs, Append(answer.owners, p)))
    BY DEF FinishCreateChainTx, Answered
  <1>2. p \in Party /\ p.of = <<"subnet", 1>> /\ (p.addresses >= p.threshold \/ NobodySigns)
    BY <1>1, SubnetOwner DEF Ready
  <1> HIDE DEF p
  <1>3. <<p>> \in Seq(Party)
    BY <1>2
  <1>4. caminoEnabled => /\ Append(answer.owners, p) = answer.owners \o <<p>>
                         /\ Owned(<<p>>) = <<<<"subnet", 1>>>>
                         /\ p.addresses >= p.threshold => CanSign(<<p>>)
    BY <1>2, OneOther
  <1>5. Parties = <<<<"subnet", 1>>>>
    BY <1>1 DEF Parties, Authorisations
  <1>6. QED
    BY <1>1, <1>2, <1>3, <1>4, <1>5, PlainLeads

LEMMA TwoThings ==
    ASSUME NEW x \in Things, NEW y \in Things
    PROVE  <<x>> \o <<y>> = <<x, y>>
  <1> DEFINE s == <<x>>
             t == <<y>>
             u == <<x, y>>
  <1>1. /\ s \in Seq(Things) /\ Len(s) = 1 /\ s[1] = x
        /\ t \in Seq(Things) /\ Len(t) = 1 /\ t[1] = y
        /\ u \in Seq(Things) /\ Len(u) = 2 /\ u[1] = x /\ u[2] = y
    OBVIOUS
  <1> HIDE DEF s, t, u
  <1>2. /\ s \o t \in Seq(Things) /\ Len(s \o t) = Len(s) + Len(t)
        /\ \A i \in 1 .. Len(s) + Len(t) : (s \o t)[i] = IF i <= Len(s) THEN s[i] ELSE t[i - Len(s)]
    BY <1>1, ConcatProperties
  <1>3. Len(s \o t) = 2 /\ (s \o t)[1] = x /\ (s \o t)[2] = y
    BY <1>1, <1>2
  <1>4. \A i \in 1..2 : (s \o t)[i] = u[i]
    BY <1>1, <1>3
  <1>5. s \o t = u
    BY <1>1, <1>2, <1>3, <1>4, SeqEqual
  <1>6. QED
    BY <1>5 DEF s, t, u

LEMMA FinishAddSubnetValidator == ASSUME Ready, FinishAddSubnetValidatorTx PROVE FinishLeads
  <1> DEFINE p == OwnerOf("subnet", Len(call.auth), Len(call.auth))
             q == Owner("node", 1)
             others == SubnetThenNode
  <1>1. call.kind = "AddSubnetValidator" /\ Finish(TxWith(AllOutputs, answer.owners \o others))
    BY DEF FinishAddSubnetValidatorTx, Answered
  <1>2. p \in Party /\ p.of = <<"subnet", 1>> /\ (p.addresses >= p.threshold \/ NobodySigns)
    BY <1>1, SubnetOwner DEF Ready
  <1>3. q \in Party /\ q.of = <<"node", 1>> /\ q.addresses >= q.threshold
    BY OwnerType DEF Sorts
  <1>4. others = <<p>> \o (IF caminoEnabled THEN <<q>> ELSE <<>>)
    BY DEF SubnetThenNode
  <1> HIDE DEF p, q, others
  <1>5. <<p>> \in Seq(Party) /\ <<q>> \in Seq(Party) /\ <<>> \in Seq(Party)
    BY <1>2, <1>3
  <1>6. others \in Seq(Party)
    BY <1>4, <1>5, OwnedConcat
  <1>7. ASSUME caminoEnabled
        PROVE  Owned(others) = Parties /\ (CanSign(others) \/ NobodySigns)
    <2>1. others = <<p>> \o <<q>>
      BY <1>4, <1>7
    <2>2. Owned(<<p>>) = <<<<"subnet", 1>>>> /\ Owned(<<q>>) = <<<<"node", 1>>>>
      BY <1>2, <1>3, OneParty
    <2>3. Owned(<<p>> \o <<q>>) = Owned(<<p>>) \o Owned(<<q>>)
      BY <1>5, OwnedConcat
    <2>4. <<<<"subnet", 1>>>> \o <<<<"node", 1>>>> = <<<<"subnet", 1>>, <<"node", 1>>>>
      <3>1. <<"subnet", 1>> \in Things /\ <<"node", 1>> \in Things
        BY DEF Things, Sorts
      <3>2. QED
        BY <3>1, TwoThings
    <2>5. Parties = <<<<"subnet", 1>>, <<"node", 1>>>>
      BY <1>1, <1>7 DEF Parties, Authorisations
    <2>6. Owned(others) = Parties
      BY <2>1, <2>2, <2>3, <2>4, <2>5, Zenon
    <2>7. CanSign(<<q>>) /\ (p.addresses >= p.threshold => CanSign(<<p>>))
      BY <1>2, <1>3, OneParty DEF CanSign, Party
    <2>8. CanSign(<<p>>) => CanSign(<<p>> \o <<q>>)
      BY <1>5, <2>7, CanSignConcat
    <2>9. CanSign(others) \/ NobodySigns
      BY <1>2, <2>1, <2>7, <2>8
    <2>10. QED
      BY <2>6, <2>9
  <1>8. QED
    BY <1>1, <1>6, <1>7, PlainLeads

LEMMA FinishMultisigAlias == ASSUME Ready, FinishMultisigAliasTx PROVE FinishLeads
  <1> DEFINE p == Owner("party", 1)
             others == IF call.named THEN <<p>> ELSE <<>>
  <1>1. call.kind = "MultisigAlias" /\ Finish(TxWith(AllOutputs, answer.owners \o others))
    BY DEF FinishMultisigAliasTx, Answered
  <1>2. p \in Party /\ p.of = <<"party", 1>> /\ p.addresses >= p.threshold
    BY OwnerType DEF Sorts
  <1> HIDE DEF p
  <1>3. others \in Seq(Party)
    BY <1>2
  <1>4. caminoEnabled => CanSign(others) /\ Owned(others) = Parties
    <2>1. Parties = IF call.named THEN <<<<"party", 1>>>> ELSE <<>>
      BY <1>1 DEF Parties
    <2>2. CASE call.named
      BY <1>2, <2>1, <2>2, OneOther
    <2>3. CASE ~call.named
      BY <2>1, <2>3, NoOthers
    <2>4. QED
      BY <2>2, <2>3
  <1> HIDE DEF others
  <1>5. QED
    BY <1>1, <1>3, <1>4, PlainLeads

\* The kinds whose owners are not those of the signatures.
LEMMA FinishMisaligned ==
    ASSUME Ready, NEW owners, Finish(TxWith(AllOutputs, owners)),
           call.kind \in {"AddressState", "RegisterNode", "Deposit", "UnlockDeposit"}
    PROVE  FinishLeads
  <1>1. ~HasItsOwners
    BY DEF HasItsOwners, AlignedKinds
  <1>2. <<>> \in Seq(Party)
    OBVIOUS
  <1>3. QED
    BY <1>1, <1>2, PlainLeads

LEMMA FinishOthers ==
    ASSUME Ready,
           FinishAddressStateTx \/ FinishRegisterNodeTx \/ FinishDepositTx \/ FinishUnlockDepositTx
    PROVE  FinishLeads
  <1>1. CASE FinishAddressStateTx
    BY <1>1, FinishMisaligned DEF FinishAddressStateTx, Answered
  <1>2. CASE FinishRegisterNodeTx
    BY <1>2, FinishMisaligned DEF FinishRegisterNodeTx, Answered
  <1>3. CASE FinishDepositTx
    BY <1>3, FinishMisaligned DEF FinishDepositTx, Answered
  <1>4. CASE FinishUnlockDepositTx
    BY <1>4, FinishMisaligned DEF FinishUnlockDepositTx, Answered
  <1>5. QED
    BY <1>1, <1>2, <1>3, <1>4

\* The fee comes from the imports, from the senders, or from both.
LEMMA FinishImport == ASSUME Ready, FinishImportTx PROVE FinishLeads
  <1> DEFINE importOwners == [k \in 1..Len(call.imports) |-> Owner("import", call.imports[k].id)]
             rest == FeeRemaining(call)
             made == IF FeeCheck(rest) THEN TxWith(AllOutputs, answer.owners \o importOwners)
                     ELSE TxWith(ImportFee(call).outs, <<>>)
             t == [made EXCEPT !.imports = call.imports]
             I(a) == Total(ToSet(call.imports))[a]
  <1>1. call.kind = "Import" /\ Finish(t)
    BY DEF FinishImportTx, Answered
  <1>2. /\ t.ins = answer.ins /\ t.imports = call.imports
        /\ t.exported = Nothing /\ t.staked = Nothing
        /\ t.outs = IF rest > 0 THEN AllOutputs ELSE ImportFee(call).outs
    BY DEF TxWith, NoTx, FeeCheck
  <1>3. /\ rest \in Nat /\ rest <= call.fee /\ call.fee \in Nat
        /\ ImportFee(call).outs \in [Asset -> Nat]
        /\ \A a \in Asset :
               ImportFee(call).outs[a] + (IF a = call.feeAsset THEN call.fee - rest ELSE 0) = I(a)
        /\ rest > 0 => ImportFee(call).outs[call.feeAsset] = 0
    BY ImportFits, CallType DEF Ready
  <1>4. lockMode # "Stake"
    BY <1>1 DEF Ready, AskOK
  <1>5. ASSUME ~DropsImports, NEW a \in Asset
        PROVE  LET burned == Total(ToSet(t.ins))[a] + Total(ToSet(t.imports))[a] + MintedOf(a)
                                 - (t.outs[a] + t.exported[a] + t.staked[a])
               IN burned = FeeOf(a)
    <2> HIDE DEF t, made
    <2> DEFINE T == Total(ToSet(answer.ins))[a]
               A == AllOutputs[a]
               O == ImportFee(call).outs[a]
               i == I(a)
    <2>1. /\ T \in Nat /\ A \in Nat
          /\ T - A = (IF a = call.feeAsset THEN rest ELSE 0)
      BY <1>1, <1>4, Amounts DEF BurnDue
    <2>2. /\ O \in Nat /\ O + (IF a = call.feeAsset THEN call.fee - rest ELSE 0) = i
          /\ rest > 0 /\ a = call.feeAsset => O = 0
      BY <1>3
    <2>3. MintedOf(a) = 0 /\ Nothing[a] = 0 /\ FeeOf(a) = (IF a = call.feeAsset THEN call.fee ELSE 0)
      BY <1>1, NothingImported DEF MintedOf, FeeOf
    <2>4. rest = 0 => T = 0
      <3>1. rest = 0 => answer.ins = <<>>
        BY <1>1 DEF Ready, PaysItself, NoAnswer
      <3>2. Total(ToSet(<<>>))[a] = 0
        BY NothingImported
      <3>3. QED
        BY <3>1, <3>2
    <2>5. rest > 0 /\ a # call.feeAsset => i = 0
      <3> SUFFICES ASSUME rest > 0, a # call.feeAsset PROVE i = 0
        OBVIOUS
      <3>1. \A k \in DOMAIN call.imports : call.imports[k].asset = call.feeAsset
        BY <1>1, <1>5 DEF DropsImports, FeeCheck
      <3>2. \A u \in ToSet(call.imports) : u.asset # a
        BY <3>1 DEF ToSet
      <3>3. QED
        BY <3>2, TotalNone
    <2>6. Total(ToSet(t.ins))[a] = T /\ Total(ToSet(t.imports))[a] = i
      BY <1>2
    <2>7. t.outs[a] = (IF rest > 0 THEN A ELSE O) /\ t.exported[a] = 0 /\ t.staked[a] = 0
      BY <1>2, <2>3
    <2> HIDE DEF T, A, O, i, rest
    <2>8. T + i - (IF rest > 0 THEN A ELSE O) = (IF a = call.feeAsset THEN call.fee ELSE 0)
      <3>1. CASE rest = 0
        BY <1>3, <2>2, <2>4, <3>1
      <3>2. CASE rest > 0 /\ a = call.feeAsset
        BY <1>3, <2>1, <2>2, <3>2
      <3>3. CASE rest > 0 /\ a # call.feeAsset
        BY <1>3, <2>1, <2>5, <3>3
      <3>4. QED
        BY <1>3, <3>1, <3>2, <3>3
    <2>9. QED
      <3>1. i \in Int /\ T \in Int /\ t.outs[a] \in Int
        BY <1>3, <2>1, <2>2, <2>7
      <3>2. QED
        BY <2>3, <2>6, <2>7, <2>8, <3>1
  <1> HIDE DEF t
  <1>6. ~DropsImports => Balanced(t)
    BY <1>4, <1>5 DEF Balanced
  <1>7. Directed(t)
    BY <1>1 DEF Directed
  <1>8. ASSUME caminoEnabled, HasItsOwners
        PROVE  Aligned(t)
    <2> DEFINE m == Len(call.imports)
               o == [k \in 1..m |-> Owner("import", call.imports[k].id)]
    <2>1. rest > 0 /\ call.imports = Sorted(ToSet(call.imports))
      BY <1>1, <1>8 DEF HasItsOwners, FeeCheck
    <2>2. t.owners = answer.owners \o o
      BY <2>1 DEF t, TxWith, NoTx, FeeCheck
    <2>3. m \in Nat /\ DOMAIN call.imports = 1..m /\ call.imports \in [1..m -> Input]
      BY CallType, LenProperties DEF Ready
    <2> HIDE DEF m
    <2>4. \A k \in 1..m : /\ o[k] \in Party /\ o[k].of = <<"import", call.imports[k].id>>
                          /\ o[k].addresses >= o[k].threshold
      BY <2>3, OwnerType DEF Sorts, Input
    <2> HIDE DEF o
    <2>5. DOMAIN o = 1..m /\ o \in [1..m -> Party]
      BY <2>4 DEF o
    <2>6. o \in Seq(Party) /\ CanSign(o)
      <3>1. o \in Seq(Party)
        BY <2>3, <2>5, SeqDef
      <3>2. CanSign(o)
        BY <2>4, <2>5 DEF CanSign, Party
      <3>3. QED
        BY <3>1, <3>2
    <2>7. Owned(o) = ImportPart(t)
      <3>1. ImportPart(t) = [k \in 1..m |-> <<"import", call.imports[k].id>>]
        BY <1>2, <2>1, <2>3 DEF ImportPart
      <3>2. Owned(o) = [k \in 1..m |-> <<"import", call.imports[k].id>>]
        BY <2>4, <2>5 DEF Owned
      <3>3. QED
        BY <3>1, <3>2
    <2>8. InBytes(t) \o Parties = InPart(t) \o Owned(o)
      <3>1. Parties = <<>>
        BY <1>1 DEF Parties, Authorisations
      <3>2. InPart(t) \in Seq(Things) /\ Owned(o) \in Seq(Things)
        BY <1>2, <2>6, InPartFits, OwnedType DEF Ready, AnswerOK
      <3>3. InPart(t) \o Owned(o) \in Seq(Things)
        BY <3>2, ConcatProperties
      <3>4. InBytes(t) = InPart(t) \o Owned(o)
        BY <2>7, InBytesIs
      <3>5. InBytes(t) \o <<>> = InBytes(t)
        BY <3>3, <3>4, ConcatEmptySeq
      <3>6. QED
        BY <3>1, <3>4, <3>5
    <2>9. QED
      BY <1>2, <1>8, <2>2, <2>6, <2>8, OwnersAlign DEF Ready
  <1>9. TxOK(t)
    BY <1>1, <1>2, <1>6, <1>7, <1>8 DEF TxOK
  <1>10. QED
    BY <1>1, <1>9 DEF FinishLeads

\* What is exported was asked for as a burn.
LEMMA FinishExport == ASSUME Ready, FinishExportTx PROVE FinishLeads
  <1> DEFINE t == [TxWith(AllOutputs, answer.owners) EXCEPT !.exported[call.asset] = call.amount]
  <1>1. call.kind = "Export" /\ Finish(t)
    BY DEF FinishExportTx, Answered
  <1>2. /\ t.ins = answer.ins /\ t.imports = <<>> /\ t.outs = AllOutputs
        /\ t.exported = [Nothing EXCEPT ![call.asset] = call.amount]
        /\ t.staked = Nothing /\ t.owners = answer.owners
    BY DEF TxWith, NoTx
  <1>3. lockMode # "Stake" /\ call.feeAsset = call.asset
    BY <1>1 DEF Ready, AskOK
  <1>4. call.asset \in Asset /\ call.amount \in Nat /\ call.fee \in Nat
    BY CallType DEF Ready
  <1> HIDE DEF t
  <1>5. ASSUME NEW a \in Asset
        PROVE  LET burned == Total(ToSet(t.ins))[a] + Total(ToSet(t.imports))[a] + MintedOf(a)
                                 - (t.outs[a] + t.exported[a] + t.staked[a])
               IN burned = FeeOf(a)
    <2> DEFINE T == Total(ToSet(answer.ins))[a]
               A == AllOutputs[a]
    <2>1. /\ T \in Nat /\ A \in Nat
          /\ T - A = (IF a = call.feeAsset THEN call.fee + call.amount ELSE 0)
      BY <1>1, <1>3, Amounts DEF BurnDue
    <2>2. MintedOf(a) = 0 /\ FeeOf(a) = (IF a = call.feeAsset THEN call.fee ELSE 0)
      BY <1>1 DEF MintedOf, FeeOf
    <2>3. Total(ToSet(t.imports))[a] = 0 /\ Nothing[a] = 0
      BY <1>2, NothingImported
    <2>4. t.exported[a] = (IF a = call.asset THEN call.amount ELSE 0) /\ t.staked[a] = 0
      BY <1>2, <1>4, <2>3 DEF Nothing
    <2>5. Total(ToSet(t.ins))[a] = T /\ t.outs[a] = A
      BY <1>2
    <2> HIDE DEF T, A
    <2>6. CASE a = call.asset
      BY <1>3, <1>4, <2>1, <2>2, <2>3, <2>4, <2>5, <2>6
    <2>7. CASE a # call.asset
      BY <1>3, <1>4, <2>1, <2>2, <2>3, <2>4, <2>5, <2>7
    <2>8. QED
      BY <2>6, <2>7
  <1>6. Balanced(t)
    BY <1>3, <1>5 DEF Balanced
  <1>7. Directed(t)
    BY <1>1, <1>2 DEF Directed
  <1>8. caminoEnabled => Aligned(t)
    <2> SUFFICES ASSUME caminoEnabled PROVE Aligned(t)
      OBVIOUS
    <2>1. /\ <<>> \in Seq(Party) /\ Owned(<<>>) = <<>> /\ CanSign(<<>>)
          /\ answer.owners = answer.owners \o <<>>
      BY NoOthers
    <2>2. Parties = <<>>
      BY <1>1 DEF Parties, Authorisations
    <2>3. t.owners = answer.owners \o <<>>
      BY <1>2, <2>1
    <2>4. QED
      BY <1>2, <2>1, <2>2, <2>3, PlainAligns DEF Ready
  <1>9. TxOK(t)
    BY <1>1, <1>2, <1>6, <1>7, <1>8 DEF TxOK
  <1>10. QED
    BY <1>1, <1>9 DEF FinishLeads

\* What was sent is staked; locked tokens may have stood in for the fee.
LEMMA FinishStake == ASSUME Ready, FinishStakeTx PROVE FinishLeads
  <1> DEFINE t == [TxWith(answer.change, answer.owners) EXCEPT !.staked = answer.outs]
  <1>1. call.kind \in {"AddValidator", "AddDelegator"} /\ Finish(t)
    BY DEF FinishStakeTx, Answered
  <1>2. /\ t.ins = answer.ins /\ t.imports = <<>> /\ t.outs = answer.change
        /\ t.exported = Nothing /\ t.staked = answer.outs
    BY DEF TxWith, NoTx
  <1>3. ~caminoEnabled
    BY <1>1 DEF Ready, AskOK
  <1> HIDE DEF t
  <1>4. ASSUME NEW a \in Asset
        PROVE  LET burned == Total(ToSet(t.ins))[a] + Total(ToSet(t.imports))[a] + MintedOf(a)
                                 - (t.outs[a] + t.exported[a] + t.staked[a])
               IN IF lockMode = "Stake" THEN burned >= 0 /\ burned <= FeeOf(a) ELSE burned = FeeOf(a)
    <2> DEFINE T == Total(ToSet(answer.ins))[a]
               A == AllOutputs[a]
               o == answer.outs[a]
               c == answer.change[a]
    <2>1. /\ T \in Nat /\ o \in Nat /\ c \in Nat /\ A = o + c
          /\ IF lockMode = "Stake" THEN T - A >= 0 /\ T - A <= BurnDue(a) ELSE T - A = BurnDue(a)
      BY Amounts
    <2>2. MintedOf(a) = 0 /\ BurnDue(a) = FeeOf(a)
      BY <1>1 DEF MintedOf, BurnDue
    <2>3. Total(ToSet(t.imports))[a] = 0 /\ Nothing[a] = 0
      BY <1>2, NothingImported
    <2>4. t.outs[a] = c /\ t.exported[a] = 0 /\ t.staked[a] = o /\ Total(ToSet(t.ins))[a] = T
      BY <1>2, <2>3
    <2> HIDE DEF T, A, o, c
    <2>5. Total(ToSet(t.ins))[a] + Total(ToSet(t.imports))[a] + MintedOf(a)
              - (t.outs[a] + t.exported[a] + t.staked[a]) = T - A
      BY <2>1, <2>2, <2>3, <2>4
    <2>6. QED
      BY <2>1, <2>2, <2>5
  <1>5. Balanced(t)
    BY <1>4 DEF Balanced
  <1>6. Directed(t)
    <2>1. call.asset \in Asset /\ call.fee \in Nat /\ call.amount \in Nat
      BY CallType DEF Ready
    <2>2. AmountDue(call.asset) = call.amount
      BY <1>1 DEF AmountDue, SendsAsset
    <2>3. BurnDue(call.asset) \in Nat /\ BurnDue(call.asset) <= call.fee
      BY <1>1, <2>1 DEF BurnDue, FeeOf
    <2>4. /\ answer.outs[call.asset] \in Nat
          /\ answer.outs[call.asset] >= call.amount
          /\ answer.outs[call.asset] <= call.amount + BurnDue(call.asset)
      BY <1>3, <2>1, <2>2 DEF Ready, AnswerOK
    <2>5. answer.outs[call.asset] <= call.amount + call.fee
      BY <2>1, <2>3, <2>4
    <2>6. QED
      BY <1>1, <1>2, <2>4, <2>5 DEF Directed
  <1>7. TxOK(t)
    BY <1>1, <1>2, <1>3, <1>5, <1>6 DEF TxOK
  <1>8. QED
    BY <1>1, <1>7 DEF FinishLeads

\* What is claimed is minted, and its owners sign.
LEMMA FinishClaim == ASSUME Ready, FinishClaimTx PROVE FinishLeads
  <1> DEFINE n == Len(call.claims)
             others == [k \in DOMAIN call.claims |-> Owner("claim", k)]
             outs == [AllOutputs EXCEPT ![call.feeAsset] = @ + Claimed(call)]
             t == TxWith(outs, answer.owners \o others)
  <1>0. CASE End("failed")
    BY <1>0 DEF FinishLeads
  <1>1. CASE Finish(t)
    <2>1. call.kind = "Claim"
      BY DEF FinishClaimTx, Answered
    <2>2. /\ t.ins = answer.ins /\ t.imports = <<>> /\ t.outs = outs
          /\ t.exported = Nothing /\ t.staked = Nothing /\ t.owners = answer.owners \o others
      BY DEF TxWith, NoTx
    <2>3. Claimed(call) \in Nat /\ call.feeAsset \in Asset
      BY ClaimedNat, CallType DEF Ready
    <2>4. lockMode # "Stake"
      BY <2>1 DEF Ready, AskOK
    <2>5. \A a \in Asset : outs[a] = AllOutputs[a] + (IF a = call.feeAsset THEN Claimed(call) ELSE 0)
      <3> DEFINE all == AllOutputs
      <3>1. ASSUME NEW a \in Asset PROVE all[a] \in Nat
        <4>1. answer.outs[a] \in Nat /\ answer.change[a] \in Nat /\ all[a] = answer.outs[a] + answer.change[a]
          BY Amounts
        <4>2. QED
          BY <4>1
      <3>2. all = [a \in Asset |-> answer.outs[a] + answer.change[a]]
        BY DEF AllOutputs, Plus
      <3>3. DOMAIN all = Asset
        BY <3>2
      <3>4. outs = [all EXCEPT ![call.feeAsset] = @ + Claimed(call)]
        OBVIOUS
      <3> HIDE DEF t, others, outs, all
      <3>5. \A a \in Asset : outs[a] = IF a = call.feeAsset THEN all[a] + Claimed(call) ELSE all[a]
        BY <2>3, <3>3, <3>4
      <3>6. \A a \in Asset : outs[a] = all[a] + (IF a = call.feeAsset THEN Claimed(call) ELSE 0)
        <4> SUFFICES ASSUME NEW a \in Asset
                     PROVE  outs[a] = all[a] + (IF a = call.feeAsset THEN Claimed(call) ELSE 0)
          OBVIOUS
        <4>1. all[a] \in Nat /\ (a = call.feeAsset => outs[a] = all[a] + Claimed(call))
          BY <3>1, <3>5
        <4>2. a # call.feeAsset => outs[a] = all[a]
          BY <3>5
        <4>3. QED
          BY <4>1, <4>2
      <3>7. QED
        BY <3>6 DEF all
    <2> HIDE DEF t, outs
    <2>6. ASSUME NEW a \in Asset
          PROVE  LET burned == Total(ToSet(t.ins))[a] + Total(ToSet(t.imports))[a] + MintedOf(a)
                                   - (t.outs[a] + t.exported[a] + t.staked[a])
                 IN burned = FeeOf(a)
      <3> DEFINE T == Total(ToSet(answer.ins))[a]
                 A == AllOutputs[a]
      <3>1. T \in Nat /\ A \in Nat /\ T - A = BurnDue(a)
        BY <2>4, Amounts
      <3>2. BurnDue(a) = FeeOf(a) /\ MintedOf(a) = (IF a = call.feeAsset THEN Claimed(call) ELSE 0)
        BY <2>1 DEF MintedOf, BurnDue
      <3>3. Total(ToSet(t.imports))[a] = 0 /\ Nothing[a] = 0
        BY <2>2, NothingImported
      <3>4. /\ t.outs[a] = A + MintedOf(a) /\ t.exported[a] = 0 /\ t.staked[a] = 0
            /\ Total(ToSet(t.ins))[a] = T /\ MintedOf(a) \in Nat
        BY <2>2, <2>3, <2>5, <3>2, <3>3
      <3> HIDE DEF T, A
      <3>5. QED
        BY <3>1, <3>2, <3>3, <3>4
    <2>7. Balanced(t)
      BY <2>4, <2>6 DEF Balanced
    <2>8. Directed(t)
      BY <2>1 DEF Directed
    <2>9. caminoEnabled => Aligned(t)
      <3> SUFFICES ASSUME caminoEnabled PROVE Aligned(t)
        OBVIOUS
      <3>1. DOMAIN call.claims = 1..n /\ n \in Nat
        BY CallType, LenProperties DEF Ready
      <3>2. \A k \in 1..n : /\ Owner("claim", k) \in Party /\ Owner("claim", k).of = <<"claim", k>>
                             /\ Owner("claim", k).addresses >= Owner("claim", k).threshold
        <4>1. \A k \in 1..n : k \in Nat
          OBVIOUS
        <4>2. QED
          BY <4>1, OwnerType DEF Sorts
      <3> HIDE DEF n
      <3>3. others = [k \in 1..n |-> Owner("claim", k)]
        BY <3>1
      <3> HIDE DEF others
      <3>4. others \in [1..n -> Party] /\ DOMAIN others = 1..n
        BY <3>2, <3>3
      <3>5. others \in Seq(Party)
        BY <3>1, <3>4, SeqDef
      <3>6. CanSign(others)
        BY <3>2, <3>3 DEF CanSign, Party
      <3>7. Owned(others) = [k \in 1..n |-> <<"claim", k>>]
        BY <3>2, <3>3 DEF Owned
      <3>8. Parties = [k \in 1..n |-> <<"claim", k>>]
        BY <2>1, <3>1 DEF Parties, Authorisations
      <3>9. QED
        BY <2>2, <3>5, <3>6, <3>7, <3>8, PlainAligns DEF Ready
    <2>10. TxOK(t)
      BY <2>1, <2>2, <2>7, <2>8, <2>9 DEF TxOK
    <2>11. QED
      BY <1>1, <2>10 DEF FinishLeads
  <1>2. QED
    BY <1>0, <1>1 DEF FinishClaimTx

LEMMA FinishNext ==
    ASSUME BInv, FinishTx
    PROVE  BInv'
  <1>1. phase = "answered"
    BY DEF FinishTx, FinishPlainTx, FinishImportTx, FinishExportTx, FinishStakeTx,
           FinishAddSubnetValidatorTx, FinishCreateChainTx, FinishOnePartyTx, FinishAddressStateTx,
           FinishRegisterNodeTx, FinishDepositTx, FinishUnlockDepositTx, FinishClaimTx,
           FinishMultisigAliasTx, Answered
  <1>2. Ready
    BY <1>1 DEF Ready, BInv, CallFits, AskFits, Asked, AnswerFits, Answers
  <1>3. FinishLeads
    BY <1>2, FinishPlain, FinishImport, FinishExport, FinishStake, FinishAddSubnetValidator,
       FinishCreateChain, FinishOneParty, FinishOthers, FinishClaim, FinishMultisigAlias DEF FinishTx
  <1>4. CASE End("failed")
    BY <1>4 DEF BInv, End, given, CallFits, NotAsked, AskFits, Asked, AnswerFits, Answers, TxFits, Made,
                Signed
  <1>5. ASSUME NEW t, Finish(t), TxOK(t)
        PROVE  BInv'
    <2>1. /\ tx' = t /\ phase' = "built"
          /\ UNCHANGED <<given, ask, lockMode, answer, credentials>>
      BY <1>5 DEF Finish
    <2>2. CallFits' /\ NotAsked' /\ Signed'
      BY <2>1 DEF BInv, CallFits, given, NotAsked, Signed
    <2>3. AskFits'
      <3>1. AskOK(ask, lockMode)'
        BY <1>2, <2>1, AskKept DEF Ready
      <3>2. (PaysItself => phase # "asking" /\ answer = NoAnswer)'
        BY <1>2, <2>1 DEF Ready, given, PaysItself
      <3>3. QED
        BY <3>1, <3>2 DEF AskFits
    <2>4. AnswerFits'
      BY <1>2, <2>1, AnswerKept DEF Ready, AnswerFits
    <2>5. TxOK(tx)'
      BY <1>5, <2>1 DEF given, TxOK, Balanced, Directed, Aligned, InBytes, Parties, Authorisations, DropsImports,
                        HasItsOwners, NobodySigns, MintedOf, FeeOf
    <2>6. QED
      BY <2>2, <2>3, <2>4, <2>5 DEF BInv, TxFits
  <1>6. QED
    BY <1>3, <1>4, <1>5 DEF FinishLeads

-----------------------------------------------------------------------------
\* Signing.

LEMMA SignNext ==
    ASSUME BInv, SignWithKeys \/ SignWithOwners
    PROVE  BInv'
  <1>1. /\ phase = "built" /\ phase' \in {"signed", "unsigned"}
        /\ UNCHANGED <<given, ask, lockMode, answer, tx>>
    BY DEF SignWithKeys, SignWithOwners, End
  <1>2. Ready /\ TxOK(tx)
    BY <1>1 DEF Ready, BInv, CallFits, AskFits, Asked, AnswerFits, Answers, TxFits, Made
  <1>3. CallFits' /\ NotAsked'
    BY <1>1 DEF BInv, CallFits, given, NotAsked
  <1>4. AskFits'
    <2>1. AskOK(ask, lockMode)'
      BY <1>1, <1>2, AskKept DEF Ready
    <2>2. (PaysItself => phase # "asking" /\ answer = NoAnswer)'
      BY <1>1, <1>2 DEF Ready, given, PaysItself
    <2>3. QED
      BY <2>1, <2>2 DEF AskFits
  <1>5. AnswerFits'
    BY <1>1, <1>2, AnswerKept DEF Ready, AnswerFits
  <1>6. TxFits'
    BY <1>1, <1>2, TxKept DEF TxFits
  <1>7. ASSUME phase' = "unsigned", caminoEnabled, HasItsOwners
        PROVE  NobodySigns \/ call.kind = "MultisigAlias"
    <2>1. CASE SignWithKeys
      BY <1>7, <2>1 DEF SignWithKeys
    <2>2. CASE SignWithOwners
      <3>1. ~CanSign(tx.owners)
        <4>1. \E k \in DOMAIN tx.owners : tx.owners[k].addresses < tx.owners[k].threshold
          BY <1>7, <2>2 DEF SignWithOwners
        <4>2. QED
          BY <4>1 DEF CanSign
      <3>2. QED
        BY <1>2, <1>7, <3>1 DEF TxOK, Aligned
    <2>3. QED
      BY <2>1, <2>2
  <1>8. Signed'
    BY <1>1, <1>7 DEF Signed, HasItsOwners, NobodySigns, given
  <1>9. QED
    BY <1>3, <1>4, <1>5, <1>6, <1>8 DEF BInv

-----------------------------------------------------------------------------
LEMMA Start == Init => BInv
  <1> SUFFICES ASSUME Init PROVE BInv
    OBVIOUS
  <1>1. /\ caminoEnabled \in BOOLEAN /\ call \in Calls
        /\ phase = "called" /\ ask = <<>> /\ lockMode = "Unlocked" /\ answer = NoAnswer
    BY DEF Init
  <1>2. CallFits /\ NotAsked
    BY <1>1 DEF CallFits, NotAsked
  <1>3. AskFits /\ AnswerFits /\ TxFits /\ Signed
    BY <1>1 DEF AskFits, Asked, AnswerFits, Answers, TxFits, Made, Signed
  <1>4. QED
    BY <1>2, <1>3 DEF BInv

LEMMA Step == BInv /\ [Next]_vars => BInv'
  <1> SUFFICES ASSUME BInv, [Next]_vars PROVE BInv'
    OBVIOUS
  <1>1. CASE Build
    BY <1>1, BuildNext
  <1>2. CASE SpenderAnswers \/ SpenderRefuses
    BY <1>2, SpenderNext
  <1>3. CASE FinishTx
    BY <1>3, FinishNext
  <1>4. CASE SignWithKeys \/ SignWithOwners
    BY <1>4, SignNext
  <1>5. CASE UNCHANGED vars
    <2>1. /\ UNCHANGED <<given, ask, lockMode, answer, tx>>
          /\ UNCHANGED <<caminoEnabled, call, phase, credentials>>
      BY <1>5 DEF vars, given
    <2>2. CallFits' /\ NotAsked'
      BY <2>1 DEF BInv, CallFits, NotAsked
    <2>3. AskFits'
      <3>1. AskOK(ask, lockMode) => AskOK(ask, lockMode)'
        BY <2>1, AskKept
      <3>2. QED
        BY <2>1, <3>1 DEF BInv, AskFits, Asked, PaysItself
    <2>4. AnswerFits'
      <3>1. AnswerOK(answer) => AnswerOK(answer)'
        BY <2>1, AnswerKept
      <3>2. QED
        BY <2>1, <3>1 DEF BInv, AnswerFits, Answers
    <2>5. TxFits'
      <3>1. TxOK(tx) => TxOK(tx)'
        BY <2>1, TxKept
      <3>2. QED
        BY <2>1, <3>1 DEF BInv, TxFits, Made
    <2>6. Signed'
      BY <2>1 DEF BInv, Signed, HasItsOwners, NobodySigns
    <2>7. QED
      BY <2>2, <2>3, <2>4, <2>5, <2>6 DEF BInv
  <1>6. QED
    BY <1>1, <1>2, <1>3, <1>4, <1>5 DEF Next

LEMMA Always == Spec => []BInv
  <1>1. QED
    BY Start, Step, PTL DEF Spec

\* Every transaction of every build function, for all calls, funds and answers
\* that keep the contract, burns its fee and nothing else.
THEOREM BuilderBurnsTheFee == Spec => []BurnsTheFee
  <1>1. BInv => BurnsTheFee
    <2> SUFFICES ASSUME BInv, Made, ~DropsImports, NEW a \in Asset
                 PROVE  LET burned == In(a) + MintedOf(a) - Out(a)
                        IN IF lockMode = "Stake" THEN burned >= 0 /\ burned <= FeeOf(a)
                           ELSE burned = FeeOf(a)
      BY DEF BurnsTheFee
    <2>1. Balanced(tx)
      BY DEF BInv, TxFits, TxOK
    <2>2. QED
      BY <2>1 DEF Balanced, In, Out
  <1>2. QED
    BY <1>1, Always, PTL

\* What is exported, staked, sent or locked is what the caller named.
THEOREM AmountGoesRight == Spec => []AmountGoesWhereItShould
  <1>1. BInv => AmountGoesWhereItShould
    BY DEF BInv, TxFits, TxOK, Directed, AmountGoesWhereItShould, FeeCheck
  <1>2. QED
    BY <1>1, Always, PTL

\* The owners the Spender of Camino gives are those of the signatures sign()
\* makes, in its order, and can make them.
THEOREM OwnersAreAligned == Spec => []OwnersFollowSignatures
  <1>1. BInv => OwnersFollowSignatures
    <2> SUFFICES ASSUME BInv, Made, caminoEnabled, HasItsOwners
                 PROVE  /\ [k \in DOMAIN tx.owners |-> tx.owners[k].of] = InBytes(tx) \o Parties
                        /\ phase = "unsigned" => NobodySigns \/ call.kind = "MultisigAlias"
      BY DEF OwnersFollowSignatures
    <2>1. Aligned(tx)
      BY DEF BInv, TxFits, TxOK
    <2>2. [k \in DOMAIN tx.owners |-> tx.owners[k].of] = InBytes(tx) \o Parties
      BY <2>1 DEF Aligned, Owned
    <2>3. phase = "unsigned" => NobodySigns \/ call.kind = "MultisigAlias"
      BY DEF BInv, Signed
    <2>4. QED
      BY <2>2, <2>3
  <1>2. QED
    BY <1>1, Always, PTL

=============================================================================
