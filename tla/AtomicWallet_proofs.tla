------------------------- MODULE AtomicWallet_proofs -------------------------
(***************************************************************************)
(* What a wallet moves is conserved, what it is asked to send arrives, the *)
(* chain accepts what it builds, and it refuses with a reason, for every   *)
(* set of calls, of UTXOs and of assets.                                   *)
(*                                                                         *)
(* The argument, from below: sums over sequences; what UTXOs hold when     *)
(* some are taken away and others are put in; the selection loop, whose    *)
(* inputs are outputs, change and what is burned; each function of the     *)
(* builders, whose result Fits the call it was made for; and the chains,   *)
(* that take away what a transaction consumes and put in what it makes.    *)
(*                                                                         *)
(* Conserved is inductive only with what makes a transaction of stale      *)
(* UTXOs harmless: that ids are never used again, that a UTXO which was    *)
(* fetched and is still there is the same, and that what is built fits.    *)
(*                                                                         *)
(* What a transaction says of its call needs more than that it fits: it    *)
(* is what the function of the call makes of the UTXOs that were fetched   *)
(* (BuiltAsCalled).  Then the loop is read once more, for why it fails,    *)
(* for whom its outputs are, and who signs for its inputs; that enough     *)
(* sign needs UTXOs that somebody can spend (UtxosSound).                  *)
(***************************************************************************)
EXTENDS AtomicWallet, SumTheorems, SequenceTheorems

-----------------------------------------------------------------------------
\* Sums over sequences.

\* An entry has an amount of an asset.
Amounts(S) == \A e \in S : e.amount \in Int

Share(s, a) == [k \in DOMAIN s |-> IF s[k].asset = a THEN s[k].amount ELSE 0]

\* The amount of an asset in a sequence is the sum of the shares of its entries.
LEMMA AmountShare ==
    ASSUME NEW S, Amounts(S), NEW s \in Seq(S), NEW a
    PROVE  /\ AmountIn(s, a) = SumFunctionOnSet(Share(s, a), 1..Len(s))
           /\ Len(s) \in Nat /\ DOMAIN s = 1..Len(s) /\ IsFiniteSet(1..Len(s))
           /\ \A k \in 1..Len(s) : s[k] \in S
           /\ \A k \in 1..Len(s) : Share(s, a)[k] \in Int
           /\ AmountIn(s, a) \in Int
  <1>1. Len(s) \in Nat /\ DOMAIN s = 1..Len(s) /\ s \in [1..Len(s) -> S]
    BY LenProperties
  <1>2. IsFiniteSet(1..Len(s))
    BY <1>1, FS_Interval
  <1>3. QED
    BY <1>1, <1>2, SumInt DEF AmountIn, SumFunction, Share, Amounts

\* Amounts that are natural numbers add up to one.
LEMMA AmountNat ==
    ASSUME NEW S, \A e \in S : e.amount \in Nat, NEW s \in Seq(S), NEW a
    PROVE  AmountIn(s, a) \in Nat
  <1>1. /\ AmountIn(s, a) = SumFunctionOnSet(Share(s, a), 1..Len(s))
        /\ DOMAIN s = 1..Len(s) /\ IsFiniteSet(1..Len(s)) /\ \A k \in 1..Len(s) : s[k] \in S
    BY AmountShare DEF Amounts
  <1>2. QED
    BY <1>1, SumNat DEF Share

\* Nothing amounts to 0.
LEMMA AmountEmpty ==
    ASSUME NEW a
    PROVE  AmountIn(<<>>, a) = 0
  BY SumEmpty DEF AmountIn, SumFunction

\* The amounts of two sequences add up.
LEMMA AmountConcat ==
    ASSUME NEW S, Amounts(S), NEW s \in Seq(S), NEW t \in Seq(S), NEW a
    PROVE  AmountIn(s \o t, a) = AmountIn(s, a) + AmountIn(t, a)
  <1> DEFINE m == Len(s)
             n == Len(t)
             st == s \o t
             R == (m + 1)..(m + n)
             h == [k \in 1..n |-> m + k]
  <1>1. m \in Nat /\ n \in Nat
    BY LenProperties
  <1>2. /\ st \in Seq(S) /\ Len(st) = m + n
        /\ \A k \in 1..m : st[k] = s[k]
        /\ \A k \in 1..n : st[m + k] = t[k]
    BY <1>1, ConcatProperties
  <1>3. /\ AmountIn(s, a) = SumFunctionOnSet(Share(s, a), 1..m)
        /\ DOMAIN s = 1..m /\ IsFiniteSet(1..m)
        /\ \A k \in 1..m : Share(s, a)[k] \in Int
        /\ AmountIn(s, a) \in Int
    BY AmountShare
  <1>4. /\ AmountIn(t, a) = SumFunctionOnSet(Share(t, a), 1..n)
        /\ DOMAIN t = 1..n /\ IsFiniteSet(1..n)
        /\ \A k \in 1..n : Share(t, a)[k] \in Int
        /\ AmountIn(t, a) \in Int
    BY AmountShare
  <1> HIDE DEF st
  <1>5. /\ AmountIn(st, a) = SumFunctionOnSet(Share(st, a), 1..(m + n))
        /\ DOMAIN st = 1..(m + n)
        /\ \A k \in 1..(m + n) : Share(st, a)[k] \in Int
    BY <1>2, AmountShare
  <1> HIDE DEF m, n
  <1>6. /\ 1..(m + n) = (1..m) \cup R /\ (1..m) \cap R = {}
        /\ IsFiniteSet(R)
    BY <1>1, FS_Interval
  <1>7. SumFunctionOnSet(Share(st, a), 1..(m + n))
            = SumFunctionOnSet(Share(st, a), 1..m) + SumFunctionOnSet(Share(st, a), R)
    <2>1. \A k \in (1..m) \cup R : Share(st, a)[k] \in Int
      <3> HIDE DEF R
      <3>1. QED
        BY <1>5, <1>6
    <2> HIDE DEF R
    <2>2. SumFunctionOnSet(Share(st, a), (1..m) \cup R)
              = SumFunctionOnSet(Share(st, a), 1..m) + SumFunctionOnSet(Share(st, a), R)
      BY <2>1, <1>3, <1>6, SumUnion
    <2>3. QED
      BY <1>6, <2>2
  <1>8. SumFunctionOnSet(Share(st, a), 1..m) = SumFunctionOnSet(Share(s, a), 1..m)
    BY <1>1, <1>2, <1>3, <1>5, SumSame DEF Share
  <1>9. SumFunctionOnSet(Share(t, a), 1..n) = SumFunctionOnSet(Share(st, a), R)
    <2>1. h \in [1..n -> R]
      BY <1>1
    <2>2. \A i, j \in 1..n : h[i] = h[j] => i = j
      BY <1>1
    <2>3. \A r \in R : \E i \in 1..n : h[i] = r
      BY <1>1
    <2>4. \A i \in 1..n : Share(st, a)[h[i]] = Share(t, a)[i]
      <3> SUFFICES ASSUME NEW i \in 1..n PROVE Share(st, a)[h[i]] = Share(t, a)[i]
        OBVIOUS
      <3>1. QED
        BY <1>2, <1>1, <1>4, <1>5 DEF Share
    <2>5. \A i \in 1..n : Share(t, a)[i] \in Int /\ Share(st, a)[h[i]] = Share(t, a)[i]
      BY <1>4, <2>4
    <2> HIDE DEF h, R
    <2>6. Renumbers(h, 1..n, R)
      BY <2>1, <2>2, <2>3 DEF Renumbers
    <2>7. SameTerms(Share(t, a), 1..n, Share(st, a), h)
      BY <2>5 DEF SameTerms
    <2>8. QED
      BY <2>6, <2>7, <1>4, SumReindex
  <1>10. QED
    BY <1>3, <1>4, <1>5, <1>7, <1>8, <1>9 DEF st

\* One entry has its own amount, of its own asset.
LEMMA AmountSingle ==
    ASSUME NEW S, Amounts(S), NEW e \in S, NEW a
    PROVE  AmountIn(<<e>>, a) = IF e.asset = a THEN e.amount ELSE 0
  <1>1. <<e>> \in Seq(S) /\ Len(<<e>>) = 1 /\ <<e>>[1] = e
    OBVIOUS
  <1>2. AmountIn(<<e>>, a) = SumFunctionOnSet(Share(<<e>>, a), 1..1)
    BY <1>1, AmountShare
  <1>3. 1..1 = {} \cup {1} /\ 1 \notin {} /\ IsFiniteSet({})
    BY FS_EmptySet
  <1>4. Share(<<e>>, a)[1] = (IF e.asset = a THEN e.amount ELSE 0) /\ Share(<<e>>, a)[1] \in Int
    BY DEF Share, Amounts
  <1>5. SumFunctionOnSet(Share(<<e>>, a), {} \cup {1}) = Share(<<e>>, a)[1] + SumFunctionOnSet(Share(<<e>>, a), {})
    BY <1>3, <1>4, SumAdd
  <1>6. SumFunctionOnSet(Share(<<e>>, a), {}) = 0
    BY SumEmpty
  <1>7. SumFunctionOnSet(Share(<<e>>, a), {} \cup {1}) = SumFunctionOnSet(Share(<<e>>, a), 1..1)
    BY <1>3
  <1> DEFINE w == Share(<<e>>, a)[1]
  <1>8. SumFunctionOnSet(Share(<<e>>, a), 1..1) = w
    <2>1. w \in Int
      BY <1>4
    <2>2. SumFunctionOnSet(Share(<<e>>, a), {} \cup {1}) = w + 0
      BY <1>5, <1>6
    <2> HIDE DEF w
    <2>3. QED
      BY <1>7, <2>1, <2>2
  <1>9. w = IF e.asset = a THEN e.amount ELSE 0
    BY <1>4
  <1> HIDE DEF w
  <1>10. AmountIn(<<e>>, a) = w
    BY <1>2, <1>8, Zenon
  <1>11. QED
    BY <1>9, <1>10, Zenon

\* An entry at the end adds its amount.
LEMMA AmountAppend ==
    ASSUME NEW S, Amounts(S), NEW s \in Seq(S), NEW e \in S, NEW a
    PROVE  AmountIn(Append(s, e), a) = AmountIn(s, a) + (IF e.asset = a THEN e.amount ELSE 0)
  <1>1. Append(s, e) = s \o <<e>> /\ <<e>> \in Seq(S)
    BY AppendIsConcat
  <1>2. AmountIn(s \o <<e>>, a) = AmountIn(s, a) + AmountIn(<<e>>, a)
    BY <1>1, AmountConcat
  <1>3. AmountIn(<<e>>, a) = IF e.asset = a THEN e.amount ELSE 0
    BY AmountSingle
  <1>4. QED
    BY <1>1, <1>2, <1>3, Zenon

-----------------------------------------------------------------------------
\* Sequences of sequences.

\* The amounts of the parts add up.
LEMMA FlatAmount ==
    ASSUME NEW S, Amounts(S), NEW ss \in Seq(Seq(S)), NEW a
    PROVE  AmountIn(FlattenSeq(ss), a) = SumFunctionOnSet([k \in DOMAIN ss |-> AmountIn(ss[k], a)], DOMAIN ss)
  <1> DEFINE g == [k \in DOMAIN ss |-> AmountIn(ss[k], a)]
             Sum(n) == SumFunctionOnSet(g, 1..n)
             G == {p \in (0..Len(ss)) \X Seq(S) : AmountIn(p[2], a) = Sum(p[1])}
  <1>0. Len(ss) \in Nat /\ DOMAIN ss = 1..Len(ss) /\ \A k \in 1..Len(ss) : ss[k] \in Seq(S)
    BY LenProperties
  <1>1. \A k \in 1..Len(ss) : g[k] = AmountIn(ss[k], a) /\ g[k] \in Int
    BY <1>0, AmountShare
  <1> HIDE DEF g
  <1>2. <<0, <<>>>> \in G
    <2>1. 1..0 = {} /\ <<>> \in Seq(S)
      BY EmptySeq
    <2>2. AmountIn(<<>>, a) = Sum(0)
      BY <2>1, AmountEmpty, SumEmpty
    <2>3. 0 \in 0..Len(ss)
      BY <1>0
    <2> HIDE DEF Sum
    <2>4. QED
      BY <2>1, <2>2, <2>3
  <1>3. ASSUME NEW n \in 1..Len(ss), NEW s \in Seq(S), <<n - 1, s>> \in G
        PROVE  <<n, s \o ss[n]>> \in G
    <2>1. AmountIn(s, a) = Sum(n - 1)
      BY <1>3
    <2>2. ss[n] \in Seq(S) /\ s \o ss[n] \in Seq(S) /\ n \in Nat /\ n \in 0..Len(ss) /\ n - 1 \in Nat
      BY <1>0, ConcatProperties
    <2>3. AmountIn(s \o ss[n], a) = AmountIn(s, a) + g[n] /\ AmountIn(s, a) \in Int /\ g[n] \in Int
      <3>1. AmountIn(s \o ss[n], a) = AmountIn(s, a) + AmountIn(ss[n], a)
        BY <2>2, AmountConcat
      <3>2. AmountIn(s, a) \in Int /\ AmountIn(ss[n], a) \in Int
        BY <2>2, AmountShare
      <3>3. QED
        BY <1>1, <3>1, <3>2
    <2>4. 1..n = (1..(n - 1)) \cup {n} /\ n \notin 1..(n - 1)
      BY <2>2
    <2>5. IsFiniteSet(1..(n - 1))
      BY <2>2, FS_Interval
    <2>6. \A k \in (1..(n - 1)) \cup {n} : g[k] \in Int
      BY <1>0, <1>1
    <2>7. SumFunctionOnSet(g, (1..(n - 1)) \cup {n}) = g[n] + Sum(n - 1)
      BY <2>4, <2>5, <2>6, SumAdd
    <2>8. Sum(n) = g[n] + Sum(n - 1)
      BY <2>4, <2>7
    <2> HIDE DEF Sum
    <2>9. AmountIn(s \o ss[n], a) = Sum(n)
      BY <2>1, <2>3, <2>8
    <2>10. QED
      BY <2>2, <2>9
  <1>4. <<Len(ss), FlattenSeq(ss)>> \in G
    <2> HIDE DEF G
    <2>1. QED
      BY <1>2, <1>3, FlatInduction
  <1>5. QED
    BY <1>0, <1>4 DEF g

-----------------------------------------------------------------------------
\* UTXOs: what they hold, and their ids.

Unique(utxos) == \A j, k \in DOMAIN utxos : utxos[j].id = utxos[k].id => j = k

\* What the k-th UTXO holds of an asset.
Held(utxos, a) == [k \in DOMAIN utxos |-> IF utxos[k].out.asset = a THEN utxos[k].out.amount ELSE 0]

OutsOf(utxos) == [k \in DOMAIN utxos |-> utxos[k].out]

\* The outputs of UTXOs are a sequence of outputs.
LEMMA OutsAre ==
    ASSUME NEW utxos \in Seq(Utxo)
    PROVE  OutsOf(utxos) \in Seq(Output) /\ Len(OutsOf(utxos)) = Len(utxos)
  <1>1. Len(utxos) \in Nat /\ DOMAIN utxos = 1..Len(utxos) /\ \A k \in 1..Len(utxos) : utxos[k] \in Utxo
    BY LenProperties
  <1> DEFINE f == OutsOf(utxos)
  <1>2. DOMAIN f = 1..Len(utxos) /\ (\A k \in 1..Len(utxos) : f[k] \in Output)
    BY <1>1 DEF OutsOf, Utxo
  <1>3. f = [k \in 1..Len(utxos) |-> f[k]]
    BY <1>1 DEF OutsOf
  <1> HIDE DEF f
  <1>4. QED
    BY <1>1, <1>2, <1>3, MapSeq DEF f

\* Outputs have amounts.
LEMMA OutputAmounts == Amounts(Output) /\ \A e \in Output : e.amount \in Nat /\ e.asset \in Asset
  BY DEF Amounts, Output

\* What UTXOs hold of an asset is the sum of what each of them holds.
LEMMA HeldIs ==
    ASSUME NEW utxos \in Seq(Utxo), NEW a
    PROVE  /\ Len(utxos) \in Nat /\ DOMAIN utxos = 1..Len(utxos) /\ IsFiniteSet(1..Len(utxos))
           /\ \A k \in 1..Len(utxos) : utxos[k] \in Utxo /\ Held(utxos, a)[k] \in Nat
           /\ AmountOf(utxos, a) = SumFunctionOnSet(Held(utxos, a), 1..Len(utxos))
           /\ AmountOf(utxos, a) \in Nat
  <1>1. Len(utxos) \in Nat /\ DOMAIN utxos = 1..Len(utxos) /\ \A k \in 1..Len(utxos) : utxos[k] \in Utxo
    BY LenProperties
  <1>2. \A k \in 1..Len(utxos) : Share(OutsOf(utxos), a)[k] = Held(utxos, a)[k] /\ Held(utxos, a)[k] \in Nat
    BY <1>1, OutputAmounts DEF Share, OutsOf, Held, Utxo
  <1>3. IsFiniteSet(1..Len(utxos))
    BY <1>1, FS_Interval
  <1>4. AmountOf(utxos, a) = SumFunctionOnSet(Held(utxos, a), 1..Len(utxos))
    BY <1>2, SumSame, OutputAmounts, AmountShare, OutsAre DEF AmountOf, OutsOf
  <1>5. SumFunctionOnSet(Held(utxos, a), 1..Len(utxos)) \in Nat
    BY <1>2, <1>3, SumNat
  <1>6. QED
    BY <1>1, <1>2, <1>3, <1>4, <1>5, Zenon

\* What UTXOs hold, their ids and their elements, when they are put together.
LEMMA OfConcat ==
    ASSUME NEW s \in Seq(Utxo), NEW t \in Seq(Utxo), NEW a
    PROVE  /\ AmountOf(s \o t, a) = AmountOf(s, a) + AmountOf(t, a)
           /\ Ids(s \o t) = Ids(s) \cup Ids(t)
           /\ s \o t \in Seq(Utxo) /\ ToSet(s \o t) = ToSet(s) \cup ToSet(t)
  <1>1. /\ OutsOf(s) \in Seq(Output) /\ Len(OutsOf(s)) = Len(s)
        /\ OutsOf(t) \in Seq(Output) /\ Len(OutsOf(t)) = Len(t)
    BY OutsAre
  <1>2. /\ s \o t \in Seq(Utxo) /\ Len(s \o t) = Len(s) + Len(t)
        /\ \A i \in 1..(Len(s) + Len(t)) : (s \o t)[i] = IF i <= Len(s) THEN s[i] ELSE t[i - Len(s)]
    BY ConcatProperties
  <1>3. /\ OutsOf(s) \o OutsOf(t) \in Seq(Output) /\ Len(OutsOf(s) \o OutsOf(t)) = Len(s) + Len(t)
        /\ \A i \in 1..(Len(s) + Len(t)) :
              (OutsOf(s) \o OutsOf(t))[i] = IF i <= Len(s) THEN OutsOf(s)[i] ELSE OutsOf(t)[i - Len(s)]
    <2> DEFINE u == OutsOf(s)
               v == OutsOf(t)
    <2>1. u \in Seq(Output) /\ Len(u) = Len(s) /\ v \in Seq(Output) /\ Len(v) = Len(t)
      BY <1>1
    <2> HIDE DEF u, v
    <2>2. /\ u \o v \in Seq(Output) /\ Len(u \o v) = Len(u) + Len(v)
          /\ \A i \in 1..(Len(u) + Len(v)) : (u \o v)[i] = IF i <= Len(u) THEN u[i] ELSE v[i - Len(u)]
      BY <2>1, ConcatProperties
    <2>3. QED
      BY <2>1, <2>2 DEF u, v
  <1>4. /\ Len(s) \in Nat /\ Len(t) \in Nat
        /\ DOMAIN s = 1..Len(s) /\ DOMAIN t = 1..Len(t) /\ DOMAIN (s \o t) = 1..(Len(s) + Len(t))
    BY <1>2, LenProperties
  <1>5. OutsOf(s \o t) = OutsOf(s) \o OutsOf(t)
    BY <1>4, <1>2, <1>3, SeqEqual, OutsAre DEF OutsOf
  <1>6. AmountOf(s \o t, a) = AmountOf(s, a) + AmountOf(t, a)
    <2>1. AmountIn(OutsOf(s) \o OutsOf(t), a) = AmountIn(OutsOf(s), a) + AmountIn(OutsOf(t), a)
      BY <1>1, OutputAmounts, AmountConcat
    <2>2. /\ AmountOf(s, a) = AmountIn(OutsOf(s), a)
          /\ AmountOf(t, a) = AmountIn(OutsOf(t), a)
          /\ AmountOf(s \o t, a) = AmountIn(OutsOf(s \o t), a)
      BY DEF AmountOf, OutsOf
    <2>3. QED
      BY <1>5, <2>1, <2>2, Zenon
  <1>7. ToSet(s \o t) = ToSet(s) \cup ToSet(t)
    <2>1. \A u : ToSet(u) = Range(u)
      BY DEF Range, ToSet
    <2>2. QED
      BY <2>1, RangeConcatenation
  <1>8. Ids(s \o t) = Ids(s) \cup Ids(t)
    <2>1. \A u : Ids(u) = {v.id : v \in ToSet(u)}
      BY DEF Ids, ToSet
    <2>2. QED
      BY <1>7, <2>1
  <1>9. QED
    BY <1>2, <1>6, <1>7, <1>8

\* Ids stay unique when UTXOs without a common id are put together.
LEMMA UniqueConcat ==
    ASSUME NEW s \in Seq(Utxo), NEW t \in Seq(Utxo), Unique(s), Unique(t), Ids(s) \cap Ids(t) = {}
    PROVE  Unique(s \o t)
  <1>1. /\ s \o t \in Seq(Utxo) /\ Len(s \o t) = Len(s) + Len(t)
        /\ \A i \in 1..(Len(s) + Len(t)) : (s \o t)[i] = IF i <= Len(s) THEN s[i] ELSE t[i - Len(s)]
    BY ConcatProperties
  <1>2. /\ Len(s) \in Nat /\ Len(t) \in Nat
        /\ DOMAIN s = 1..Len(s) /\ DOMAIN t = 1..Len(t) /\ DOMAIN (s \o t) = 1..(Len(s) + Len(t))
    BY <1>1, LenProperties
  <1> SUFFICES ASSUME NEW i \in 1..(Len(s) + Len(t)), NEW j \in 1..(Len(s) + Len(t)),
                      (s \o t)[i].id = (s \o t)[j].id
               PROVE  i = j
    BY <1>2 DEF Unique
  <1>3. \A k \in 1..(Len(s) + Len(t)) :
            \/ k \in DOMAIN s /\ (s \o t)[k] = s[k] /\ s[k].id \in Ids(s)
            \/ k - Len(s) \in DOMAIN t /\ (s \o t)[k] = t[k - Len(s)] /\ t[k - Len(s)].id \in Ids(t)
    <2> SUFFICES ASSUME NEW k \in 1..(Len(s) + Len(t))
                 PROVE  \/ k \in DOMAIN s /\ (s \o t)[k] = s[k] /\ s[k].id \in Ids(s)
                        \/ k - Len(s) \in DOMAIN t /\ (s \o t)[k] = t[k - Len(s)] /\ t[k - Len(s)].id \in Ids(t)
      OBVIOUS
    <2>1. CASE k <= Len(s)
      BY <1>1, <1>2, <2>1 DEF Ids
    <2>2. CASE ~(k <= Len(s))
      BY <1>2, <2>2, <1>1 DEF Ids
    <2>3. QED
      BY <2>1, <2>2
  <1>4. CASE i \in DOMAIN s /\ (s \o t)[i] = s[i] /\ s[i].id \in Ids(s)
    BY <1>3, <1>4 DEF Unique
  <1>5. CASE i - Len(s) \in DOMAIN t /\ (s \o t)[i] = t[i - Len(s)] /\ t[i - Len(s)].id \in Ids(t)
    BY <1>3, <1>5, <1>2 DEF Unique
  <1>6. QED
    BY <1>3, <1>4, <1>5

\* What Without leaves, and how much.
Left(utxos, gone, a) == [k \in DOMAIN utxos |-> IF utxos[k].id \in gone THEN 0 ELSE Held(utxos, a)[k]]

Pieces(utxos, gone) == [k \in DOMAIN utxos |-> IF utxos[k].id \in gone THEN <<>> ELSE <<utxos[k]>>]

\* What Without puts together: each UTXO that is not gone.
LEMMA PiecesAre ==
    ASSUME NEW utxos \in Seq(Utxo), NEW gone
    PROVE  /\ Pieces(utxos, gone) \in Seq(Seq(Utxo)) /\ Len(Pieces(utxos, gone)) = Len(utxos)
           /\ DOMAIN Pieces(utxos, gone) = DOMAIN utxos
           /\ Without(utxos, gone) = FlattenSeq(Pieces(utxos, gone))
  <1> DEFINE p == Pieces(utxos, gone)
  <1>1. Len(utxos) \in Nat /\ DOMAIN utxos = 1..Len(utxos) /\ \A k \in 1..Len(utxos) : utxos[k] \in Utxo
    BY LenProperties
  <1>2. DOMAIN p = 1..Len(utxos) /\ p = [k \in 1..Len(utxos) |-> p[k]]
    BY <1>1 DEF Pieces
  <1>3. \A k \in 1..Len(utxos) : p[k] \in Seq(Utxo)
    BY <1>1, EmptySeq DEF Pieces
  <1>4. Without(utxos, gone) = FlattenSeq(p)
    BY DEF Without, Pieces
  <1> HIDE DEF p
  <1>5. QED
    BY <1>1, <1>2, <1>4, <1>3, MapSeq DEF p

\* What Without leaves are those of the UTXOs whose id is not gone.
LEMMA WithoutType ==
    ASSUME NEW utxos \in Seq(Utxo), NEW gone
    PROVE  /\ Without(utxos, gone) \in Seq(Utxo)
           /\ ToSet(Without(utxos, gone)) = {u \in ToSet(utxos) : u.id \notin gone}
           /\ Ids(Without(utxos, gone)) = Ids(utxos) \ gone
  <1> DEFINE p == Pieces(utxos, gone)
  <1>1. p \in Seq(Seq(Utxo)) /\ Without(utxos, gone) = FlattenSeq(p) /\ DOMAIN p = DOMAIN utxos
    BY PiecesAre
  <1>2. \A k \in DOMAIN utxos : ToSet(p[k]) = IF utxos[k].id \in gone THEN {} ELSE {utxos[k]}
    BY DEF ToSet, Pieces
  <1> HIDE DEF p
  <1>3. UNION {ToSet(p[k]) : k \in DOMAIN p} = {u \in ToSet(utxos) : u.id \notin gone}
    <2>1. ToSet(utxos) = {utxos[k] : k \in DOMAIN utxos}
      BY DEF ToSet
    <2>2. ASSUME NEW u, NEW k \in DOMAIN utxos, u \in ToSet(p[k]) PROVE u \in ToSet(utxos) /\ u.id \notin gone
      BY <1>2, <2>1, <2>2
    <2>3. ASSUME NEW k \in DOMAIN utxos, utxos[k].id \notin gone PROVE utxos[k] \in ToSet(p[k])
      BY <1>2, <2>3
    <2>4. QED
      BY <1>1, <2>1, <2>2, <2>3
  <1>4. Ids(Without(utxos, gone)) = {u.id : u \in ToSet(Without(utxos, gone))} /\ Ids(utxos) = {u.id : u \in ToSet(utxos)}
    BY DEF Ids, ToSet
  <1>5. QED
    BY <1>1, <1>3, <1>4, FlatType

\* What Without leaves amounts to the sum over the UTXOs that are not gone.
LEMMA WithoutAmount ==
    ASSUME NEW utxos \in Seq(Utxo), NEW gone, NEW a
    PROVE  AmountOf(Without(utxos, gone), a) = SumFunctionOnSet(Left(utxos, gone, a), 1..Len(utxos))
  <1> DEFINE p == Pieces(utxos, gone)
             Sum(n) == SumFunctionOnSet(Left(utxos, gone, a), 1..n)
             G == {q \in (0..Len(utxos)) \X Seq(Utxo) : AmountOf(q[2], a) = Sum(q[1])}
  <1>1. p \in Seq(Seq(Utxo)) /\ Len(p) = Len(utxos) /\ Without(utxos, gone) = FlattenSeq(p)
    BY PiecesAre
  <1>2. /\ Len(utxos) \in Nat /\ DOMAIN utxos = 1..Len(utxos)
        /\ \A k \in 1..Len(utxos) : utxos[k] \in Utxo /\ Held(utxos, a)[k] \in Nat
    BY HeldIs
  <1>3. \A k \in 1..Len(utxos) : Left(utxos, gone, a)[k] \in Nat
    BY <1>2 DEF Left
  <1>4. <<0, <<>>>> \in G
    <2>1. 1..0 = {} /\ <<>> \in Seq(Utxo) /\ 0 \in 0..Len(utxos)
      BY <1>2, EmptySeq
    <2>2. AmountOf(<<>>, a) = 0
      BY AmountEmpty DEF OutsOf, AmountOf
    <2>3. Sum(0) = 0
      BY <2>1, SumEmpty
    <2> HIDE DEF Sum
    <2>4. QED
      BY <2>1, <2>2, <2>3
  <1>5. ASSUME NEW n \in 1..Len(p), NEW s \in Seq(Utxo), <<n - 1, s>> \in G
        PROVE  <<n, s \o p[n]>> \in G
    <2>1. AmountOf(s, a) = Sum(n - 1)
      BY <1>5
    <2>2. n \in Nat /\ n \in 0..Len(utxos) /\ n \in 1..Len(utxos) /\ n - 1 \in Nat /\ n \in DOMAIN utxos
      BY <1>1, <1>2
    <2>3. p[n] \in Seq(Utxo)
      BY <1>1, LenProperties
    <2>4. AmountOf(p[n], a) = Left(utxos, gone, a)[n]
      <3>1. CASE utxos[n].id \in gone
        BY <2>2, <3>1, AmountEmpty DEF Pieces, OutsOf, Left, AmountOf
      <3>2. CASE utxos[n].id \notin gone
        <4>1. p[n] = <<utxos[n]>> /\ Left(utxos, gone, a)[n] = Held(utxos, a)[n]
          BY <2>2, <3>2 DEF Pieces, Left
        <4>2. AmountOf(p[n], a) = AmountIn(OutsOf(p[n]), a)
          BY DEF AmountOf, OutsOf
        <4>3. OutsOf(<<utxos[n]>>) = <<utxos[n].out>>
          BY DEF OutsOf
        <4>4. AmountIn(<<utxos[n].out>>, a) = IF utxos[n].out.asset = a THEN utxos[n].out.amount ELSE 0
          BY <1>2, <2>2, OutputAmounts, AmountSingle DEF Utxo
        <4>5. Held(utxos, a)[n] = IF utxos[n].out.asset = a THEN utxos[n].out.amount ELSE 0
          BY <2>2 DEF Held
        <4> HIDE DEF p
        <4>6. QED
          BY <4>1, <4>2, <4>3, <4>4, <4>5, Zenon
      <3>3. QED
        BY <3>1, <3>2
    <2> HIDE DEF p
    <2>5. AmountOf(s \o p[n], a) = AmountOf(s, a) + Left(utxos, gone, a)[n] /\ s \o p[n] \in Seq(Utxo)
          /\ AmountOf(s, a) \in Nat
      BY <2>3, <2>4, OfConcat, HeldIs
    <2>6. 1..n = (1..(n - 1)) \cup {n} /\ n \notin 1..(n - 1)
      BY <2>2
    <2>7. IsFiniteSet(1..(n - 1))
      BY <2>2, FS_Interval
    <2>8. \A k \in (1..(n - 1)) \cup {n} : Left(utxos, gone, a)[k] \in Int
      BY <1>2, <1>3, <2>2
    <2>9. Sum(n) = Left(utxos, gone, a)[n] + Sum(n - 1)
      BY <2>6, <2>7, <2>8, SumAdd
    <2>10. Left(utxos, gone, a)[n] \in Nat
      BY <1>3, <2>2
    <2> HIDE DEF Sum
    <2>11. AmountOf(s \o p[n], a) = Sum(n)
      BY <2>1, <2>5, <2>9, <2>10
    <2>12. QED
      BY <2>2, <2>5, <2>11
  <1>6. <<Len(p), FlattenSeq(p)>> \in G
    <2> HIDE DEF G, p
    <2>1. QED
      BY <1>1, <1>4, <1>5, FlatInduction
  <1>7. AmountOf(FlattenSeq(p), a) = Sum(Len(p))
    <2> HIDE DEF p, Sum
    <2>1. QED
      BY <1>6
  <1>8. QED
    <2> HIDE DEF p
    <2>1. QED
      BY <1>1, <1>7

\* What Without leaves has unique ids as before.
LEMMA WithoutUnique ==
    ASSUME NEW utxos \in Seq(Utxo), NEW gone, Unique(utxos)
    PROVE  Unique(Without(utxos, gone))
  <1> DEFINE p == Pieces(utxos, gone)
             Old(n, s) == \A i \in DOMAIN s : \E k \in 1..n : s[i] = utxos[k]
             Good(n, s) == Unique(s) /\ Old(n, s)
             G == {q \in (0..Len(utxos)) \X Seq(Utxo) : Good(q[1], q[2])}
  <1>1. p \in Seq(Seq(Utxo)) /\ Len(p) = Len(utxos) /\ Without(utxos, gone) = FlattenSeq(p)
    BY PiecesAre
  <1>2. /\ Len(utxos) \in Nat /\ DOMAIN utxos = 1..Len(utxos)
        /\ \A k \in 1..Len(utxos) : utxos[k] \in Utxo
    BY LenProperties
  <1>3. <<0, <<>>>> \in G
    <2>1. <<>> \in Seq(Utxo) /\ 0 \in 0..Len(utxos)
      BY <1>2, EmptySeq
    <2>2. Good(0, <<>>)
      BY DEF Unique
    <2> HIDE DEF Good
    <2>3. QED
      BY <2>1, <2>2
  <1>4. ASSUME NEW n \in 1..Len(p), NEW s \in Seq(Utxo), <<n - 1, s>> \in G
        PROVE  <<n, s \o p[n]>> \in G
    <2>1. Unique(s) /\ Old(n - 1, s)
      BY <1>4
    <2>2. n \in Nat /\ n \in 0..Len(utxos) /\ n \in 1..Len(utxos) /\ n - 1 \in Nat /\ n \in DOMAIN utxos
      BY <1>1, <1>2
    <2>3. p[n] \in Seq(Utxo)
      BY <1>1, LenProperties
    <2>4. Unique(s \o p[n]) /\ ToSet(s \o p[n]) = ToSet(s) \cup ToSet(p[n]) /\ s \o p[n] \in Seq(Utxo)
      <3>1. Unique(p[n]) /\ Ids(p[n]) \subseteq {utxos[n].id}
        BY <2>2 DEF Pieces, Unique, Ids
      <3>2. utxos[n].id \notin Ids(s)
        <4> SUFFICES ASSUME NEW i \in DOMAIN s, s[i].id = utxos[n].id PROVE FALSE
          BY DEF Ids
        <4>1. PICK k \in 1..(n - 1) : s[i] = utxos[k]
          BY <2>1
        <4>2. QED
          BY <2>2, <4>1, <1>2 DEF Unique
      <3> HIDE DEF p
      <3>3. QED
        BY <2>1, <2>3, <3>1, <3>2, UniqueConcat, OfConcat
    <2>5. Old(n, s \o p[n])
      <3>1. \A u \in ToSet(p[n]) : u = utxos[n]
        BY <2>2 DEF Pieces, ToSet
      <3>2. \A u \in ToSet(s) : \E k \in 1..n : u = utxos[k]
        BY <2>1, <2>2 DEF ToSet
      <3>3. n \in 1..n
        BY <2>2
      <3> HIDE DEF p
      <3>4. QED
        BY <2>4, <3>1, <3>2, <3>3 DEF ToSet
    <2>6. Good(n, s \o p[n])
      BY <2>4, <2>5
    <2> HIDE DEF Good, p
    <2>7. QED
      BY <2>2, <2>4, <2>6
  <1>5. <<Len(p), FlattenSeq(p)>> \in G
    <2> HIDE DEF G, p
    <2>1. QED
      BY <1>1, <1>3, <1>4, FlatInduction
  <1>6. Unique(FlattenSeq(p))
    <2>1. Good(Len(p), FlattenSeq(p))
      <3> HIDE DEF Good, p
      <3>1. QED
        BY <1>5
    <2>2. QED
      BY <2>1
  <1>7. QED
    <2> HIDE DEF p
    <2>1. QED
      BY <1>1, <1>6

\* An input is a UTXO.
Spends(in, utxos) == \E u \in ToSet(utxos) : in.id = u.id /\ in.asset = u.out.asset /\ in.amount = u.out.amount

\* Of the UTXOs that are gone, those that hold something are the inputs.
Takes(ins, utxos, gone) ==
    /\ Unique(ins)
    /\ \A i \in DOMAIN ins : ins[i].id \in gone /\ Spends(ins[i], utxos)
    /\ \A k \in DOMAIN utxos : utxos[k].id \in gone => utxos[k].out.amount = 0 \/ utxos[k].id \in Ids(ins)

InGone(utxos, gone, a) == [k \in DOMAIN utxos |-> IF utxos[k].id \in gone THEN Held(utxos, a)[k] ELSE 0]

\* Inputs have amounts.
LEMMA InputAmounts == Amounts(Input) /\ \A e \in Input : e.amount \in Nat
  BY DEF Amounts, Input

\* What Without takes away amounts to the inputs.
LEMMA Removed ==
    ASSUME NEW utxos \in Seq(Utxo), Unique(utxos), NEW gone, NEW ins \in Seq(Input),
           Takes(ins, utxos, gone), NEW a
    PROVE  /\ AmountOf(utxos, a) = AmountOf(Without(utxos, gone), a) + AmountIn(ins, a)
           /\ AmountOf(Without(utxos, gone), a) \in Int /\ AmountIn(ins, a) \in Int
  <1> DEFINE n == Len(utxos)
             H == Held(utxos, a)
             L == Left(utxos, gone, a)
             T == InGone(utxos, gone, a)
             K == {k \in 1..n : utxos[k].id \in Ids(ins)}
             N == 1..Len(ins)
             g == Share(ins, a)
             h == [i \in N |-> CHOOSE k \in 1..n : utxos[k].id = ins[i].id]
  <1>1. /\ n \in Nat /\ DOMAIN utxos = 1..n /\ IsFiniteSet(1..n)
        /\ \A k \in 1..n : utxos[k] \in Utxo /\ H[k] \in Nat
        /\ AmountOf(utxos, a) = SumFunctionOnSet(H, 1..n)
    BY HeldIs
  <1>2. AmountOf(Without(utxos, gone), a) = SumFunctionOnSet(L, 1..n)
    BY WithoutAmount
  <1>3. /\ AmountIn(ins, a) = SumFunctionOnSet(g, N)
        /\ DOMAIN ins = N /\ IsFiniteSet(N)
        /\ \A i \in N : ins[i] \in Input /\ g[i] \in Int
        /\ AmountIn(ins, a) \in Int
    BY InputAmounts, AmountShare
  <1>4. \A k \in 1..n : L[k] \in Int /\ T[k] \in Int /\ H[k] = L[k] + T[k]
    BY <1>1 DEF Left, InGone
  <1>5. SumFunctionOnSet(H, 1..n) = SumFunctionOnSet(L, 1..n) + SumFunctionOnSet(T, 1..n)
    <2> HIDE DEF H, L, T
    <2>1. QED
      BY <1>1, <1>4, SumPlus
  <1>6. SumFunctionOnSet(T, 1..n) = SumFunctionOnSet(T, K)
    <2>1. \A k \in (1..n) \ K : T[k] = 0
      <3> SUFFICES ASSUME NEW k \in 1..n, k \notin K PROVE T[k] = 0
        OBVIOUS
      <3>1. CASE utxos[k].id \notin gone
        BY <1>1, <3>1 DEF InGone
      <3>2. CASE utxos[k].id \in gone
        BY <1>1, <3>2 DEF Takes, Held, InGone
      <3>3. QED
        BY <3>1, <3>2
    <2>2. K \subseteq 1..n /\ \A k \in K : T[k] \in Int
      BY <1>4
    <2> HIDE DEF T, K
    <2>3. QED
      BY <1>1, <2>1, <2>2, SumSupport
  <1>7. ASSUME NEW i \in N
        PROVE  /\ h[i] \in K /\ utxos[h[i]].id = ins[i].id
               /\ utxos[h[i]].out.asset = ins[i].asset /\ utxos[h[i]].out.amount = ins[i].amount
               /\ ins[i].id \in gone
    <2>1. ins[i].id \in gone /\ Spends(ins[i], utxos)
      BY <1>3 DEF Takes
    <2>2. PICK k \in 1..n : /\ ins[i].id = utxos[k].id /\ ins[i].asset = utxos[k].out.asset
                            /\ ins[i].amount = utxos[k].out.amount
      BY <1>1, <2>1 DEF Spends, ToSet
    <2>3. h[i] \in 1..n /\ utxos[h[i]].id = ins[i].id
      <3>1. h[i] = CHOOSE j \in 1..n : utxos[j].id = ins[i].id
        OBVIOUS
      <3> HIDE DEF h, n
      <3>2. QED
        BY <3>1, <2>2
    <2>4. h[i] = k
      <3> HIDE DEF h
      <3>1. QED
        BY <1>1, <2>2, <2>3 DEF Unique
    <2>5. ins[i].id \in Ids(ins)
      BY <1>3 DEF Ids
    <2> HIDE DEF h
    <2>6. QED
      BY <2>1, <2>2, <2>3, <2>4, <2>5
  <1>8. SumFunctionOnSet(g, N) = SumFunctionOnSet(T, K)
    <2>1. Renumbers(h, N, K)
      <3>1. h \in [N -> K]
        <4>1. DOMAIN h = N /\ h = [i \in N |-> h[i]]
          OBVIOUS
        <4> HIDE DEF h, K
        <4>2. QED
          BY <1>7, <4>1
      <3>2. \A i, j \in N : h[i] = h[j] => i = j
        <4> SUFFICES ASSUME NEW i \in N, NEW j \in N, h[i] = h[j] PROVE i = j
          OBVIOUS
        <4>1. utxos[h[i]].id = ins[i].id /\ utxos[h[j]].id = ins[j].id
          BY <1>7
        <4> HIDE DEF h
        <4>2. QED
          BY <1>3, <4>1 DEF Takes, Unique
      <3>3. \A k \in K : \E i \in N : h[i] = k
        <4> SUFFICES ASSUME NEW k \in K PROVE \E i \in N : h[i] = k
          OBVIOUS
        <4>1. PICK i \in N : ins[i].id = utxos[k].id
          BY <1>3 DEF Ids
        <4> HIDE DEF h
        <4>2. h[i] \in 1..n /\ k \in 1..n /\ utxos[h[i]].id = utxos[k].id
          BY <1>7, <4>1
        <4> DEFINE m == h[i]
        <4> HIDE DEF m, n
        <4>3. QED
          BY <1>1, <4>2 DEF m, Unique
      <3>4. QED
        BY <3>1, <3>2, <3>3 DEF Renumbers
    <2>2. SameTerms(g, N, T, h)
      <3> SUFFICES ASSUME NEW i \in N PROVE g[i] \in Int /\ T[h[i]] = g[i]
        BY DEF SameTerms
      <3> HIDE DEF h
      <3>1. QED
        BY <1>3, <1>7, <1>1 DEF Share, InGone, Held
    <2> HIDE DEF g, N, T, K, h
    <2>3. QED
      BY <1>3, <2>1, <2>2, SumReindex
  <1>9. SumFunctionOnSet(L, 1..n) \in Int /\ SumFunctionOnSet(T, 1..n) \in Int
    <2> HIDE DEF L, T
    <2>1. QED
      BY <1>1, <1>4, SumInt
  <1>10. QED
    BY <1>1, <1>2, <1>3, <1>5, <1>6, <1>8, <1>9, Zenon

\* New UTXOs hold what the outputs hold, under new ids.
LEMMA NewAre ==
    ASSUME NEW outs \in Seq(Output), NEW k \in Nat, lastId \in Nat
    PROVE  /\ NewUtxos(outs, k) \in Seq(Utxo) /\ Len(NewUtxos(outs, k)) = Len(outs) /\ Len(outs) \in Nat
           /\ Unique(NewUtxos(outs, k))
           /\ Ids(NewUtxos(outs, k)) \subseteq (lastId + k + 1)..(lastId + k + Len(outs))
           /\ \A a : AmountOf(NewUtxos(outs, k), a) = AmountIn(outs, a)
  <1> DEFINE u == NewUtxos(outs, k)
             n == Len(outs)
  <1>1. n \in Nat /\ DOMAIN outs = 1..n /\ \A i \in 1..n : outs[i] \in Output
    BY LenProperties
  <1>2. DOMAIN u = 1..n /\ u = [i \in 1..n |-> u[i]] /\ \A i \in 1..n : u[i].id = lastId + k + i /\ u[i].out = outs[i]
    BY <1>1 DEF NewUtxos
  <1>3. \A i \in 1..n : u[i] \in Utxo
    BY <1>1 DEF NewUtxos, Utxo
  <1>4. OutsOf(u) = outs
    BY <1>2, LenProperties DEF OutsOf
  <1> HIDE DEF u
  <1>5. Unique(u) /\ Ids(u) \subseteq (lastId + k + 1)..(lastId + k + n)
    BY <1>1, <1>2 DEF Unique, Ids
  <1>6. \A a : AmountOf(u, a) = AmountIn(outs, a)
    BY <1>4 DEF AmountOf, OutsOf
  <1>7. QED
    BY <1>1, <1>5, <1>6, <1>2, <1>3, MapSeq DEF u

-----------------------------------------------------------------------------
\* What is sorted.

\* The addresses of an output are as many as are given.
LEMMA AscendingType ==
    ASSUME NEW addresses \in Seq(Nat)
    PROVE  Ascending(addresses) \in Seq(Nat)
  <1> DEFINE n == Len(addresses)
             Sorted(q) == \A i, j \in DOMAIN addresses : i < j => addresses[q[i]] <= addresses[q[j]]
             p == CHOOSE q \in Bijection(DOMAIN addresses, DOMAIN addresses) : Sorted(q)
  <1>1. n \in Nat /\ DOMAIN addresses = 1..n /\ addresses \in [1..n -> Nat]
    BY LenProperties
  <1> HIDE DEF n
  <1>2. IsFiniteSet(1..n) /\ Cardinality(1..n) = n
    BY <1>1, FS_Interval
  <1>3. PICK t \in Bijection(1..n, 1..n) : Rises(t, addresses)
    BY <1>1, <1>2, SortExists
  <1>4. Sorted(t)
    BY <1>1, <1>3 DEF Rises, Bijection, Injection
  <1>5. p \in Bijection(1..n, 1..n)
    <2> HIDE DEF Sorted
    <2>1. QED
      BY <1>1, <1>3, <1>4
  <1>6. p \in [1..n -> 1..n]
    <2> HIDE DEF p
    <2>1. QED
      BY <1>5 DEF Bijection, Injection
  <1>7. Ascending(addresses) = [i \in 1..n |-> addresses[p[i]]]
    BY <1>1 DEF Ascending
  <1> HIDE DEF p
  <1>8. \A i \in 1..n : addresses[p[i]] \in Nat
    BY <1>1, <1>6
  <1>9. QED
    BY <1>1, <1>7, <1>8, MapSeq

\* The same inputs, in the order of their ids.
LEMMA ByIdAre ==
    ASSUME NEW ins \in Seq(Input), Unique(ins)
    PROVE  /\ ById(ins) \in Seq(Input) /\ Unique(ById(ins)) /\ ToSet(ById(ins)) = ToSet(ins)
           /\ \A a : AmountIn(ById(ins), a) = AmountIn(ins, a)
  <1> DEFINE n == Len(ins)
             D == 1..n
             Sorted(s) == \A i, j \in DOMAIN ins : i < j => s[i].id < s[j].id
             z == ById(ins)
             h == [i \in D |-> CHOOSE k \in D : ins[k] = z[i]]
  <1>1. n \in Nat /\ DOMAIN ins = D /\ \A k \in D : ins[k] \in Input /\ ins[k].id \in Nat
    <2>1. n \in Nat /\ DOMAIN ins = D /\ \A k \in D : ins[k] \in Input
      BY LenProperties
    <2>2. QED
      BY <2>1 DEF Input
  <1>2. IsFiniteSet(D) /\ Cardinality(D) = n
    <2>1. n \in Nat
      BY <1>1
    <2> HIDE DEF n
    <2>2. QED
      BY <2>1, FS_Interval
  <1>3. PICK t \in Bijection(D, D) : Rises(t, [k \in D |-> ins[k].id])
    <2> DEFINE f == [k \in D |-> ins[k].id]
    <2>1. f \in [D -> Nat]
      BY <1>1
    <2> HIDE DEF f, D
    <2>2. QED
      BY <1>2, <2>1, SortExists DEF f, D
  <1>4. t \in [D -> D] /\ \A i, j \in D : t[i] = t[j] => i = j
    BY <1>3 DEF Bijection, Injection, IsInjective
  <1> DEFINE r == [i \in D |-> ins[t[i]]]
  <1>5. r \in [DOMAIN ins -> ToSet(ins)] /\ Sorted(r)
    <2>1. ASSUME NEW i \in D, NEW j \in D, i < j PROVE r[i].id < r[j].id
      <3>1. t[i] \in D /\ t[j] \in D /\ t[i] # t[j]
        BY <1>1, <1>4, <2>1
      <3>2. ins[t[i]].id <= ins[t[j]].id
        BY <1>3, <1>4, <2>1, <3>1 DEF Rises
      <3>3. QED
        BY <3>2, <1>1, <3>1 DEF Unique
    <2>2. QED
      BY <1>1, <2>1, <1>4 DEF ToSet
  <1>6. z \in [DOMAIN ins -> ToSet(ins)] /\ Sorted(z)
    <2>1. z = CHOOSE s \in [DOMAIN ins -> ToSet(ins)] : Sorted(s)
      BY DEF ById
    <2> HIDE DEF Sorted, z, r
    <2>2. QED
      BY <1>5, <2>1
  <1> HIDE DEF z, r
  <1>7. z \in [D -> Input] /\ \A i \in D : h[i] \in D /\ ins[h[i]] = z[i]
    BY <1>1, <1>6 DEF ToSet
  <1>8. \A i, j \in D : i # j => z[i].id # z[j].id
    <2> SUFFICES ASSUME NEW i \in D, NEW j \in D, i < j PROVE z[i].id # z[j].id
      BY <1>1
    <2>1. z[i].id \in Nat /\ z[j].id \in Nat
      BY <1>7 DEF Input
    <2>2. QED
      BY <2>1, <1>1, <1>6
  <1>9. z \in Seq(Input) /\ Len(z) = n /\ DOMAIN z = D
    BY <1>7, <1>1, MapSeq
  <1>10. Unique(z)
    BY <1>8, <1>9 DEF Unique
  <1>11. h \in [D -> D] /\ \A i, j \in D : h[i] = h[j] => i = j
    <2>1. h \in [D -> D]
      <3>1. h = [i \in D |-> h[i]]
        OBVIOUS
      <3> HIDE DEF h
      <3>2. QED
        BY <1>7, <3>1
    <2> HIDE DEF h
    <2>2. QED
      BY <1>7, <1>8, <2>1
  <1> HIDE DEF h, D
  <1>12. \A k \in D : \E i \in D : h[i] = k
    BY <1>11, <1>2, FS_Injection DEF Surjection, Injection, IsInjective
  <1>13. ToSet(z) = ToSet(ins)
    BY <1>7, <1>12, <1>1, <1>9 DEF ToSet
  <1>14. ASSUME NEW a PROVE AmountIn(z, a) = AmountIn(ins, a)
    <2>1. /\ AmountIn(z, a) = SumFunctionOnSet(Share(z, a), D)
          /\ \A i \in D : Share(z, a)[i] \in Int
      BY <1>9, InputAmounts, AmountShare DEF D
    <2>2. AmountIn(ins, a) = SumFunctionOnSet(Share(ins, a), D)
      BY InputAmounts, AmountShare DEF D
    <2>3. Renumbers(h, D, D)
      BY <1>11, <1>12 DEF Renumbers
    <2>4. SameTerms(Share(z, a), D, Share(ins, a), h)
      <3> SUFFICES ASSUME NEW i \in D PROVE Share(z, a)[i] \in Int /\ Share(ins, a)[h[i]] = Share(z, a)[i]
        BY DEF SameTerms
      <3>1. QED
        BY <1>1, <1>9, <2>1, <1>7 DEF Share
    <2>5. QED
      BY <1>2, <2>1, <2>2, <2>3, <2>4, SumReindex
  <1>15. QED
    BY <1>9, <1>10, <1>13, <1>14 DEF z

-----------------------------------------------------------------------------
\* Outputs and signatures.

\* A new output is an output.
LEMMA NewOutputType ==
    ASSUME NEW kind \in {"transfer", "mint", "nft", "nftMint"}, NEW asset \in Asset, NEW amount \in Nat,
           NEW addresses \in Seq(Nat), NEW locktime \in Nat, NEW threshold \in Nat,
           kind # "transfer" => amount = 0
    PROVE  /\ NewOutput(kind, asset, amount, addresses, locktime, threshold) \in Output
           /\ NewOutput(kind, asset, amount, addresses, locktime, threshold).asset = asset
           /\ NewOutput(kind, asset, amount, addresses, locktime, threshold).amount = amount
  BY AscendingType DEF NewOutput, Output

\* The addresses that qualify are addresses of the output.
LEMMA QualifiedType ==
    ASSUME NEW out \in Output, NEW addresses \in Seq(Nat)
    PROVE  QualifiedFor(out, addresses) \in Seq(Sig)
  <1> DEFINE One(i, j) == IF addresses[j] = out.addresses[i]
                          THEN <<[idx |-> i - 1, source |-> addresses[j]]>> ELSE <<>>
             Row(i) == [j \in DOMAIN addresses |-> One(i, j)]
             rows == [i \in DOMAIN out.addresses |-> FlattenSeq(Row(i))]
             m == Len(out.addresses)
             n == Len(addresses)
  <1>1. m \in Nat /\ DOMAIN out.addresses = 1..m
    BY LenProperties DEF Output
  <1>2. n \in Nat /\ DOMAIN addresses = 1..n /\ \A j \in 1..n : addresses[j] \in Nat
    BY LenProperties
  <1> HIDE DEF m, n
  <1>3. ASSUME NEW i \in 1..m PROVE FlattenSeq(Row(i)) \in Seq(Sig)
    <2>1. \A j \in 1..n : One(i, j) \in Seq(Sig)
      <3> SUFFICES ASSUME NEW j \in 1..n PROVE One(i, j) \in Seq(Sig)
        OBVIOUS
      <3>1. [idx |-> i - 1, source |-> addresses[j]] \in Sig
        BY <1>1, <1>2 DEF Sig
      <3>2. QED
        BY <3>1, EmptySeq
    <2> DEFINE row == Row(i)
    <2>2. DOMAIN row = 1..n /\ row = [j \in 1..n |-> row[j]] /\ \A j \in 1..n : row[j] \in Seq(Sig)
      BY <1>2, <2>1
    <2> HIDE DEF row
    <2>3. QED
      BY <1>2, <2>2, FlatType, MapSeq DEF row
  <1>4. DOMAIN rows = 1..m /\ rows = [i \in 1..m |-> rows[i]] /\ \A i \in 1..m : rows[i] \in Seq(Sig)
    BY <1>1, <1>3
  <1>5. QualifiedFor(out, addresses) = FlattenSeq(rows)
    BY DEF QualifiedFor
  <1> HIDE DEF rows
  <1>6. QED
    BY <1>5, <1>1, <1>4, FlatType, MapSeq

\* The spenders of an output are addresses.
LEMMA SpendersType ==
    ASSUME NEW out \in Output, NEW addresses \in Seq(Nat), NEW time
    PROVE  GetSpenders(out, addresses, time) \in Seq(Sig)
  <1> DEFINE q == QualifiedFor(out, addresses)
             n == IF Len(q) < out.threshold THEN Len(q) ELSE out.threshold
  <1>1. q \in Seq(Sig)
    BY QualifiedType
  <1> HIDE DEF q
  <1>2. n \in Int /\ \A i \in 1..n : q[i] \in Sig
    BY <1>1, LenProperties DEF Output
  <1>3. SubSeq(q, 1, n) \in Seq(Sig)
    <2> HIDE DEF n
    <2>1. QED
      BY <1>2, SubSeqProperties
  <1>4. QED
    BY <1>3, EmptySeq DEF GetSpenders, q

\* A new input names the UTXO, its asset, its amount and signatures.
LEMMA NewInputType ==
    ASSUME NEW u \in Utxo, NEW addresses \in Seq(Nat), NEW time
    PROVE  /\ NewInput(u, addresses, time) \in Input
           /\ NewInput(u, addresses, time).id = u.id
           /\ NewInput(u, addresses, time).asset = u.out.asset
           /\ NewInput(u, addresses, time).amount = u.out.amount
  BY OutputAmounts, SpendersType DEF Utxo, NewInput, Input

-----------------------------------------------------------------------------
\* What is asked of a selection.

Asks == [asset : Asset, amount : Nat, burn : Nat]

WellAsked(aad) ==
    /\ aad.asks \in Seq(Asks)
    /\ \A j, k \in DOMAIN aad.asks : aad.asks[j].asset = aad.asks[k].asset => j = k
    /\ aad.to \in Seq(Nat) /\ aad.from \in Seq(Nat) /\ aad.change \in Seq(Nat)

\* What is asked for one asset is one ask.
LEMMA AsksAre ==
    ASSUME NEW aad, WellAsked(aad)
    PROVE  /\ Len(aad.asks) \in Nat /\ DOMAIN aad.asks = 1..Len(aad.asks)
           /\ \A k \in 1..Len(aad.asks) : aad.asks[k] \in Asks /\ aad.asks[k].asset \in AssetsOf(aad)
           /\ AssetsOf(aad) \subseteq Asset
           /\ \A a \in AssetsOf(aad) : \E k \in 1..Len(aad.asks) : aad.asks[k].asset = a
  <1>1. Len(aad.asks) \in Nat /\ DOMAIN aad.asks = 1..Len(aad.asks) /\ \A k \in 1..Len(aad.asks) : aad.asks[k] \in Asks
    BY LenProperties DEF WellAsked
  <1>2. QED
    BY <1>1 DEF AssetsOf, Asks

\* At first nothing is spent of any asset that is asked for.
LEMMA UnspentIs ==
    ASSUME NEW aad, WellAsked(aad), NEW k \in DOMAIN aad.asks
    PROVE  Unspent(aad)[aad.asks[k].asset] = NewAssetAmount(aad.asks[k].amount, aad.asks[k].burn)
  <1> DEFINE a == aad.asks[k].asset
             ask == CHOOSE e \in ToSet(aad.asks) : e.asset = a
  <1>1. a \in AssetsOf(aad)
    BY DEF AssetsOf
  <1>2. ask \in ToSet(aad.asks) /\ ask.asset = a
    BY DEF ToSet
  <1> HIDE DEF ask
  <1>3. PICK j \in DOMAIN aad.asks : ask = aad.asks[j]
    BY <1>2 DEF ToSet
  <1>4. QED
    BY <1>3, <1>2, <1>1 DEF WellAsked, Unspent, ask

Bear(outs, amounts) ==
    /\ outs \in Seq(Output)
    /\ \A a : AmountIn(outs, a) = IF a \in DOMAIN amounts THEN amounts[a] ELSE 0

\* An output for each amount that is more than 0.
LEMMA OutputsAre ==
    ASSUME NEW aad, WellAsked(aad), NEW amounts \in [AssetsOf(aad) -> Nat], NEW addresses \in Seq(Nat),
           NEW locktime \in Nat, NEW threshold \in Nat
    PROVE  Bear(OutputsOf(aad, amounts, addresses, locktime, threshold), amounts)
  <1> DEFINE n == Len(aad.asks)
             New(k) == NewOutput("transfer", aad.asks[k].asset, amounts[aad.asks[k].asset], addresses, locktime, threshold)
             ss == [k \in DOMAIN aad.asks |-> IF amounts[aad.asks[k].asset] > 0 THEN <<New(k)>> ELSE <<>>]
             outs == OutputsOf(aad, amounts, addresses, locktime, threshold)
  <1>1. /\ n \in Nat /\ DOMAIN aad.asks = 1..n
        /\ \A k \in 1..n : aad.asks[k] \in Asks /\ aad.asks[k].asset \in AssetsOf(aad) /\ aad.asks[k].asset \in Asset
        /\ \A k \in 1..n : amounts[aad.asks[k].asset] \in Nat
        /\ \A a \in AssetsOf(aad) : \E k \in 1..n : aad.asks[k].asset = a
    <2>1. /\ n \in Nat /\ DOMAIN aad.asks = 1..n
          /\ \A k \in 1..n : aad.asks[k] \in Asks /\ aad.asks[k].asset \in AssetsOf(aad)
          /\ AssetsOf(aad) \subseteq Asset
          /\ \A a \in AssetsOf(aad) : \E k \in 1..n : aad.asks[k].asset = a
      BY AsksAre
    <2> HIDE DEF n
    <2>2. QED
      BY <2>1
  <1>2. outs = FlattenSeq(ss)
    BY DEF OutputsOf
  <1>3. ASSUME NEW k \in 1..n
        PROVE  New(k) \in Output /\ New(k).asset = aad.asks[k].asset /\ New(k).amount = amounts[aad.asks[k].asset]
    <2> DEFINE asset == aad.asks[k].asset
               amount == amounts[asset]
               new == NewOutput("transfer", asset, amount, addresses, locktime, threshold)
    <2>1. asset \in Asset /\ amount \in Nat
      BY <1>1
    <2>2. New(k) = new
      OBVIOUS
    <2> HIDE DEF New, asset, amount, n
    <2>3. new \in Output /\ new.asset = asset /\ new.amount = amount
      BY <2>1, NewOutputType
    <2> HIDE DEF new
    <2>4. QED
      BY <2>2, <2>3 DEF asset, amount
  <1> HIDE DEF New, n
  <1>4. ASSUME NEW k \in 1..n
        PROVE  /\ ss[k] \in Seq(Output)
               /\ \A a : AmountIn(ss[k], a) = IF aad.asks[k].asset = a THEN amounts[a] ELSE 0
    <2>1. CASE amounts[aad.asks[k].asset] > 0
      <3>1. ss[k] = <<New(k)>>
        BY <1>1, <2>1
      <3>2. \A a : AmountIn(<<New(k)>>, a) = IF New(k).asset = a THEN New(k).amount ELSE 0
        BY <1>3, OutputAmounts, AmountSingle
      <3>3. <<New(k)>> \in Seq(Output)
        BY <1>3
      <3> HIDE DEF ss
      <3>4. QED
        BY <1>3, <3>1, <3>2, <3>3
    <2>2. CASE ~(amounts[aad.asks[k].asset] > 0)
      <3>1. ss[k] = <<>> /\ amounts[aad.asks[k].asset] = 0
        BY <1>1, <2>2
      <3> HIDE DEF ss
      <3>2. QED
        BY <3>1, AmountEmpty, EmptySeq
    <2>3. QED
      BY <2>1, <2>2
  <1>5. DOMAIN ss = 1..n /\ ss = [k \in 1..n |-> ss[k]]
    BY <1>1
  <1> HIDE DEF ss
  <1>6. ss \in Seq(Seq(Output))
    BY <1>1, <1>4, <1>5, MapSeq
  <1>7. ASSUME NEW a PROVE AmountIn(FlattenSeq(ss), a) = IF a \in AssetsOf(aad) THEN amounts[a] ELSE 0
    <2> DEFINE g == [k \in 1..n |-> AmountIn(ss[k], a)]
    <2>1. AmountIn(FlattenSeq(ss), a) = SumFunctionOnSet(g, 1..n)
      BY <1>5, <1>6, OutputAmounts, FlatAmount
    <2>2. \A k \in 1..n : g[k] = IF aad.asks[k].asset = a THEN amounts[a] ELSE 0
      BY <1>4
    <2>3. IsFiniteSet(1..n)
      BY <1>1, FS_Interval
    <2> HIDE DEF g
    <2>4. CASE a \in AssetsOf(aad)
      <3>1. PICK k \in 1..n : aad.asks[k].asset = a
        BY <1>1, <2>4
      <3>2. \A j \in (1..n) \ {k} : g[j] = 0
        BY <1>1, <2>2, <3>1 DEF WellAsked
      <3>3. g[k] = amounts[a] /\ g[k] \in Int
        BY <1>1, <2>2, <3>1
      <3>4. QED
        BY <2>1, <2>4, <3>3, <2>3, <3>2, SumSingle
    <2>5. CASE a \notin AssetsOf(aad)
      <3>1. \A j \in (1..n) \ {} : g[j] = 0
        BY <1>1, <2>2, <2>5
      <3>2. SumFunctionOnSet(g, 1..n) = SumFunctionOnSet(g, {})
        BY <2>3, <3>1, SumSupport
      <3>3. QED
        BY <2>1, <2>5, <3>2, SumEmpty
    <2>6. QED
      BY <2>4, <2>5
  <1>8. QED
    BY <1>2, <1>7, <1>6, FlatType DEF Bear

-----------------------------------------------------------------------------
(* The loop over the UTXOs, as the function that the fold is. *)

SelectStart(aad) == [amounts |-> Unspent(aad), ins |-> <<>>]

SelectAt(utxos, aad, time, g, s) ==
    g[s] = IF s = {} THEN SelectStart(aad) ELSE Consume(aad, time, g[s \ {Max(s)}], utxos[Max(s)])

IsSelect(utxos, aad, time, g) ==
    g = [s \in SUBSET (DOMAIN utxos) |->
            IF s = {} THEN SelectStart(aad) ELSE Consume(aad, time, g[s \ {Max(s)}], utxos[Max(s)])]

\* The selection is the loop over all UTXOs.
LEMMA SelectUnfold ==
    ASSUME NEW utxos, NEW aad, NEW time
    PROVE  Selected(utxos, aad, time) = (CHOOSE g : IsSelect(utxos, aad, time, g))[DOMAIN utxos]
  BY DEF Selected, FoldLeft, MapThenFoldSet, IsSelect, SelectStart

\* The loop over the UTXOs has a result for each number of UTXOs.
LEMMA SelectExists ==
    ASSUME NEW utxos, NEW aad, NEW time, IsFiniteSet(DOMAIN utxos), DOMAIN utxos \subseteq Nat
    PROVE  \E g : IsSelect(utxos, aad, time, g)
  <1> DEFINE D == DOMAIN utxos
             Small(n) == {s \in SUBSET D : Cardinality(s) <= n}
             Upto(n, g) == \A s \in Small(n) : SelectAt(utxos, aad, time, g, s)
             G == {n \in Nat : \E g : Upto(n, g)}
  <1>1. \A s \in SUBSET D : IsFiniteSet(s) /\ Cardinality(s) \in Nat
    BY FS_Subset, FS_CardinalityType
  <1>2. 0 \in G
    <2>1. Upto(0, [s \in SUBSET D |-> SelectStart(aad)])
      BY <1>1, FS_EmptySet DEF SelectAt
    <2>2. QED
      BY <2>1
  <1>3. ASSUME NEW n \in Nat, n \in G PROVE n + 1 \in G
    <2>1. PICK g : Upto(n, g)
      BY <1>3
    <2> DEFINE OneMore(s) == Consume(aad, time, g[s \ {Max(s)}], utxos[Max(s)])
               h == [s \in SUBSET D |-> IF s \in Small(n) THEN g[s] ELSE OneMore(s)]
    <2>2. ASSUME NEW s \in Small(n + 1) PROVE SelectAt(utxos, aad, time, h, s)
      <3>1. CASE s = {}
        BY <3>1, <2>1, FS_EmptySet DEF SelectAt
      <3>2. CASE s # {}
        <4>1. h[s \ {Max(s)}] = g[s \ {Max(s)}]
          BY <1>1, <3>2, FS_RemoveElement, GreatestNumber
        <4>2. h[s] = OneMore(s)
          BY <2>1, <3>2 DEF SelectAt
        <4> HIDE DEF h
        <4>3. QED
          BY <3>2, <4>1, <4>2 DEF SelectAt
      <3>3. QED
        BY <3>1, <3>2
    <2> HIDE DEF h
    <2>3. QED
      BY <2>2
  <1>4. Cardinality(D) \in G
    <2>1. Nat \subseteq G
      <3> HIDE DEF G
      <3>1. QED
        BY <1>2, <1>3, NumberInduction
    <2>2. QED
      BY <1>1, <2>1
  <1>5. PICK g : Upto(Cardinality(D), g)
    BY <1>4
  <1>6. \A s \in SUBSET D : s \in Small(Cardinality(D))
    BY FS_Subset
  <1> DEFINE h == [s \in SUBSET D |-> g[s]]
  <1>7. IsSelect(utxos, aad, time, h)
    <2>1. ASSUME NEW s \in SUBSET D
          PROVE  h[s] = IF s = {} THEN SelectStart(aad)
                        ELSE Consume(aad, time, h[s \ {Max(s)}], utxos[Max(s)])
      <3>1. SelectAt(utxos, aad, time, g, s)
        BY <1>5, <1>6
      <3>2. h[s] = g[s] /\ h[s \ {Max(s)}] = g[s \ {Max(s)}]
        OBVIOUS
      <3> HIDE DEF h
      <3>3. QED
        BY <3>1, <3>2 DEF SelectAt
    <2>2. QED
      BY <2>1 DEF IsSelect
  <1>8. QED
    BY <1>7

-----------------------------------------------------------------------------
\* What has been selected, and what is known of the amounts.

OneSpent(aad, done, a) ==
    /\ done.amounts[a].amount = Unspent(aad)[a].amount /\ done.amounts[a].burn = Unspent(aad)[a].burn
    /\ done.amounts[a].spent = AmountIn(done.ins, a)
    /\ done.amounts[a].finished =>
           done.amounts[a].spent = done.amounts[a].amount + done.amounts[a].burn + done.amounts[a].change

SelectInv(utxos, aad, done) ==
    /\ done.amounts \in [AssetsOf(aad) -> AssetAmounts]
    /\ done.ins \in Seq(Input)
    /\ \A i \in DOMAIN done.ins : Spends(done.ins[i], utxos)
    /\ \A a \in AssetsOf(aad) : OneSpent(aad, done, a)
    /\ \A a : a \notin AssetsOf(aad) => AmountIn(done.ins, a) = 0

\* Spending a UTXO keeps what is known of the amounts of its asset.
LEMMA SpendKeeps ==
    ASSUME NEW aa \in AssetAmounts, NEW amt \in Nat
    PROVE  LET b == SpendAmount(aa, amt, FALSE)
           IN /\ b \in AssetAmounts
              /\ b.amount = aa.amount /\ b.burn = aa.burn /\ b.spent = aa.spent + amt
              /\ b.finished => b.spent = b.amount + b.burn + b.change
  <1> DEFINE total == aa.amount + aa.burn
             spent == aa.spent + amt
             b == SpendAmount(aa, amt, FALSE)
  <1> DEFINE change == IF spent >= total THEN spent - total ELSE aa.change
  <1>1. /\ aa.amount \in Nat /\ aa.burn \in Nat /\ aa.spent \in Nat /\ aa.change \in Nat
        /\ aa.stakeableLockSpent \in Nat /\ aa.stakeableLockChange \in BOOLEAN
    BY DEF AssetAmounts
  <1>2. b = [amount |-> aa.amount, burn |-> aa.burn, spent |-> spent,
             stakeableLockSpent |-> aa.stakeableLockSpent, change |-> change,
             stakeableLockChange |-> aa.stakeableLockChange, finished |-> spent >= total]
    BY <1>1 DEF SpendAmount, SpendTowards, Requested
  <1>3. change \in Nat /\ spent \in Nat
    BY <1>1
  <1>4. (spent >= total) \in BOOLEAN
    OBVIOUS
  <1> DEFINE covers == spent >= total
  <1>5. b = [amount |-> aa.amount, burn |-> aa.burn, spent |-> spent,
             stakeableLockSpent |-> aa.stakeableLockSpent, change |-> change,
             stakeableLockChange |-> aa.stakeableLockChange, finished |-> covers]
    BY <1>2
  <1>6. covers => spent = aa.amount + aa.burn + change
    BY <1>1
  <1>7. covers \in BOOLEAN
    BY <1>4
  <1> HIDE DEF spent, change, covers, b
  <1>8. /\ b.amount = aa.amount /\ b.burn = aa.burn /\ b.spent = spent
        /\ b.change = change /\ b.finished = covers
    BY <1>5
  <1>9. b \in AssetAmounts
    BY <1>1, <1>3, <1>5, <1>7 DEF AssetAmounts
  <1>10. b.finished => b.spent = b.amount + b.burn + b.change
    BY <1>6, <1>8, Zenon
  <1>11. QED
    BY <1>8, <1>9, <1>10 DEF b, spent

\* The loop starts with nothing selected.
LEMMA SelectStarts ==
    ASSUME NEW utxos, NEW aad, WellAsked(aad)
    PROVE  SelectInv(utxos, aad, SelectStart(aad))
  <1> DEFINE s == SelectStart(aad)
  <1>1. s.amounts = Unspent(aad) /\ s.ins = <<>>
    BY DEF SelectStart
  <1>2. ASSUME NEW a \in AssetsOf(aad)
        PROVE  /\ Unspent(aad)[a] \in AssetAmounts
               /\ Unspent(aad)[a].spent = 0 /\ Unspent(aad)[a].finished = FALSE
    <2>1. PICK k \in DOMAIN aad.asks : aad.asks[k].asset = a /\ aad.asks[k] \in Asks
      BY AsksAre
    <2>2. Unspent(aad)[a] = NewAssetAmount(aad.asks[k].amount, aad.asks[k].burn)
      BY <2>1, UnspentIs
    <2>3. QED
      BY <2>1, <2>2 DEF NewAssetAmount, AssetAmounts, Asks
  <1>3. Unspent(aad) \in [AssetsOf(aad) -> AssetAmounts]
    BY <1>2 DEF Unspent
  <1>4. <<>> \in Seq(Input) /\ \A a : AmountIn(<<>>, a) = 0
    BY AmountEmpty, EmptySeq
  <1> HIDE DEF s
  <1>5. SelectInv(utxos, aad, s)
    <2>1. \A a \in AssetsOf(aad) : OneSpent(aad, s, a)
      BY <1>1, <1>2, <1>4 DEF OneSpent
    <2>2. QED
      BY <2>1, <1>1, <1>4, <1>3 DEF SelectInv
  <1>6. QED
    BY <1>5 DEF s

\* A step of the loop keeps what is known of the selection.
LEMMA SelectStep ==
    ASSUME NEW utxos \in Seq(Utxo), NEW aad, WellAsked(aad), NEW time, NEW done,
           SelectInv(utxos, aad, done), NEW u \in ToSet(utxos)
    PROVE  SelectInv(utxos, aad, Consume(aad, time, done, u))
  <1> DEFINE takes == /\ ~CanComplete(done.amounts)
                      /\ u.out.kind = "transfer"
                      /\ u.out.asset \in AssetsOf(aad)
                      /\ MeetsThreshold(u.out, aad.from, time)
                      /\ ~done.amounts[u.out.asset].finished
             b == u.out.asset
             in == NewInput(u, aad.from, time)
             aa == SpendAmount(done.amounts[b], u.out.amount, FALSE)
             next == [amounts |-> [done.amounts EXCEPT ![b] = aa], ins |-> Append(done.ins, in)]
  <1>1. Consume(aad, time, done, u) = IF takes THEN next ELSE done
    BY DEF Consume
  <1>2. CASE ~takes
    BY <1>1, <1>2
  <1>3. CASE takes
    <2>1. u \in Utxo /\ u.out \in Output /\ u.out.amount \in Nat /\ aad.from \in Seq(Nat) /\ b \in AssetsOf(aad)
      <3>1. u \in Utxo
        BY RangeOfSeq, LenProperties DEF ToSet
      <3>2. QED
        BY <1>3, <3>1, OutputAmounts DEF Utxo, WellAsked
    <2>2. in \in Input /\ in.id = u.id /\ in.asset = b /\ in.amount = u.out.amount
      BY <2>1, NewInputType
    <2>3. Spends(in, utxos)
      BY <2>2 DEF Spends
    <2>4. /\ aa \in AssetAmounts
          /\ aa.amount = done.amounts[b].amount /\ aa.burn = done.amounts[b].burn
          /\ aa.spent = done.amounts[b].spent + u.out.amount
          /\ aa.finished => aa.spent = aa.amount + aa.burn + aa.change
      BY <2>1, SpendKeeps DEF SelectInv
    <2> HIDE DEF in, aa, b
    <2>5. done.ins \in Seq(Input) /\ done.amounts \in [AssetsOf(aad) -> AssetAmounts]
      BY DEF SelectInv
    <2>6. \A a : AmountIn(next.ins, a) = AmountIn(done.ins, a) + (IF b = a THEN u.out.amount ELSE 0)
      BY <2>2, <2>5, InputAmounts, AmountAppend
    <2>7. next.ins \in Seq(Input) /\ \A i \in DOMAIN next.ins : Spends(next.ins[i], utxos)
      BY <2>2, <2>5, <2>3, AppendProperties, LenProperties DEF SelectInv
    <2>8. next.amounts \in [AssetsOf(aad) -> AssetAmounts]
      BY <2>1, <2>4, <2>5
    <2>9. ASSUME NEW a \in AssetsOf(aad) PROVE OneSpent(aad, next, a)
      <3>1. OneSpent(aad, done, a) /\ AmountIn(done.ins, a) \in Int
        BY <2>5, InputAmounts, AmountShare DEF SelectInv
      <3>2. CASE a = b
        <4>1. next.amounts[a] = aa
          BY <2>1, <2>5, <3>2
        <4>2. AmountIn(next.ins, a) = AmountIn(done.ins, a) + u.out.amount
          BY <2>6, <3>2
        <4> HIDE DEF next
        <4>3. QED
          BY <2>4, <3>1, <3>2, <4>1, <4>2 DEF OneSpent
      <3>3. CASE a # b
        <4>1. next.amounts[a] = done.amounts[a]
          BY <2>5, <3>3
        <4>2. AmountIn(next.ins, a) = AmountIn(done.ins, a)
          BY <2>6, <3>1, <3>3
        <4> HIDE DEF next
        <4>3. QED
          BY <3>1, <4>1, <4>2 DEF OneSpent
      <3>4. QED
        BY <3>2, <3>3
    <2>10. ASSUME NEW a, a \notin AssetsOf(aad) PROVE AmountIn(next.ins, a) = 0
      <3>1. a # b /\ AmountIn(done.ins, a) = 0
        BY <2>1, <2>10 DEF SelectInv
      <3>2. AmountIn(next.ins, a) = AmountIn(done.ins, a) + (IF b = a THEN u.out.amount ELSE 0)
        BY <2>6
      <3> HIDE DEF next
      <3>3. QED
        BY <3>1, <3>2
    <2> HIDE DEF next
    <2>11. QED
      BY <1>1, <1>3, <2>7, <2>8, <2>9, <2>10 DEF SelectInv
  <1>4. QED
    BY <1>2, <1>3

\* What is known of the selection after the loop.
LEMMA SelectedFacts ==
    ASSUME NEW utxos \in Seq(Utxo), NEW aad, WellAsked(aad), NEW time
    PROVE  SelectInv(utxos, aad, Selected(utxos, aad, time))
  <1> DEFINE D == DOMAIN utxos
             g == CHOOSE h : IsSelect(utxos, aad, time, h)
             G == {n \in Nat : n <= Len(utxos) => SelectInv(utxos, aad, g[1..n])}
  <1>1. Len(utxos) \in Nat /\ D = 1..Len(utxos)
    BY LenProperties
  <1>2. IsFiniteSet(D) /\ D \subseteq Nat
    BY <1>1, FS_Interval
  <1>3. IsSelect(utxos, aad, time, g)
    BY <1>2, SelectExists
  <1> HIDE DEF g
  <1>4. \A s \in SUBSET D : SelectAt(utxos, aad, time, g, s)
    BY <1>3 DEF IsSelect, SelectAt
  <1>5. 0 \in G
    <2>1. 1..0 = {} /\ {} \in SUBSET D
      OBVIOUS
    <2>2. g[{}] = SelectStart(aad)
      BY <1>4 DEF SelectAt
    <2>3. g[1..0] = SelectStart(aad)
      BY <2>1, <2>2, Zenon
    <2>4. QED
      BY <2>3, SelectStarts
  <1>6. ASSUME NEW n \in Nat, n \in G PROVE n + 1 \in G
    <2> SUFFICES ASSUME n + 1 <= Len(utxos) PROVE SelectInv(utxos, aad, g[1..(n + 1)])
      OBVIOUS
    <2>1. n <= Len(utxos) /\ n + 1 \in DOMAIN utxos
      BY <1>1
    <2>2. g[1..(n + 1)] = Consume(aad, time, g[1..n], utxos[n + 1])
      <3>1. SelectAt(utxos, aad, time, g, 1..(n + 1))
        BY <1>4, <1>1, <2>1
      <3>2. g[1..(n + 1)] = Consume(aad, time, g[(1..(n + 1)) \ {n + 1}], utxos[n + 1])
        BY <3>1, LastIndex, Zenon DEF SelectAt
      <3>3. QED
        BY <3>2, LastIndex, Zenon
    <2>3. QED
      BY <2>2, <1>6, <2>1, SelectStep DEF ToSet
  <1>7. Len(utxos) \in G
    <2>1. Nat \subseteq G
      <3> HIDE DEF G
      <3>1. QED
        BY <1>5, <1>6, NumberInduction
    <2>2. QED
      BY <1>1, <2>1
  <1>8. Selected(utxos, aad, time) = g[1..Len(utxos)]
    <2>1. Selected(utxos, aad, time) = g[D]
      BY SelectUnfold DEF g
    <2>2. QED
      BY <1>1, <2>1, Zenon
  <1>9. QED
    BY <1>1, <1>7, <1>8

\* The inputs pay the outputs, the change and what is asked to be burned.
Settled(aad, utxos, got) ==
    /\ got.ins \in Seq(Input) /\ got.outs \in Seq(Output) /\ got.change \in Seq(Output)
    /\ \A i \in DOMAIN got.ins : Spends(got.ins[i], utxos)
    /\ \A k \in DOMAIN aad.asks :
           AmountIn(got.ins, aad.asks[k].asset)
               = AmountIn(got.outs, aad.asks[k].asset) + AmountIn(got.change, aad.asks[k].asset) + aad.asks[k].burn
    /\ \A a : a \notin AssetsOf(aad) => AmountIn(got.ins, a) = AmountIn(got.outs, a) + AmountIn(got.change, a)

\* A selection that succeeds is settled: inputs are outputs, change and what is burned.
LEMMA SelectionSettles ==
    ASSUME NEW utxos \in Seq(Utxo), NEW aad, WellAsked(aad), NEW time, NEW locktime \in Nat, NEW threshold \in Nat,
           GetMinimumSpendable(utxos, aad, time, locktime, threshold) # Failed
    PROVE  Settled(aad, utxos, GetMinimumSpendable(utxos, aad, time, locktime, threshold))
  <1> DEFINE selected == Selected(utxos, aad, time)
             amounts == [a \in DOMAIN selected.amounts |-> selected.amounts[a].amount]
             changes == [a \in DOMAIN selected.amounts |-> selected.amounts[a].change]
             outs == OutputsOf(aad, amounts, aad.to, locktime, threshold)
             change == OutputsOf(aad, changes, aad.change, 0, 1)
             got == GetMinimumSpendable(utxos, aad, time, locktime, threshold)
  <1>1. CanComplete(selected.amounts) /\ got = [ins |-> selected.ins, outs |-> outs, change |-> change]
    BY DEF GetMinimumSpendable
  <1>2. SelectInv(utxos, aad, selected)
    BY SelectedFacts
  <1> HIDE DEF selected, got
  <1>3. selected.amounts \in [AssetsOf(aad) -> AssetAmounts]
    BY <1>2 DEF SelectInv
  <1>4. amounts \in [AssetsOf(aad) -> Nat] /\ changes \in [AssetsOf(aad) -> Nat]
    BY <1>3 DEF AssetAmounts
  <1>5. aad.to \in Seq(Nat) /\ aad.change \in Seq(Nat)
    BY DEF WellAsked
  <1>6. \A a \in AssetsOf(aad) : amounts[a] = selected.amounts[a].amount /\ changes[a] = selected.amounts[a].change
    BY <1>3
  <1> HIDE DEF amounts, changes
  <1>7. Bear(outs, amounts) /\ Bear(change, changes)
    BY <1>4, <1>5, OutputsAre
  <1> HIDE DEF outs, change
  <1>8. outs \in Seq(Output) /\ \A a : AmountIn(outs, a) = IF a \in AssetsOf(aad) THEN amounts[a] ELSE 0
    BY <1>4, <1>7 DEF Bear
  <1>9. change \in Seq(Output) /\ \A a : AmountIn(change, a) = IF a \in AssetsOf(aad) THEN changes[a] ELSE 0
    BY <1>4, <1>7 DEF Bear
  <1>10. got.ins = selected.ins /\ got.outs = outs /\ got.change = change
    BY <1>1
  <1>11. ASSUME NEW k \in DOMAIN aad.asks, NEW a, a = aad.asks[k].asset
         PROVE  AmountIn(got.ins, a) = AmountIn(got.outs, a) + AmountIn(got.change, a) + aad.asks[k].burn
    <2>1. a \in AssetsOf(aad)
      BY <1>11 DEF AssetsOf
    <2>2. Unspent(aad)[a] = NewAssetAmount(aad.asks[k].amount, aad.asks[k].burn)
      BY <1>11, UnspentIs
    <2>3. OneSpent(aad, selected, a) /\ selected.amounts[a].finished
      BY <1>1, <1>2, <1>3, <2>1 DEF SelectInv, CanComplete
    <2>4. AmountIn(selected.ins, a) = amounts[a] + aad.asks[k].burn + changes[a]
      BY <1>6, <2>1, <2>3, <2>2 DEF OneSpent, NewAssetAmount
    <2>5. amounts[a] \in Nat /\ changes[a] \in Nat /\ aad.asks[k].burn \in Nat
      BY <1>4, <2>1, AsksAre DEF Asks
    <2>6. QED
      BY <1>10, <2>4, <2>5, <1>8, <1>9, <2>1
  <1>12. ASSUME NEW a, a \notin AssetsOf(aad) PROVE AmountIn(got.ins, a) = AmountIn(got.outs, a) + AmountIn(got.change, a)
    BY <1>2, <1>12, <1>8, <1>9, <1>10 DEF SelectInv
  <1>13. got.outs \in Seq(Output) /\ got.change \in Seq(Output)
    BY <1>8, <1>9, <1>10
  <1>14. Settled(aad, utxos, got)
    BY <1>11, <1>12, <1>13, <1>2, <1>10 DEF Settled, SelectInv
  <1>15. QED
    BY <1>14 DEF got

\* One ask, or an amount and a fee in two assets.
AsksOne(aad, asset, burn) ==
    /\ WellAsked(aad) /\ DOMAIN aad.asks = {1} /\ AssetsOf(aad) = {asset}
    /\ aad.asks[1].asset = asset /\ aad.asks[1].burn = burn

AsksTwo(aad, asset, feeAsset, fee) ==
    /\ WellAsked(aad) /\ DOMAIN aad.asks = {1, 2} /\ AssetsOf(aad) = {asset, feeAsset}
    /\ aad.asks[1].asset = asset /\ aad.asks[1].burn = 0
    /\ aad.asks[2].asset = feeAsset /\ aad.asks[2].burn = fee

\* An amount and its fee in one asset are one ask.
LEMMA OneAsk ==
    ASSUME NEW asset \in Asset, NEW amount \in Nat, NEW burn \in Nat,
           NEW to \in Seq(Nat), NEW from \in Seq(Nat), NEW change \in Seq(Nat)
    PROVE  AsksOne(Aad(<<Ask(asset, amount, burn)>>, to, from, change), asset, burn)
  <1> DEFINE p == Ask(asset, amount, burn)
             asks == <<p>>
             aad == Aad(asks, to, from, change)
  <1>1. p \in Asks /\ p.asset = asset /\ p.burn = burn
    BY DEF Ask, Asks
  <1> HIDE DEF p
  <1>2. asks \in Seq(Asks) /\ DOMAIN asks = {1} /\ asks[1] = p
    BY <1>1
  <1> HIDE DEF asks
  <1>3. aad.asks = asks /\ aad.to = to /\ aad.from = from /\ aad.change = change
    BY DEF Aad
  <1> HIDE DEF aad
  <1>4. AsksOne(aad, asset, burn)
    BY <1>1, <1>2, <1>3 DEF AsksOne, WellAsked, AssetsOf
  <1>5. QED
    BY <1>4 DEF aad, asks, p

\* An amount and a fee in two assets are two asks.
LEMMA TwoAsks ==
    ASSUME NEW asset \in Asset, NEW amount \in Nat, NEW feeAsset \in Asset, NEW fee \in Nat, asset # feeAsset,
           NEW to \in Seq(Nat), NEW from \in Seq(Nat), NEW change \in Seq(Nat)
    PROVE  AsksTwo(Aad(<<Ask(asset, amount, 0), Ask(feeAsset, 0, fee)>>, to, from, change), asset, feeAsset, fee)
  <1> DEFINE p == Ask(asset, amount, 0)
             q == Ask(feeAsset, 0, fee)
             asks == <<p, q>>
             aad == Aad(asks, to, from, change)
  <1>1. p \in Asks /\ p.asset = asset /\ p.burn = 0 /\ q \in Asks /\ q.asset = feeAsset /\ q.burn = fee
    BY DEF Ask, Asks
  <1> HIDE DEF p, q
  <1>2. asks \in Seq(Asks) /\ DOMAIN asks = {1, 2} /\ asks[1] = p /\ asks[2] = q
    BY <1>1
  <1> HIDE DEF asks
  <1>3. aad.asks = asks /\ aad.to = to /\ aad.from = from /\ aad.change = change
    BY DEF Aad
  <1> HIDE DEF aad
  <1>4. AsksTwo(aad, asset, feeAsset, fee)
    BY <1>1, <1>2, <1>3 DEF AsksTwo, WellAsked, AssetsOf
  <1>5. QED
    BY <1>4 DEF aad, asks, p, q

\* The parts of a call.
LEMMA CallType ==
    ASSUME NEW c \in Call
    PROVE  /\ c.asset \in Asset /\ c.amount \in Nat /\ c.fee \in Nat /\ c.feeAsset \in Asset
           /\ c.to \in Seq(Nat) /\ c.from \in Seq(Nat) /\ c.change \in Seq(Nat)
           /\ c.locktime \in Nat /\ c.toThreshold \in Nat /\ c.ids \in Seq(Nat)
           /\ c.minters \in MinterSets /\ c.nonce \in Nat
  BY DEF Call

\* What is selected for a call pays its fee.
Pays(c, utxos, got) ==
    /\ got.ins \in Seq(Input) /\ got.outs \in Seq(Output) /\ got.change \in Seq(Output)
    /\ \A i \in DOMAIN got.ins : Spends(got.ins[i], utxos)
    /\ \A a : AmountIn(got.ins, a) = AmountIn(got.outs, a) + AmountIn(got.change, a)
                                     + (IF a = c.feeAsset THEN c.fee ELSE 0)

\* The amounts of outputs and of inputs are natural numbers.
LEMMA AmountInNat ==
    /\ \A s \in Seq(Output) : \A a : AmountIn(s, a) \in Nat
    /\ \A s \in Seq(Input) : \A a : AmountIn(s, a) \in Nat
  BY OutputAmounts, AmountNat, InputAmounts

\* What is selected for a fee alone pays the fee.
LEMMA FeePays ==
    ASSUME NEW utxos \in Seq(Utxo), NEW c \in Call, NEW time, PayFee(utxos, c, time) # Failed
    PROVE  Pays(c, utxos, PayFee(utxos, c, time))
  <1> DEFINE aad == Aad(<<Ask(c.feeAsset, 0, c.fee)>>, <<>>, c.from, c.change)
             got == PayFee(utxos, c, time)
  <1>1. c.fee \in Nat /\ c.feeAsset \in Asset /\ c.from \in Seq(Nat) /\ c.change \in Seq(Nat)
    BY CallType
  <1>2. CASE FeeCheck(c.fee)
    <2>1. got = GetMinimumSpendable(utxos, aad, time, 0, 1)
      BY <1>2 DEF PayFee
    <2>2. AsksOne(aad, c.feeAsset, c.fee)
      BY <1>1, OneAsk, EmptySeq
    <2> HIDE DEF aad, got
    <2>3. /\ WellAsked(aad) /\ DOMAIN aad.asks = {1} /\ AssetsOf(aad) = {c.feeAsset}
          /\ aad.asks[1].asset = c.feeAsset /\ aad.asks[1].burn = c.fee
      BY <2>2 DEF AsksOne
    <2>4. Settled(aad, utxos, got)
      BY <2>1, <2>3, SelectionSettles DEF got
    <2>5. ASSUME NEW a
          PROVE  AmountIn(got.ins, a) = AmountIn(got.outs, a) + AmountIn(got.change, a)
                                            + (IF a = c.feeAsset THEN c.fee ELSE 0)
      BY <2>4, <2>3, AmountInNat DEF Settled
    <2>6. QED
      BY <2>4, <2>5 DEF got, Pays, Settled
  <1>3. CASE ~FeeCheck(c.fee)
    <2>1. c.fee = 0 /\ got = [ins |-> <<>>, outs |-> <<>>, change |-> <<>>]
      BY <1>1, <1>3 DEF PayFee, FeeCheck
    <2> HIDE DEF got
    <2>2. QED
      BY <2>1, AmountEmpty, EmptySeq DEF got, Pays
  <1>4. QED
    BY <1>2, <1>3

\* What is selected for an amount and a fee pays them both.
LEMMA SelectPays ==
    ASSUME NEW utxos \in Seq(Utxo), NEW c \in Call, NEW time, SelectFor(utxos, c, time) # Failed
    PROVE  Pays(c, utxos, SelectFor(utxos, c, time))
  <1> DEFINE aad == Aad(AmountAndFee(c), c.to, c.from, c.change)
             got == SelectFor(utxos, c, time)
  <1>1. /\ c.fee \in Nat /\ c.feeAsset \in Asset /\ c.asset \in Asset /\ c.amount \in Nat /\ c.locktime \in Nat
        /\ c.to \in Seq(Nat) /\ c.from \in Seq(Nat) /\ c.change \in Seq(Nat)
    BY CallType
  <1>2. got = GetMinimumSpendable(utxos, aad, time, c.locktime, 1)
    BY DEF SelectFor
  <1>3. /\ WellAsked(aad)
        /\ c.feeAsset \in AssetsOf(aad) =>
               \E k \in DOMAIN aad.asks : aad.asks[k].asset = c.feeAsset /\ aad.asks[k].burn = c.fee
        /\ c.feeAsset \notin AssetsOf(aad) => c.fee = 0
        /\ \A a \in AssetsOf(aad) : a # c.feeAsset =>
               \E k \in DOMAIN aad.asks : aad.asks[k].asset = a /\ aad.asks[k].burn = 0
    <2> DEFINE p == Ask(c.asset, c.amount, 0)
               q == Ask(c.feeAsset, 0, c.fee)
    <2>1. CASE c.asset = c.feeAsset
      <3>1. AsksOne(aad, c.asset, c.fee)
        BY <1>1, <2>1, OneAsk DEF AmountAndFee
      <3> HIDE DEF aad
      <3>2. QED
        BY <2>1, <3>1 DEF AsksOne
    <2>2. CASE c.asset # c.feeAsset /\ FeeCheck(c.fee)
      <3>1. AmountAndFee(c) = <<p>> \o <<q>>
        BY <2>2 DEF AmountAndFee
      <3>2. <<p>> \o <<q>> = <<p, q>>
        BY PairIs
      <3>3. AmountAndFee(c) = <<p, q>>
        BY <3>1, <3>2, Zenon
      <3>4. AsksTwo(aad, c.asset, c.feeAsset, c.fee)
        BY <1>1, <2>2, <3>3, TwoAsks
      <3> HIDE DEF aad
      <3>5. QED
        BY <2>2, <3>4 DEF AsksTwo
    <2>3. CASE c.asset # c.feeAsset /\ ~FeeCheck(c.fee)
      <3>1. AmountAndFee(c) = <<p>> \o <<>>
        BY <2>3 DEF AmountAndFee
      <3>2. <<p>> \o <<>> = <<p>>
        BY PairIs
      <3>3. AmountAndFee(c) = <<p>>
        BY <3>1, <3>2, Zenon
      <3>4. AsksOne(aad, c.asset, 0) /\ c.fee = 0
        BY <1>1, <2>3, <3>3, OneAsk DEF FeeCheck
      <3> HIDE DEF aad
      <3>5. QED
        BY <2>3, <3>4 DEF AsksOne
    <2>4. QED
      BY <2>1, <2>2, <2>3
  <1> HIDE DEF aad
  <1>4. Settled(aad, utxos, got)
    <2>1. Settled(aad, utxos, GetMinimumSpendable(utxos, aad, time, c.locktime, 1))
      BY <1>2, <1>1, <1>3, SelectionSettles
    <2>2. QED
      BY <1>2, <2>1, Zenon
  <1> HIDE DEF got
  <1>5. ASSUME NEW a
        PROVE  AmountIn(got.ins, a) = AmountIn(got.outs, a) + AmountIn(got.change, a)
                                          + (IF a = c.feeAsset THEN c.fee ELSE 0)
    <2>1. CASE a \in AssetsOf(aad)
      BY <1>3, <2>1, <1>4 DEF Settled
    <2>2. CASE a \notin AssetsOf(aad)
      BY <1>4, <2>2, <1>3, AmountInNat DEF Settled
    <2>3. QED
      BY <2>1, <2>2
  <1>6. QED
    BY <1>4, <1>5 DEF got, Pays, Settled

-----------------------------------------------------------------------------
\* Transactions.

(* A transaction for the call c spends UTXOs that the caller knows, imports what
   is exported to it, and leaves nothing over but what the call burns.  The
   export of the UTXOSet of the C-chain spends nothing. *)
Fits(c, utxos, atomics, t) ==
    /\ t \in Tx
    /\ \A k \in DOMAIN t.ins : Spends(t.ins[k], utxos)
    /\ \A k \in DOMAIN t.imports : Spends(t.imports[k], atomics)
    /\ c.kind \notin {"Import", "EvmImport"} => t.imports = <<>>
    /\ c.kind \notin {"Export", "EvmExport", "EvmUtxoExport"} => t.exported = <<>>
    /\ c.kind = "EvmUtxoExport" => t.ins = <<>> /\ t.ops = <<>> /\ t.debited = <<>>
    /\ c.kind # "EvmUtxoExport" => \A a \in Asset : InTotal(t, a) = OutTotal(t, a) + Burns(c, t, a)

Result(c, utxos, atomics, t) == t \in {Failed, Undefined} \/ Fits(c, utxos, atomics, t)

\* What is built fails for a reason, or has its form.
Outcome(t, form, reason) ==
    \/ t = Failed /\ reason
    \/ t = Undefined
    \/ t \notin {Failed, Undefined} /\ ~reason /\ t = form

\* What fits a call is neither of the results that are no transaction.
LEMMA FitsIsBuilt ==
    ASSUME NEW c, NEW utxos, NEW atomics, NEW t, Fits(c, utxos, atomics, t)
    PROVE  t \notin {Failed, Undefined}
  BY OutcomesAssumption DEF Fits

\* The transactions that send what is selected, with the change: to the chain, or to another.
SendingTx(got) == [NoTx EXCEPT !.ins = got.ins, !.outs = got.outs \o got.change]

ExportingTx(got) == [NoTx EXCEPT !.ins = got.ins, !.outs = got.change, !.exported = got.outs]

\* The transactions that make an asset for a fee
AssetTx(fee, states) == [NoTx EXCEPT !.ins = fee.ins, !.outs = fee.outs \o fee.change, !.states = states]

\* The empty transaction is a transaction.
LEMMA NoTxIs ==
    /\ NoTx \in Tx
    /\ NoTx = [ins |-> <<>>, imports |-> <<>>, outs |-> <<>>, exported |-> <<>>, states |-> <<>>, ops |-> <<>>,
               debited |-> <<>>, credited |-> <<>>, owners |-> <<>>]
  BY EmptySeq DEF NoTx, Tx

\* The transactions of the X-chain that move what is selected.
Moving(t, got, to, left) ==
    /\ t \in Tx
    /\ t.ins = got.ins /\ t.imports = <<>> /\ t.debited = <<>> /\ t.credited = <<>>
    /\ t.outs = left /\ t.exported = to
    /\ \A a : AmountIn(to, a) + AmountIn(left, a) = AmountIn(got.outs, a) + AmountIn(got.change, a)

\* A transaction that moves what is selected fits its call.
LEMMA MovingFits ==
    ASSUME NEW c \in Call, NEW utxos, NEW atomics, NEW got, Pays(c, utxos, got),
           NEW t, NEW to \in Seq(Output), NEW left \in Seq(Output), Moving(t, got, to, left),
           c.kind \notin {"Import", "EvmUtxoExport"},
           c.kind \notin {"Export", "EvmExport", "EvmUtxoExport"} => to = <<>>
    PROVE  Fits(c, utxos, atomics, t)
  BY AmountEmpty, AmountInNat DEF Pays, InTotal, Moving, OutTotal, Burns, Fits

\* buildBaseTx makes a transaction that fits its call, or fails.
LEMMA BaseFits ==
    ASSUME NEW c \in Call, c.kind = "Base", NEW utxos \in Seq(Utxo), NEW atomics, NEW time
    PROVE  /\ Result(c, utxos, atomics, BuildBaseTx(utxos, c, time))
           /\ Outcome(BuildBaseTx(utxos, c, time), SendingTx(SelectFor(utxos, c, time)),
                      c.toThreshold > Len(c.to) \/ SelectFor(utxos, c, time) = Failed)
  <1> DEFINE got == SelectFor(utxos, c, time)
             left == got.outs \o got.change
             t == [NoTx EXCEPT !.ins = got.ins, !.outs = left]
             reason == c.toThreshold > Len(c.to) \/ got = Failed
             built == BuildBaseTx(utxos, c, time)
  <1>1. (built = Failed /\ reason) \/ built = Undefined \/ (~reason /\ built = t)
    BY DEF BuildBaseTx
  <1>2. t = SendingTx(got)
    BY DEF SendingTx
  <1>3. ASSUME got # Failed PROVE Fits(c, utxos, atomics, t)
    <2>1. Pays(c, utxos, got)
      BY <1>3, SelectPays
    <2> HIDE DEF got
    <2>2. got.ins \in Seq(Input) /\ got.outs \in Seq(Output) /\ got.change \in Seq(Output)
      BY <2>1 DEF Pays
    <2>3. left \in Seq(Output) /\ \A a : AmountIn(left, a) = AmountIn(got.outs, a) + AmountIn(got.change, a)
      BY <2>2, ConcatProperties, OutputAmounts, AmountConcat
    <2> HIDE DEF left
    <2>4. t \in Tx /\ t.ins = got.ins /\ t.outs = left /\ t.imports = <<>> /\ t.exported = <<>>
          /\ t.debited = <<>> /\ t.credited = <<>>
      BY <2>2, <2>3, NoTxIs DEF Tx
    <2> HIDE DEF t
    <2>5. Moving(t, got, <<>>, left)
      BY <2>3, <2>4, AmountInNat, AmountEmpty DEF Moving
    <2>6. QED
      BY <2>1, <2>3, <2>5, MovingFits, EmptySeq
  <1>4. t \notin {Failed, Undefined} \/ reason
    BY <1>3, FitsIsBuilt
  <1> HIDE DEF t, built
  <1>5. QED
    BY <1>1, <1>3, <1>2, <1>4 DEF Result, Outcome, built

\* buildExportTx makes a transaction that fits its call, or fails.
LEMMA ExportFits ==
    ASSUME NEW c \in Call, c.kind = "Export", NEW utxos \in Seq(Utxo), NEW atomics, NEW time
    PROVE  /\ Result(c, utxos, atomics, BuildExportTx(utxos, c, time))
           /\ Outcome(BuildExportTx(utxos, c, time), ExportingTx(SelectFor(utxos, c, time)),
                      SelectFor(utxos, c, time) = Failed)
  <1> DEFINE got == SelectFor(utxos, c, time)
             t == [NoTx EXCEPT !.ins = got.ins, !.outs = got.change, !.exported = got.outs]
             reason == got = Failed
             built == BuildExportTx(utxos, c, time)
  <1>1. (built = Failed /\ reason) \/ built = Undefined \/ (~reason /\ built = t)
    BY DEF BuildExportTx
  <1>2. t = ExportingTx(got)
    BY DEF ExportingTx
  <1>3. ASSUME got # Failed PROVE Fits(c, utxos, atomics, t)
    <2>1. Pays(c, utxos, got)
      BY <1>3, SelectPays
    <2> HIDE DEF got
    <2>2. got.ins \in Seq(Input) /\ got.outs \in Seq(Output) /\ got.change \in Seq(Output)
      BY <2>1 DEF Pays
    <2>3. t \in Tx /\ t.ins = got.ins /\ t.outs = got.change /\ t.imports = <<>> /\ t.exported = got.outs
          /\ t.debited = <<>> /\ t.credited = <<>>
      BY <2>2, NoTxIs DEF Tx
    <2> HIDE DEF t
    <2>4. QED
      BY <2>1, <2>2, <2>3, MovingFits DEF Moving
  <1>4. t \notin {Failed, Undefined} \/ reason
    BY <1>3, FitsIsBuilt
  <1> HIDE DEF t, built
  <1>5. QED
    BY <1>1, <1>3, <1>2, <1>4 DEF Result, Outcome, built

\* The transactions that do something for a fee.
LEMMA FeeFits ==
    ASSUME NEW c \in Call, NEW utxos \in Seq(Utxo), NEW atomics, NEW time,
           c.kind \notin {"Import", "EvmUtxoExport"},
           NEW got, got = PayFee(utxos, c, time), got # Failed,
           NEW t, t.ins = got.ins, t.outs = got.outs \o got.change, t.exported = <<>>, t.imports = <<>>,
           t.debited = <<>>, t.credited = <<>>,
           got.ins \in Seq(Input) /\ got.outs \o got.change \in Seq(Output) => t \in Tx
    PROVE  Fits(c, utxos, atomics, t)
  <1> DEFINE left == got.outs \o got.change
  <1>1. Pays(c, utxos, got)
    BY FeePays
  <1>2. got.ins \in Seq(Input) /\ got.outs \in Seq(Output) /\ got.change \in Seq(Output)
    BY <1>1 DEF Pays
  <1>3. left \in Seq(Output) /\ \A a : AmountIn(left, a) = AmountIn(got.outs, a) + AmountIn(got.change, a)
    BY <1>2, ConcatProperties, OutputAmounts, AmountConcat
  <1>4. t.outs = left /\ t \in Tx
    BY <1>2, <1>3
  <1> HIDE DEF left
  <1>5. Moving(t, got, <<>>, left)
    BY <1>3, <1>4, AmountInNat, AmountEmpty DEF Moving
  <1>6. QED
    BY <1>1, <1>3, <1>5, MovingFits, EmptySeq

\* The mint outputs that a new asset has for each MinterSet.
MinterOuts(c, kind, locktime) ==
    [k \in DOMAIN c.minters |->
        NewOutput(kind, c.asset, 0, c.minters[k].addresses, locktime, c.minters[k].threshold)]

\* The mint outputs of a new asset hold no amount.
LEMMA MinterOutsType ==
    ASSUME NEW c \in Call, NEW kind \in {"mint", "nft", "nftMint"}, NEW locktime \in Nat
    PROVE  MinterOuts(c, kind, locktime) \in Seq(Output)
  <1> DEFINE outs == MinterOuts(c, kind, locktime)
             n == Len(c.minters)
             New(k) == NewOutput(kind, c.asset, 0, c.minters[k].addresses, locktime, c.minters[k].threshold)
  <1>1. c.minters \in Seq([addresses : Seq(Nat), threshold : Nat]) /\ c.asset \in Asset
    BY CallType DEF MinterSets
  <1>2. n \in Nat /\ DOMAIN c.minters = 1..n /\ \A k \in 1..n : c.minters[k] \in [addresses : Seq(Nat), threshold : Nat]
    BY <1>1, LenProperties
  <1> HIDE DEF n
  <1>3. ASSUME NEW k \in 1..n PROVE New(k) \in Output
    <2> DEFINE asset == c.asset
               addresses == c.minters[k].addresses
               threshold == c.minters[k].threshold
    <2>1. addresses \in Seq(Nat) /\ threshold \in Nat /\ asset \in Asset
      BY <1>1, <1>2
    <2>2. kind \in {"transfer", "mint", "nft", "nftMint"}
      OBVIOUS
    <2> HIDE DEF asset, addresses, threshold
    <2>3. NewOutput(kind, asset, 0, addresses, locktime, threshold) \in Output
      BY <2>1, <2>2, NewOutputType
    <2>4. QED
      BY <2>3 DEF asset, addresses, threshold
  <1>4. DOMAIN outs = 1..n /\ outs = [k \in 1..n |-> outs[k]] /\ \A k \in 1..n : outs[k] \in Output
    BY <1>2, <1>3 DEF MinterOuts
  <1> HIDE DEF outs
  <1>5. QED
    BY <1>2, <1>4, MapSeq DEF outs

\* InitialStates stay outputs when outputs are added.
LEMMA AddOutputsType ==
    ASSUME NEW c \in Call, NEW states \in Seq(Output)
    PROVE  AddOutputs(states, c) \in Seq(Output)
  BY MinterOutsType, ConcatProperties DEF AddOutputs, MinterOuts

\* buildCreateAssetTx makes a transaction that fits its call, or fails.
LEMMA CreateAssetFits ==
    ASSUME NEW c \in Call, c.kind = "CreateAsset", NEW utxos \in Seq(Utxo), NEW atomics, NEW time,
           NEW states \in Seq(Output)
    PROVE  /\ Result(c, utxos, atomics, BuildCreateAssetTx(utxos, states, c, time))
           /\ Outcome(BuildCreateAssetTx(utxos, states, c, time), AssetTx(PayFee(utxos, c, time), AddOutputs(states, c)),
                      PayFee(utxos, c, time) = Failed)
  <1> DEFINE got == PayFee(utxos, c, time)
             left == got.outs \o got.change
             added == AddOutputs(states, c)
             t == [NoTx EXCEPT !.ins = got.ins, !.outs = left, !.states = added]
             reason == got = Failed
             built == BuildCreateAssetTx(utxos, states, c, time)
  <1>1. (built = Failed /\ reason) \/ (~reason /\ built = t)
    BY DEF BuildCreateAssetTx
  <1>2. t = AssetTx(got, added)
    BY DEF AssetTx
  <1>3. ASSUME got # Failed PROVE Fits(c, utxos, atomics, t)
    <2>1. added \in Seq(Output)
      BY AddOutputsType
    <2> HIDE DEF added
    <2>2. /\ t.ins = got.ins /\ t.outs = left /\ t.exported = <<>> /\ t.imports = <<>>
          /\ t.debited = <<>> /\ t.credited = <<>>
          /\ got.ins \in Seq(Input) /\ left \in Seq(Output) => t \in Tx
      BY <2>1, NoTxIs DEF Tx
    <2> HIDE DEF t
    <2>3. QED
      BY <1>3, <2>2, FeeFits
  <1>4. t \notin {Failed, Undefined} \/ reason
    BY <1>3, FitsIsBuilt
  <1> HIDE DEF t, built
  <1>5. QED
    BY <1>1, <1>3, <1>2, <1>4 DEF Result, Outcome, built

\* buildCreateNFTAssetTx makes a transaction that fits its call, or fails.
LEMMA CreateNFTAssetFits ==
    ASSUME NEW c \in Call, c.kind = "CreateNFTAsset", NEW utxos \in Seq(Utxo), NEW atomics, NEW time
    PROVE  /\ Result(c, utxos, atomics, BuildCreateNFTAssetTx(utxos, c, time))
           /\ Outcome(BuildCreateNFTAssetTx(utxos, c, time), AssetTx(PayFee(utxos, c, time), MinterOuts(c, "nftMint", c.locktime)),
                      PayFee(utxos, c, time) = Failed)
  <1> DEFINE got == PayFee(utxos, c, time)
             left == got.outs \o got.change
             added == MinterOuts(c, "nftMint", c.locktime)
             t == [NoTx EXCEPT !.ins = got.ins, !.outs = left, !.states = added]
             reason == got = Failed
             built == BuildCreateNFTAssetTx(utxos, c, time)
  <1>1. (built = Failed /\ reason) \/ (~reason /\ built = t)
    BY DEF BuildCreateNFTAssetTx, MinterOuts
  <1>2. t = AssetTx(got, added)
    BY DEF AssetTx
  <1>3. ASSUME got # Failed PROVE Fits(c, utxos, atomics, t)
    <2>1. added \in Seq(Output)
      BY CallType, MinterOutsType
    <2> HIDE DEF added
    <2>2. /\ t.ins = got.ins /\ t.outs = left /\ t.exported = <<>> /\ t.imports = <<>>
          /\ t.debited = <<>> /\ t.credited = <<>>
          /\ got.ins \in Seq(Input) /\ left \in Seq(Output) => t \in Tx
      BY <2>1, NoTxIs DEF Tx
    <2> HIDE DEF t
    <2>3. QED
      BY <1>3, <2>2, FeeFits
  <1>4. t \notin {Failed, Undefined} \/ reason
    BY <1>3, FitsIsBuilt
  <1> HIDE DEF t, built
  <1>5. QED
    BY <1>1, <1>3, <1>2, <1>4 DEF Result, Outcome, built

\* Operations are paid for like that.
LEMMA OperationFits ==
    ASSUME NEW c \in Call, c.kind \in {"SECPMint", "CreateNFTMint", "NFTTransfer"}, NEW utxos \in Seq(Utxo),
           NEW atomics, NEW time, PayFee(utxos, c, time) # Failed, NEW ops \in Seq(Operation)
    PROVE  Fits(c, utxos, atomics, OperationTx(PayFee(utxos, c, time), ops))
  <1> DEFINE got == PayFee(utxos, c, time)
             left == got.outs \o got.change
             t == OperationTx(got, ops)
  <1>1. /\ t.ins = got.ins /\ t.outs = left /\ t.exported = <<>> /\ t.imports = <<>>
        /\ t.debited = <<>> /\ t.credited = <<>>
        /\ got.ins \in Seq(Input) /\ left \in Seq(Output) => t \in Tx
    BY NoTxIs DEF Tx, OperationTx
  <1>2. c.kind \notin {"Import", "EvmUtxoExport"}
    OBVIOUS
  <1> HIDE DEF t
  <1>3. QED
    BY <1>1, <1>2, FeeFits DEF t

\* A UTXO that is there is found.
LEMMA Found ==
    ASSUME NEW utxos \in Seq(Utxo), NEW id, Has(utxos, id)
    PROVE  UtxoOf(utxos, id) \in ToSet(utxos) /\ UtxoOf(utxos, id).id = id /\ UtxoOf(utxos, id) \in Utxo
  BY LenProperties DEF Has, UtxoOf, ToSet

\* An operation on one UTXO.
LEMMA OperationType ==
    ASSUME NEW utxo \in Utxo, NEW ids \in Seq(Nat), NEW sigs \in Seq(Sig), NEW outs \in Seq(Output)
    PROVE  NewOperation(utxo, ids, sigs, outs) \in Operation
  BY OutputAmounts DEF Utxo, NewOperation, Operation

\* The operations of the calls that operate on UTXOs
SECPMintOps(utxos, c, time) ==
    LET utxo == UtxoOf(utxos, c.ids[1])
    IN <<NewOperation(utxo, <<c.ids[1]>>, GetSpenders(utxo.out, c.from, time),
                      <<NewOutput("mint", utxo.out.asset, 0, c.change, 0, 1),
                        NewOutput("transfer", utxo.out.asset, c.amount, c.to, c.locktime, c.toThreshold)>>)>>

NftOut(c, utxo) == <<NewOutput("nft", utxo.out.asset, 0, c.to, c.locktime, c.toThreshold)>>

AllSpenders(utxos, c, time) ==
    FlattenSeq([k \in DOMAIN c.ids |-> GetSpenders(UtxoOf(utxos, c.ids[k]).out, c.from, time)])

NFTMintOps(utxos, c, time) ==
    [k \in DOMAIN c.ids |->
        NewOperation(UtxoOf(utxos, c.ids[k]), c.ids, AllSpenders(utxos, c, time), NftOut(c, UtxoOf(utxos, c.ids[k])))]

NFTTransferOps(utxos, c, time) ==
    [k \in DOMAIN c.ids |->
        NewOperation(UtxoOf(utxos, c.ids[k]), <<c.ids[k]>>,
                     GetSpenders(UtxoOf(utxos, c.ids[k]).out, c.from, time), NftOut(c, UtxoOf(utxos, c.ids[k])))]

\* buildSECPMintTx makes a transaction that fits its call, or fails.
LEMMA SECPMintFits ==
    ASSUME NEW c \in Call, c.kind = "SECPMint", NEW utxos \in Seq(Utxo), NEW atomics, NEW time
    PROVE  /\ Result(c, utxos, atomics, BuildSECPMintTx(utxos, c, time))
           /\ Outcome(BuildSECPMintTx(utxos, c, time), OperationTx(PayFee(utxos, c, time), SECPMintOps(utxos, c, time)),
                      \/ PayFee(utxos, c, time) = Failed \/ ~Has(utxos, c.ids[1])
                      \/ UtxoOf(utxos, c.ids[1]).out.kind # "mint")
  <1> DEFINE fee == PayFee(utxos, c, time)
             id == c.ids[1]
             utxo == UtxoOf(utxos, id)
             mintOwner == NewOutput("mint", utxo.out.asset, 0, c.change, 0, 1)
             transferOwner == NewOutput("transfer", utxo.out.asset, c.amount, c.to, c.locktime, c.toThreshold)
             sigs == GetSpenders(utxo.out, c.from, time)
             op == NewOperation(utxo, <<id>>, sigs, <<mintOwner, transferOwner>>)
             ops == <<op>>
             t == BuildSECPMintTx(utxos, c, time)
             reason == fee = Failed \/ ~Has(utxos, id) \/ utxo.out.kind # "mint"
  <1>1. (t = Failed /\ reason) \/ (~reason /\ t = OperationTx(fee, ops))
    BY DEF BuildSECPMintTx
  <1>2. ASSUME fee # Failed, Has(utxos, id) PROVE Fits(c, utxos, atomics, OperationTx(fee, ops))
    <2>1. utxo \in Utxo /\ utxo.id = id
      BY <1>2, Found
    <2> HIDE DEF utxo
    <2>2. utxo.out \in Output /\ utxo.out.asset \in Asset /\ id \in Nat
      BY <2>1, OutputAmounts DEF Utxo
    <2>3. /\ c.change \in Seq(Nat) /\ c.to \in Seq(Nat) /\ c.from \in Seq(Nat)
          /\ c.amount \in Nat /\ c.locktime \in Nat /\ c.toThreshold \in Nat
      BY CallType
    <2>4. mintOwner \in Output /\ transferOwner \in Output
      BY <2>2, <2>3, NewOutputType
    <2>5. sigs \in Seq(Sig)
      BY <2>2, <2>3, SpendersType
    <2> HIDE DEF mintOwner, transferOwner, sigs, id
    <2>6. <<id>> \in Seq(Nat) /\ <<mintOwner, transferOwner>> \in Seq(Output)
      BY <2>2, <2>4
    <2>7. op \in Operation
      BY <2>1, <2>5, <2>6, OperationType
    <2> HIDE DEF op
    <2>8. ops \in Seq(Operation)
      BY <2>7
    <2> HIDE DEF ops
    <2>9. QED
      BY <1>2, <2>8, OperationFits
  <1>3. OperationTx(fee, ops) \notin {Failed, Undefined} \/ reason
    BY <1>2, FitsIsBuilt
  <1> DEFINE good == OperationTx(fee, ops)
  <1> HIDE DEF good, t
  <1>4. (t = Failed /\ reason) \/ (~reason /\ t = good)
    BY <1>1 DEF good
  <1>5. ~reason => good \notin {Failed, Undefined} /\ Fits(c, utxos, atomics, good)
    BY <1>2, <1>3 DEF good
  <1>6. good = OperationTx(fee, SECPMintOps(utxos, c, time))
    BY DEF good, SECPMintOps
  <1> HIDE DEF reason
  <1>7. QED
    BY <1>4, <1>5, <1>6 DEF Result, Outcome, t, reason

\* The output an operation on an NFT makes.
LEMMA NftOutType ==
    ASSUME NEW c \in Call, NEW utxo \in Utxo
    PROVE  <<NewOutput("nft", utxo.out.asset, 0, c.to, c.locktime, c.toThreshold)>> \in Seq(Output)
  <1>1. utxo.out.asset \in Asset
    BY OutputAmounts DEF Utxo
  <1>2. c.to \in Seq(Nat) /\ c.locktime \in Nat /\ c.toThreshold \in Nat
    BY CallType
  <1>3. NewOutput("nft", utxo.out.asset, 0, c.to, c.locktime, c.toThreshold) \in Output
    BY <1>1, <1>2, NewOutputType
  <1>4. QED
    BY <1>3

\* buildCreateNFTMintTx makes a transaction that fits its call, or fails.
LEMMA CreateNFTMintFits ==
    ASSUME NEW c \in Call, c.kind = "CreateNFTMint", NEW utxos \in Seq(Utxo), NEW atomics, NEW time
    PROVE  /\ Result(c, utxos, atomics, BuildCreateNFTMintTx(utxos, c, time))
           /\ Outcome(BuildCreateNFTMintTx(utxos, c, time), OperationTx(PayFee(utxos, c, time), NFTMintOps(utxos, c, time)),
                      PayFee(utxos, c, time) = Failed \/ \E k \in DOMAIN c.ids : ~Has(utxos, c.ids[k]))
  <1> DEFINE fee == PayFee(utxos, c, time)
             n == Len(c.ids)
             At(k) == UtxoOf(utxos, c.ids[k])
             parts == [k \in DOMAIN c.ids |-> GetSpenders(At(k).out, c.from, time)]
             sigs == FlattenSeq(parts)
             Out(k) == <<NewOutput("nft", At(k).out.asset, 0, c.to, c.locktime, c.toThreshold)>>
             ops == [k \in DOMAIN c.ids |-> NewOperation(At(k), c.ids, sigs, Out(k))]
             t == BuildCreateNFTMintTx(utxos, c, time)
             reason == fee = Failed \/ \E k \in DOMAIN c.ids : ~Has(utxos, c.ids[k])
  <1>1. (t = Failed /\ reason) \/ (~reason /\ t = OperationTx(fee, ops))
    BY DEF BuildCreateNFTMintTx
  <1>2. ASSUME fee # Failed, \A k \in DOMAIN c.ids : Has(utxos, c.ids[k])
        PROVE  Fits(c, utxos, atomics, OperationTx(fee, ops))
    <2>1. c.ids \in Seq(Nat) /\ c.from \in Seq(Nat)
      BY CallType
    <2>2. n \in Nat /\ DOMAIN c.ids = 1..n
      BY <2>1, LenProperties
    <2>3. \A k \in 1..n : At(k) \in Utxo
      BY <1>2, <2>2, Found
    <2> HIDE DEF At, n
    <2>4. DOMAIN parts = 1..n /\ parts = [k \in 1..n |-> parts[k]] /\ \A k \in 1..n : parts[k] \in Seq(Sig)
      BY <2>2, <2>1, <2>3, SpendersType DEF Utxo
    <2> HIDE DEF parts
    <2>5. sigs \in Seq(Sig)
      BY <2>2, <2>4, FlatType, MapSeq
    <2>6. \A k \in 1..n : Out(k) \in Seq(Output)
      BY <2>3, NftOutType
    <2> HIDE DEF sigs, Out
    <2>7. DOMAIN ops = 1..n /\ ops = [k \in 1..n |-> ops[k]] /\ \A k \in 1..n : ops[k] \in Operation
      BY <2>2, <2>1, <2>3, <2>5, <2>6, OperationType
    <2> HIDE DEF ops
    <2>8. QED
      BY <1>2, <2>2, <2>7, OperationFits, MapSeq
  <1>3. OperationTx(fee, ops) \notin {Failed, Undefined} \/ reason
    BY <1>2, FitsIsBuilt
  <1> DEFINE good == OperationTx(fee, ops)
  <1> HIDE DEF good, t
  <1>4. (t = Failed /\ reason) \/ (~reason /\ t = good)
    BY <1>1 DEF good
  <1>5. ~reason => good \notin {Failed, Undefined} /\ Fits(c, utxos, atomics, good)
    BY <1>2, <1>3 DEF good
  <1>6. good = OperationTx(fee, NFTMintOps(utxos, c, time))
    BY DEF good, NFTMintOps, AllSpenders, NftOut
  <1> HIDE DEF reason
  <1>7. QED
    BY <1>4, <1>5, <1>6 DEF Result, Outcome, t, reason

\* buildNFTTransferTx makes a transaction that fits its call, or fails.
LEMMA NFTTransferFits ==
    ASSUME NEW c \in Call, c.kind = "NFTTransfer", NEW utxos \in Seq(Utxo), NEW atomics, NEW time
    PROVE  /\ Result(c, utxos, atomics, BuildNFTTransferTx(utxos, c, time))
           /\ Outcome(BuildNFTTransferTx(utxos, c, time), OperationTx(PayFee(utxos, c, time), NFTTransferOps(utxos, c, time)),
                      PayFee(utxos, c, time) = Failed \/ \E k \in DOMAIN c.ids : ~Has(utxos, c.ids[k]))
  <1> DEFINE fee == PayFee(utxos, c, time)
             n == Len(c.ids)
             At(k) == UtxoOf(utxos, c.ids[k])
             Sigs(k) == GetSpenders(At(k).out, c.from, time)
             Out(k) == <<NewOutput("nft", At(k).out.asset, 0, c.to, c.locktime, c.toThreshold)>>
             ops == [k \in DOMAIN c.ids |-> NewOperation(At(k), <<c.ids[k]>>, Sigs(k), Out(k))]
             t == BuildNFTTransferTx(utxos, c, time)
             reason == fee = Failed \/ \E k \in DOMAIN c.ids : ~Has(utxos, c.ids[k])
  <1>1. (t = Failed /\ reason) \/ (~reason /\ t = OperationTx(fee, ops))
    BY DEF BuildNFTTransferTx
  <1>2. ASSUME fee # Failed, \A k \in DOMAIN c.ids : Has(utxos, c.ids[k])
        PROVE  Fits(c, utxos, atomics, OperationTx(fee, ops))
    <2>1. c.ids \in Seq(Nat) /\ c.from \in Seq(Nat)
      BY CallType
    <2>2. n \in Nat /\ DOMAIN c.ids = 1..n /\ \A k \in 1..n : c.ids[k] \in Nat
      BY <2>1, LenProperties
    <2>3. \A k \in 1..n : At(k) \in Utxo
      BY <1>2, <2>2, Found
    <2> HIDE DEF At, n
    <2>4. \A k \in 1..n : Sigs(k) \in Seq(Sig)
      BY <2>1, <2>3, SpendersType DEF Utxo
    <2>5. \A k \in 1..n : Out(k) \in Seq(Output)
      BY <2>3, NftOutType
    <2>6. \A k \in 1..n : <<c.ids[k]>> \in Seq(Nat)
      BY <2>2
    <2> HIDE DEF Sigs, Out
    <2>7. DOMAIN ops = 1..n /\ ops = [k \in 1..n |-> ops[k]] /\ \A k \in 1..n : ops[k] \in Operation
      BY <2>2, <2>3, <2>4, <2>5, <2>6, OperationType
    <2> HIDE DEF ops
    <2>8. QED
      BY <1>2, <2>2, <2>7, OperationFits, MapSeq
  <1>3. OperationTx(fee, ops) \notin {Failed, Undefined} \/ reason
    BY <1>2, FitsIsBuilt
  <1> DEFINE good == OperationTx(fee, ops)
  <1> HIDE DEF good, t
  <1>4. (t = Failed /\ reason) \/ (~reason /\ t = good)
    BY <1>1 DEF good
  <1>5. ~reason => good \notin {Failed, Undefined} /\ Fits(c, utxos, atomics, good)
    BY <1>2, <1>3 DEF good
  <1>6. good = OperationTx(fee, NFTTransferOps(utxos, c, time))
    BY DEF good, NFTTransferOps, NftOut
  <1> HIDE DEF reason
  <1>7. QED
    BY <1>4, <1>5, <1>6 DEF Result, Outcome, t, reason

\* The order of the UTXOs does not matter.
LEMMA ArrangedIs ==
    ASSUME NEW utxos \in Seq(Utxo), NEW c
    PROVE  /\ Arranged(utxos, c) \in Seq(Utxo) /\ ToSet(Arranged(utxos, c)) = ToSet(utxos)
           /\ Unique(utxos) => Unique(Arranged(utxos, c))
  <1> DEFINE n == Len(utxos)
             r == [i \in 1..n |-> utxos[(n - i) + 1]]
  <1>1. n \in Nat /\ DOMAIN utxos = 1..n /\ \A k \in 1..n : utxos[k] \in Utxo
    BY LenProperties
  <1>2. Reverse(utxos) = r
    BY DEF Reverse
  <1> HIDE DEF n
  <1>3. \A i \in 1..n : (n - i) + 1 \in 1..n /\ (n - ((n - i) + 1)) + 1 = i
    BY <1>1
  <1>4. DOMAIN r = 1..n /\ r = [i \in 1..n |-> r[i]] /\ \A i \in 1..n : r[i] = utxos[(n - i) + 1]
    OBVIOUS
  <1> HIDE DEF r
  <1>5. r \in Seq(Utxo)
    BY <1>1, <1>3, <1>4, MapSeq
  <1>6. ToSet(r) = ToSet(utxos)
    <2>1. \A i \in 1..n : r[(n - i) + 1] = utxos[i]
      BY <1>3, <1>4
    <2>2. \A i \in 1..n : (\E j \in 1..n : r[i] = utxos[j]) /\ (\E j \in 1..n : utxos[i] = r[j])
      BY <1>3, <1>4, <2>1
    <2>3. ToSet(r) = {r[i] : i \in 1..n} /\ ToSet(utxos) = {utxos[i] : i \in 1..n}
      BY <1>1, <1>4 DEF ToSet
    <2>4. QED
      BY <2>2, <2>3
  <1>7. ASSUME Unique(utxos) PROVE Unique(r)
    <2>1. SUFFICES ASSUME NEW i \in 1..n, NEW j \in 1..n, r[i].id = r[j].id PROVE i = j
      BY <1>4 DEF Unique
    <2>2. r[i] = utxos[(n - i) + 1] /\ r[j] = utxos[(n - j) + 1]
      BY <1>4
    <2>3. (n - i) + 1 \in DOMAIN utxos /\ (n - j) + 1 \in DOMAIN utxos
      BY <1>1, <1>3
    <2>4. (n - i) + 1 = (n - j) + 1
      BY <1>7, <2>1, <2>2, <2>3 DEF Unique
    <2>5. QED
      BY <1>1, <2>4
  <1>8. CASE c.newest
    BY <1>2, <1>5, <1>6, <1>7, <1>8 DEF Arranged
  <1>9. CASE ~c.newest
    BY <1>9 DEF Arranged
  <1>10. QED
    BY <1>8, <1>9

\* What fits an order of the UTXOs fits another.
LEMMA FitsAnyOrder ==
    ASSUME NEW c, NEW t, NEW utxos, NEW others, NEW atomics, NEW fetched,
           ToSet(utxos) = ToSet(others), ToSet(atomics) = ToSet(fetched), Result(c, utxos, atomics, t)
    PROVE  Result(c, others, fetched, t)
  BY DEF Result, Fits, Spends

-----------------------------------------------------------------------------
\* Imports.

\* What the first k UTXOs hold of the fee's asset.
Seen(c, atomics, k) == AmountIn([i \in 1..k |-> atomics[i].out], c.feeAsset)

\* One more UTXO adds what it holds of the asset of the fee.
LEMMA SeenIs ==
    ASSUME NEW c \in Call, NEW atomics \in Seq(Utxo)
    PROVE  /\ Seen(c, atomics, 0) = 0
           /\ \A k \in 0..Len(atomics) : Seen(c, atomics, k) \in Nat
           /\ \A k \in 1..Len(atomics) : Seen(c, atomics, k) = Seen(c, atomics, k - 1) + Held(atomics, c.feeAsset)[k]
           /\ Seen(c, atomics, Len(atomics)) = AmountOf(atomics, c.feeAsset)
  <1> DEFINE n == Len(atomics)
             a == c.feeAsset
             P(k) == [i \in 1..k |-> atomics[i].out]
  <1>1. n \in Nat /\ DOMAIN atomics = 1..n /\ \A k \in 1..n : atomics[k] \in Utxo
    BY LenProperties
  <1>2. \A k \in 1..n : atomics[k].out \in Output
    BY <1>1 DEF Utxo
  <1> HIDE DEF n
  <1>3. ASSUME NEW k \in 0..n PROVE P(k) \in Seq(Output) /\ Len(P(k)) = k
    <2> DEFINE p == P(k)
    <2>1. k \in Nat /\ DOMAIN p = 1..k /\ p = [i \in 1..k |-> p[i]] /\ \A i \in 1..k : p[i] \in Output
      BY <1>1, <1>2
    <2> HIDE DEF p
    <2>2. QED
      BY <2>1, MapSeq DEF p
  <1>4. Seen(c, atomics, 0) = 0
    BY <1>1, <1>3, AmountEmpty DEF Seen
  <1>5. ASSUME NEW k \in 1..n PROVE Seen(c, atomics, k) = Seen(c, atomics, k - 1) + Held(atomics, a)[k]
    <2> DEFINE p == P(k - 1)
               q == P(k)
               e == atomics[k].out
    <2>1. k - 1 \in 0..n /\ k \in 0..n /\ k \in Nat /\ k - 1 \in Nat
      BY <1>1
    <2>2. p \in Seq(Output) /\ q \in Seq(Output) /\ e \in Output /\ Len(p) = k - 1 /\ Len(q) = k
      BY <1>2, <1>3, <2>1
    <2>3. \A i \in 1..k : q[i] = IF i = k THEN e ELSE p[i]
      BY <2>1
    <2>4. Seen(c, atomics, k) = AmountIn(q, a) /\ Seen(c, atomics, k - 1) = AmountIn(p, a)
      BY DEF Seen
    <2> HIDE DEF p, q, e
    <2>5. q = Append(p, e)
      BY <2>1, <2>2, <2>3, AppendProperties, SeqEqual
    <2>6. AmountIn(q, a) = AmountIn(p, a) + (IF e.asset = a THEN e.amount ELSE 0)
      BY <2>2, <2>5, OutputAmounts, AmountAppend
    <2>7. QED
      BY <2>4, <2>6, <1>1 DEF Held, e
  <1>6. Seen(c, atomics, n) = AmountOf(atomics, a)
    BY <1>1 DEF Seen, AmountOf
  <1>7. QED
    BY <1>4, <1>5, <1>6, <1>3, AmountInNat DEF n, Seen

\* What is kept of the k-th UTXO, of an asset.
Kept(c, atomics, a) ==
    [k \in DOMAIN atomics |-> IF atomics[k].out.asset = a THEN InFeeAmount(c, atomics, k) ELSE 0]

\* The fee that the first UTXOs have paid is never more than what they hold.
LEMMA FeePaidIs ==
    ASSUME NEW c \in Call, NEW atomics \in Seq(Utxo)
    PROVE  /\ FeePaid(c, atomics, 0) = 0
           /\ \A k \in 0..Len(atomics) : FeePaid(c, atomics, k) \in Nat
           /\ \A k \in 1..Len(atomics) :
                  /\ FeePaid(c, atomics, k) - FeePaid(c, atomics, k - 1) \in 0..Held(atomics, c.feeAsset)[k]
                  /\ InFeeAmount(c, atomics, k) \in Nat
                  /\ atomics[k].out.asset # c.feeAsset => InFeeAmount(c, atomics, k) = atomics[k].out.amount
           /\ FeePaid(c, atomics, Len(atomics))
                  = IF AmountOf(atomics, c.feeAsset) > c.fee THEN c.fee ELSE AmountOf(atomics, c.feeAsset)
  <1> DEFINE n == Len(atomics)
             a == c.feeAsset
  <1>1. n \in Nat /\ DOMAIN atomics = 1..n /\ \A k \in 1..n : atomics[k] \in Utxo /\ Held(atomics, a)[k] \in Nat
    BY HeldIs
  <1>2. /\ Seen(c, atomics, 0) = 0
        /\ \A k \in 0..n : Seen(c, atomics, k) \in Nat
        /\ \A k \in 1..n : Seen(c, atomics, k) = Seen(c, atomics, k - 1) + Held(atomics, a)[k]
        /\ Seen(c, atomics, n) = AmountOf(atomics, a)
    BY SeenIs
  <1> HIDE DEF n
  <1>3. c.fee \in Nat
    BY CallType
  <1>4. \A k : FeePaid(c, atomics, k) = IF Seen(c, atomics, k) > c.fee THEN c.fee ELSE Seen(c, atomics, k)
    BY DEF FeePaid, Seen
  <1>5. ASSUME NEW k \in 1..n
        PROVE  /\ FeePaid(c, atomics, k) - FeePaid(c, atomics, k - 1) \in 0..Held(atomics, a)[k]
               /\ InFeeAmount(c, atomics, k) \in Nat
               /\ atomics[k].out.asset # a => InFeeAmount(c, atomics, k) = atomics[k].out.amount
    <2> DEFINE d == FeePaid(c, atomics, k) - FeePaid(c, atomics, k - 1)
    <2>1. k \in 0..n /\ k - 1 \in 0..n
      BY <1>1
    <2>2. d \in 0..Held(atomics, a)[k]
      <3> DEFINE held == Held(atomics, a)[k]
                 p == Seen(c, atomics, k - 1)
                 q == Seen(c, atomics, k)
      <3>1. held \in Nat /\ p \in Nat /\ q \in Nat /\ q = p + held
        BY <1>1, <1>2, <2>1
      <3>2. d = (IF q > c.fee THEN c.fee ELSE q) - (IF p > c.fee THEN c.fee ELSE p)
        BY <1>4
      <3> HIDE DEF d, held, p, q
      <3>3. QED
        BY <1>3, <3>1, <3>2 DEF held
    <2>3. Held(atomics, a)[k] = IF atomics[k].out.asset = a THEN atomics[k].out.amount ELSE 0
      BY <1>1 DEF Held
    <2>4. atomics[k].out.amount \in Nat
      BY <1>1, OutputAmounts DEF Utxo
    <2>5. InFeeAmount(c, atomics, k) = atomics[k].out.amount - d
      BY DEF InFeeAmount
    <2> HIDE DEF d
    <2>6. InFeeAmount(c, atomics, k) \in Nat
          /\ (atomics[k].out.asset # a => InFeeAmount(c, atomics, k) = atomics[k].out.amount)
      <3> DEFINE held == Held(atomics, a)[k]
                 amount == atomics[k].out.amount
      <3>1. d \in 0..held /\ amount \in Nat /\ InFeeAmount(c, atomics, k) = amount - d
        BY <2>2, <2>4, <2>5
      <3>2. (atomics[k].out.asset = a /\ held = amount) \/ (atomics[k].out.asset # a /\ held = 0)
        BY <2>3
      <3> HIDE DEF held
      <3>3. QED
        BY <3>1, <3>2
    <2>7. QED
      BY <2>2, <2>6 DEF d
  <1>6. FeePaid(c, atomics, n) = IF AmountOf(atomics, a) > c.fee THEN c.fee ELSE AmountOf(atomics, a)
    BY <1>2, <1>4
  <1>7. QED
    BY <1>5, <1>6, <1>2, <1>3, <1>4 DEF n

\* All but the fee is kept.
LEMMA KeptAll ==
    ASSUME NEW c \in Call, NEW atomics \in Seq(Utxo), NEW a
    PROVE  /\ SumFunctionOnSet(Kept(c, atomics, a), 1..Len(atomics))
                  = AmountOf(atomics, a) - (IF a = c.feeAsset THEN FeePaid(c, atomics, Len(atomics)) ELSE 0)
           /\ \A k \in 1..Len(atomics) : Kept(c, atomics, a)[k] \in Nat
  <1> DEFINE n == Len(atomics)
             f == [k \in 0..n |-> FeePaid(c, atomics, k)]
             d == [k \in 1..n |-> f[k] - f[k - 1]]
             kept == Kept(c, atomics, a)
             held == Held(atomics, a)
             total == AmountOf(atomics, a)
  <1>1. /\ n \in Nat /\ DOMAIN atomics = 1..n /\ IsFiniteSet(1..n)
        /\ \A k \in 1..n : held[k] \in Nat
        /\ total = SumFunctionOnSet(held, 1..n) /\ total \in Nat
    BY HeldIs
  <1>2. \A k \in 1..n : atomics[k].out.amount \in Nat
    BY HeldIs, OutputAmounts DEF Utxo
  <1>3. /\ FeePaid(c, atomics, 0) = 0
        /\ \A k \in 0..n : FeePaid(c, atomics, k) \in Nat
        /\ \A k \in 1..n : InFeeAmount(c, atomics, k) \in Nat
        /\ \A k \in 1..n : atomics[k].out.asset # c.feeAsset => InFeeAmount(c, atomics, k) = atomics[k].out.amount
    BY FeePaidIs
  <1> HIDE DEF n
  <1>4. \A k \in 1..n : k \in 0..n /\ k - 1 \in 0..n
    BY <1>1
  <1>5. (\A k \in 0..n : f[k] = FeePaid(c, atomics, k) /\ f[k] \in Int) /\ f[0] = 0 /\ f[n] = FeePaid(c, atomics, n)
    BY <1>1, <1>3
  <1>6. \A k \in 1..n : d[k] = f[k] - f[k - 1] /\ d[k] \in Int /\ InFeeAmount(c, atomics, k) = atomics[k].out.amount - d[k]
    BY <1>4, <1>5 DEF InFeeAmount
  <1>7. /\ \A k \in 1..n : kept[k] = IF atomics[k].out.asset = a THEN InFeeAmount(c, atomics, k) ELSE 0
        /\ \A k \in 1..n : held[k] = IF atomics[k].out.asset = a THEN atomics[k].out.amount ELSE 0
    BY <1>1 DEF Kept, Held
  <1> HIDE DEF f, d, kept, held, total
  <1>8. \A k \in 1..n : kept[k] \in Nat
    BY <1>3, <1>7
  <1>9. CASE a # c.feeAsset
    <2>1. \A k \in 1..n : kept[k] = held[k]
      BY <1>3, <1>7, <1>9
    <2>2. SumFunctionOnSet(kept, 1..n) = total
      BY <1>1, <2>1, SumSame
    <2>3. QED
      BY <1>1, <1>8, <1>9, <2>2 DEF kept, total, n
  <1>10. CASE a = c.feeAsset
    <2>1. \A k \in 1..n : kept[k] \in Int /\ d[k] \in Int /\ held[k] = kept[k] + d[k]
      <3> SUFFICES ASSUME NEW k \in 1..n PROVE kept[k] \in Int /\ d[k] \in Int /\ held[k] = kept[k] + d[k]
        OBVIOUS
      <3>1. kept[k] \in Int /\ d[k] \in Int
        BY <1>6, <1>8
      <3>2. CASE atomics[k].out.asset = a
        BY <1>2, <1>6, <1>7, <3>1, <3>2
      <3>3. CASE atomics[k].out.asset # a
        <4>1. kept[k] = 0 /\ held[k] = 0
          BY <1>7, <3>3
        <4>2. d[k] = 0
          BY <1>2, <1>3, <1>6, <1>10, <3>1, <3>3
        <4>3. QED
          BY <3>1, <4>1, <4>2
      <3>4. QED
        BY <3>2, <3>3
    <2>2. SumFunctionOnSet(held, 1..n) = SumFunctionOnSet(kept, 1..n) + SumFunctionOnSet(d, 1..n)
      BY <1>1, <2>1, SumPlus
    <2>3. SumFunctionOnSet(d, 1..n) = f[n] - f[0]
      BY <1>1, <1>5, <1>6, SumOfSteps
    <2>4. SumFunctionOnSet(kept, 1..n) \in Int
      BY <1>1, <2>1, SumInt
    <2>5. SumFunctionOnSet(kept, 1..n) = total - FeePaid(c, atomics, n)
      <3>1. f[n] \in Int
        BY <1>1, <1>5
      <3>2. QED
        BY <1>1, <1>5, <2>2, <2>3, <2>4, <3>1
    <2>6. QED
      BY <1>8, <1>10, <2>5 DEF kept, total, n
  <1>11. QED
    BY <1>9, <1>10

\* The inputs that import UTXOs.
ImportInputs(atomics, time) == [k \in DOMAIN atomics |-> ImportInput(atomics[k], time)]

\* The inputs of an import are the exported UTXOs, with their amounts.
LEMMA ImportInputsAre ==
    ASSUME NEW atomics \in Seq(Utxo), NEW time
    PROVE  /\ ImportInputs(atomics, time) \in Seq(Input)
           /\ \A k \in DOMAIN ImportInputs(atomics, time) : Spends(ImportInputs(atomics, time)[k], atomics)
           /\ \A a : AmountIn(ImportInputs(atomics, time), a) = AmountOf(atomics, a)
           /\ Unique(atomics) => Unique(ImportInputs(atomics, time))
  <1> DEFINE n == Len(atomics)
             ins == ImportInputs(atomics, time)
  <1>1. n \in Nat /\ DOMAIN atomics = 1..n /\ \A k \in 1..n : atomics[k] \in Utxo
    BY LenProperties
  <1> HIDE DEF n
  <1>2. ASSUME NEW k \in 1..n
        PROVE  /\ ins[k] \in Input
               /\ ins[k].id = atomics[k].id /\ ins[k].asset = atomics[k].out.asset /\ ins[k].amount = atomics[k].out.amount
    <2> DEFINE u == atomics[k]
               addresses == u.out.addresses
    <2>1. u \in Utxo
      BY <1>1
    <2>2. addresses \in Seq(Nat)
      BY <2>1 DEF Utxo, Output
    <2>3. ins[k] = NewInput(u, addresses, time)
      BY <1>1 DEF ImportInputs, ImportInput
    <2> HIDE DEF addresses, ins
    <2>4. QED
      BY <2>1, <2>2, <2>3, NewInputType
  <1>3. DOMAIN ins = 1..n /\ ins = [k \in 1..n |-> ins[k]]
    BY <1>1 DEF ImportInputs
  <1> HIDE DEF ins
  <1>4. ins \in Seq(Input) /\ Len(ins) = n
    BY <1>1, <1>2, <1>3, MapSeq
  <1>5. ASSUME NEW k \in 1..n PROVE Spends(ins[k], atomics)
    BY <1>1, <1>2 DEF ToSet, Spends
  <1>6. ASSUME NEW a PROVE AmountIn(ins, a) = AmountOf(atomics, a)
    <2>1. SumFunctionOnSet(Share(ins, a), 1..n) = SumFunctionOnSet(Held(atomics, a), 1..n)
      BY <1>1, <1>2, <1>3, SumSame DEF Share, Held
    <2>2. QED
      BY <2>1, <1>4, InputAmounts, AmountShare, HeldIs DEF n
  <1>7. Unique(atomics) => Unique(ins)
    BY <1>1, <1>2, <1>3 DEF Unique
  <1>8. QED
    BY <1>3, <1>4, <1>5, <1>6, <1>7 DEF ins

\* The outputs for what is kept.
ImportedOuts(c, atomics) ==
    FlattenSeq([k \in DOMAIN atomics |->
        IF InFeeAmount(c, atomics, k) > 0 THEN <<ImportedOut(c, atomics, k)>> ELSE <<>>])

\* The outputs of an import amount to what is kept.
LEMMA ImportedOutsAre ==
    ASSUME NEW c \in Call, NEW atomics \in Seq(Utxo)
    PROVE  /\ ImportedOuts(c, atomics) \in Seq(Output)
           /\ \A a : AmountIn(ImportedOuts(c, atomics), a) = SumFunctionOnSet(Kept(c, atomics, a), 1..Len(atomics))
  <1> DEFINE n == Len(atomics)
             Amount(k) == InFeeAmount(c, atomics, k)
             New(k) == ImportedOut(c, atomics, k)
             ss == [k \in DOMAIN atomics |-> IF Amount(k) > 0 THEN <<New(k)>> ELSE <<>>]
  <1>1. n \in Nat /\ DOMAIN atomics = 1..n /\ \A k \in 1..n : atomics[k] \in Utxo /\ Amount(k) \in Nat
    BY LenProperties, FeePaidIs
  <1> HIDE DEF n
  <1>2. ASSUME NEW k \in 1..n
        PROVE  New(k) \in Output /\ New(k).asset = atomics[k].out.asset /\ New(k).amount = Amount(k)
    <2> DEFINE asset == atomics[k].out.asset
               amount == Amount(k)
               to == c.to
               locktime == c.locktime
               threshold == c.toThreshold
    <2>1. asset \in Asset /\ amount \in Nat
      BY <1>1, OutputAmounts DEF Utxo
    <2>2. to \in Seq(Nat) /\ locktime \in Nat /\ threshold \in Nat
      BY CallType
    <2>3. New(k) = NewOutput("transfer", asset, amount, to, locktime, threshold)
      BY DEF ImportedOut
    <2> HIDE DEF asset, amount, to, locktime, threshold, New, Amount
    <2>4. New(k) \in Output /\ New(k).asset = asset /\ New(k).amount = amount
      BY <2>1, <2>2, <2>3, NewOutputType
    <2>5. QED
      BY <2>4 DEF asset, amount
  <1>3. ImportedOuts(c, atomics) = FlattenSeq(ss)
    BY DEF ImportedOuts
  <1> HIDE DEF New, Amount
  <1>4. ASSUME NEW k \in 1..n
        PROVE  /\ ss[k] \in Seq(Output)
               /\ \A a : AmountIn(ss[k], a) = IF atomics[k].out.asset = a THEN Amount(k) ELSE 0
    <2>1. CASE Amount(k) > 0
      <3>1. ss[k] = <<New(k)>>
        BY <1>1, <2>1
      <3>2. \A a : AmountIn(<<New(k)>>, a) = IF New(k).asset = a THEN New(k).amount ELSE 0
        BY <1>2, OutputAmounts, AmountSingle
      <3>3. <<New(k)>> \in Seq(Output)
        BY <1>2
      <3> HIDE DEF ss
      <3>4. QED
        BY <1>2, <3>1, <3>2, <3>3
    <2>2. CASE ~(Amount(k) > 0)
      <3>1. ss[k] = <<>> /\ Amount(k) = 0
        BY <1>1, <2>2
      <3> HIDE DEF ss
      <3>2. QED
        BY <3>1, AmountEmpty, EmptySeq
    <2>3. QED
      BY <2>1, <2>2
  <1>5. DOMAIN ss = 1..n /\ ss = [k \in 1..n |-> ss[k]]
    BY <1>1
  <1> HIDE DEF ss
  <1>6. ss \in Seq(Seq(Output))
    BY <1>1, <1>4, <1>5, MapSeq
  <1>7. ASSUME NEW a PROVE AmountIn(FlattenSeq(ss), a) = SumFunctionOnSet(Kept(c, atomics, a), 1..n)
    <2> DEFINE g == [k \in 1..n |-> AmountIn(ss[k], a)]
    <2>1. AmountIn(FlattenSeq(ss), a) = SumFunctionOnSet(g, 1..n)
      BY <1>5, <1>6, OutputAmounts, FlatAmount
    <2>2. \A k \in 1..n : g[k] = Kept(c, atomics, a)[k]
      BY <1>1, <1>4 DEF Kept, Amount
    <2> HIDE DEF g
    <2>3. QED
      BY <2>1, <2>2, SumSame
  <1>8. QED
    BY <1>3, <1>7, <1>6, FlatType DEF n

\* The inputs exceed the outputs by what is burned of one asset.
Loses(got, asset, burn) ==
    \A a : AmountIn(got.ins, a) = AmountIn(got.outs, a) + AmountIn(got.change, a) + (IF a = asset THEN burn ELSE 0)

\* A selection for a fee alone loses the fee.
LEMMA SettledOne ==
    ASSUME NEW aad, NEW asset, NEW burn, AsksOne(aad, asset, burn), NEW utxos, NEW got, Settled(aad, utxos, got)
    PROVE  Loses(got, asset, burn)
  <1>1. /\ DOMAIN aad.asks = {1} /\ AssetsOf(aad) = {asset}
        /\ aad.asks[1].asset = asset /\ aad.asks[1].burn = burn
    BY DEF AsksOne
  <1> SUFFICES ASSUME NEW a
               PROVE  AmountIn(got.ins, a)
                          = AmountIn(got.outs, a) + AmountIn(got.change, a) + (IF a = asset THEN burn ELSE 0)
    BY DEF Loses
  <1>2. CASE a = asset
    BY <1>1, <1>2 DEF Settled
  <1>3. CASE a # asset
    BY <1>1, <1>3, AmountInNat DEF Settled
  <1>4. QED
    BY <1>2, <1>3

\* The imports of a transaction that only imports.
LEMMA PaidImport ==
    ASSUME NEW c \in Call, c.kind = "Import", NEW utxos, NEW atomics \in Seq(Utxo), NEW time,
           FeePaid(c, atomics, Len(atomics)) = c.fee,
           NEW t, t \in Tx, t.ins = <<>>, t.imports = ImportInputs(atomics, time), t.outs = ImportedOuts(c, atomics),
           t.exported = <<>>, t.debited = <<>>, t.credited = <<>>
    PROVE  Fits(c, utxos, atomics, t)
  <1>1. ASSUME NEW a \in Asset PROVE InTotal(t, a) = OutTotal(t, a) + Burns(c, t, a)
    <2> DEFINE total == AmountOf(atomics, a)
               outs == AmountIn(t.outs, a)
    <2>1. AmountIn(t.imports, a) = total /\ AmountIn(t.imports, c.feeAsset) = AmountOf(atomics, c.feeAsset)
      BY ImportInputsAre
    <2>2. outs = total - (IF a = c.feeAsset THEN c.fee ELSE 0)
      BY KeptAll, ImportedOutsAre
    <2>3. total \in Nat /\ AmountOf(atomics, c.feeAsset) \in Nat /\ c.fee \in Nat
      BY HeldIs, CallType
    <2>4. Burns(c, t, a) = IF a = c.feeAsset THEN c.fee ELSE 0
      BY <2>1, <2>3, FeePaidIs DEF Burns
    <2>5. InTotal(t, a) = total
      BY <2>1, <2>3, AmountEmpty DEF InTotal
    <2>6. OutTotal(t, a) = outs
      BY <2>2, <2>3, AmountEmpty DEF OutTotal
    <2> HIDE DEF total, outs
    <2>7. QED
      BY <2>2, <2>3, <2>4, <2>5, <2>6
  <1>2. QED
    BY <1>1, ImportInputsAre DEF Fits

\* The imports of a transaction whose imports do not pay the fee: they are lost.
LEMMA UnpaidImport ==
    ASSUME NEW c \in Call, c.kind = "Import", NEW utxos, NEW atomics \in Seq(Utxo), NEW time,
           FeePaid(c, atomics, Len(atomics)) # c.fee,
           NEW aad, AsksOne(aad, c.feeAsset, FeeRemaining(c, atomics)), NEW got, Settled(aad, utxos, got),
           NEW t, t \in Tx, t.ins = got.ins, t.imports = ImportInputs(atomics, time), t.outs = got.outs \o got.change,
           t.exported = <<>>, t.debited = <<>>, t.credited = <<>>
    PROVE  Fits(c, utxos, atomics, t)
  <1>1. ASSUME NEW a \in Asset PROVE InTotal(t, a) = OutTotal(t, a) + Burns(c, t, a)
    <2> DEFINE total == AmountOf(atomics, a)
               fees == AmountOf(atomics, c.feeAsset)
               ins == AmountIn(got.ins, a)
               outs == AmountIn(got.outs, a)
               change == AmountIn(got.change, a)
               rest == FeeRemaining(c, atomics)
    <2>1. AmountIn(t.imports, a) = total /\ AmountIn(t.imports, c.feeAsset) = fees
      BY ImportInputsAre
    <2>2. ins \in Nat /\ outs \in Nat /\ change \in Nat /\ AmountIn(t.outs, a) = outs + change
      BY AmountInNat, AmountConcat, OutputAmounts DEF Settled
    <2>3. total \in Nat /\ fees \in Nat /\ c.fee \in Nat
      BY HeldIs, CallType
    <2>4. fees < c.fee /\ rest = c.fee - fees
      <3>1. FeePaid(c, atomics, Len(atomics)) = IF fees > c.fee THEN c.fee ELSE fees
        BY FeePaidIs
      <3>2. rest = c.fee - FeePaid(c, atomics, Len(atomics))
        BY DEF FeeRemaining
      <3> HIDE DEF fees, rest
      <3>3. QED
        BY <2>3, <3>1, <3>2
    <2>5. ins = outs + change + (IF a = c.feeAsset THEN rest ELSE 0)
      <3>1. Loses(got, c.feeAsset, rest)
        BY SettledOne
      <3>2. QED
        BY <3>1 DEF Loses
    <2>6. Burns(c, t, a) = IF a = c.feeAsset THEN c.fee ELSE total
      BY <2>1, <2>4 DEF Burns
    <2>7. InTotal(t, a) = ins + total
      BY <2>1, <2>2, <2>3, AmountEmpty DEF InTotal
    <2>8. OutTotal(t, a) = outs + change
      BY <2>2, AmountEmpty DEF OutTotal
    <2>9. a = c.feeAsset => total = fees
      OBVIOUS
    <2> HIDE DEF total, fees, ins, outs, change, rest
    <2>10. CASE a = c.feeAsset
      BY <2>2, <2>3, <2>4, <2>5, <2>6, <2>7, <2>8, <2>9, <2>10
    <2>11. CASE a # c.feeAsset
      BY <2>2, <2>3, <2>5, <2>6, <2>7, <2>8, <2>11
    <2>12. QED
      BY <2>10, <2>11
  <1>2. QED
    BY <1>1, ImportInputsAre DEF Fits, Settled

\* The selection of what the imports do not pay of the fee
RestFor(utxos, atomics, c, time) ==
    GetMinimumSpendable(utxos, Aad(<<Ask(c.feeAsset, 0, FeeRemaining(c, atomics))>>, c.to, c.from, c.change),
                        time, c.locktime, 1)

\* An import that pays its fee, and one that does not
PaidImportTx(atomics, c, time) ==
    [NoTx EXCEPT !.imports = ImportInputs(atomics, time), !.outs = ImportedOuts(c, atomics)]

UnpaidImportTx(atomics, time, got) ==
    [NoTx EXCEPT !.imports = ImportInputs(atomics, time), !.ins = got.ins, !.outs = got.outs \o got.change]

\* buildImportTx makes a transaction that fits its call, or fails.
LEMMA ImportFits ==
    ASSUME NEW c \in Call, c.kind = "Import", NEW utxos \in Seq(Utxo), NEW atomics \in Seq(Utxo), NEW time
    PROVE  /\ Result(c, utxos, atomics, BuildImportTx(utxos, atomics, c, time))
           /\ Outcome(BuildImportTx(utxos, atomics, c, time),
                      IF FeeCheck(FeeRemaining(c, atomics))
                      THEN UnpaidImportTx(atomics, time, RestFor(utxos, atomics, c, time))
                      ELSE PaidImportTx(atomics, c, time),
                      FeeCheck(FeeRemaining(c, atomics)) /\ RestFor(utxos, atomics, c, time) = Failed)
  <1> DEFINE rest == FeeRemaining(c, atomics)
             aad == Aad(<<Ask(c.feeAsset, 0, rest)>>, c.to, c.from, c.change)
             got == GetMinimumSpendable(utxos, aad, time, c.locktime, 1)
             imports == ImportInputs(atomics, time)
             imported == ImportedOuts(c, atomics)
             left == got.outs \o got.change
             base == [NoTx EXCEPT !.imports = imports]
             paying == [base EXCEPT !.outs = imported]
             unpaid == [base EXCEPT !.ins = got.ins, !.outs = left]
             t == BuildImportTx(utxos, atomics, c, time)
  <1>1. \/ ~FeeCheck(rest) /\ t = paying
        \/ FeeCheck(rest) /\ got = Failed /\ t = Failed
        \/ FeeCheck(rest) /\ got # Failed /\ t = unpaid
    BY DEF BuildImportTx, ImportInputs, ImportedOuts
  <1>2. imports \in Seq(Input) /\ imported \in Seq(Output)
    BY ImportInputsAre, ImportedOutsAre
  <1>3. /\ c.fee \in Nat /\ FeePaid(c, atomics, Len(atomics)) \in Nat
        /\ FeePaid(c, atomics, Len(atomics)) <= c.fee /\ rest = c.fee - FeePaid(c, atomics, Len(atomics))
    BY CallType, HeldIs, FeePaidIs, LenProperties DEF FeeRemaining
  <1>4. paying = PaidImportTx(atomics, c, time)
    BY DEF PaidImportTx
  <1>5. unpaid = UnpaidImportTx(atomics, time, got) /\ got = RestFor(utxos, atomics, c, time)
    BY DEF UnpaidImportTx, RestFor
  <1> HIDE DEF rest, imports, imported, t
  <1>6. CASE ~FeeCheck(rest) /\ t = paying
    <2>1. FeePaid(c, atomics, Len(atomics)) = c.fee
      BY <1>3, <1>6 DEF FeeCheck
    <2>2. /\ paying \in Tx /\ paying.ins = <<>> /\ paying.imports = imports /\ paying.outs = imported
          /\ paying.exported = <<>> /\ paying.debited = <<>> /\ paying.credited = <<>>
      BY <1>2, NoTxIs DEF Tx
    <2> HIDE DEF paying
    <2>3. Fits(c, utxos, atomics, paying)
      BY <2>1, <2>2, PaidImport DEF imports, imported
    <2>4. paying \notin {Failed, Undefined}
      BY <2>3, FitsIsBuilt
    <2>5. QED
      BY <1>6, <1>4, <2>3, <2>4 DEF Result, Outcome, t, rest
  <1>7. CASE FeeCheck(rest) /\ got # Failed /\ t = unpaid
    <2>1. FeePaid(c, atomics, Len(atomics)) # c.fee /\ rest \in Nat
      BY <1>3, <1>7 DEF FeeCheck
    <2>2. /\ c.feeAsset \in Asset /\ c.to \in Seq(Nat) /\ c.from \in Seq(Nat) /\ c.change \in Seq(Nat)
          /\ c.locktime \in Nat
      BY CallType
    <2>3. AsksOne(aad, c.feeAsset, rest)
      BY <2>1, <2>2, OneAsk
    <2> HIDE DEF aad
    <2>4. Settled(aad, utxos, got)
      BY <1>7, <2>2, <2>3, SelectionSettles DEF AsksOne
    <2> HIDE DEF got
    <2>5. got.ins \in Seq(Input) /\ left \in Seq(Output)
      BY <2>4, ConcatProperties DEF Settled
    <2>6. /\ unpaid \in Tx /\ unpaid.ins = got.ins /\ unpaid.imports = imports /\ unpaid.outs = left
          /\ unpaid.exported = <<>> /\ unpaid.debited = <<>> /\ unpaid.credited = <<>>
      <3> HIDE DEF left
      <3>1. QED
        BY <1>2, <2>5, NoTxIs DEF Tx
    <2> HIDE DEF unpaid
    <2>7. Fits(c, utxos, atomics, unpaid)
      BY <2>1, <2>3, <2>4, <2>6, UnpaidImport DEF imports, rest
    <2>8. unpaid \notin {Failed, Undefined}
      BY <2>7, FitsIsBuilt
    <2>9. QED
      BY <1>7, <1>5, <2>7, <2>8 DEF Result, Outcome, t, rest
  <1>8. CASE FeeCheck(rest) /\ got = Failed /\ t = Failed
    BY <1>8, <1>5 DEF Result, Outcome, t, rest
  <1>9. QED
    BY <1>1, <1>6, <1>7, <1>8

-----------------------------------------------------------------------------
\* The C-chain.

\* What is credited and debited has amounts.
LEMMA EntryAmounts == Amounts(Credit) /\ Amounts(Debit)
  BY DEF Amounts, Credit, Debit

\* What the outputs of an import on the C-chain credit, for each of the assets.
CreditOf(c, atomics, asset) == [asset |-> asset, amount |-> CreditedFor(c, atomics, asset)]

Credits(c, atomics, assets) == [k \in DOMAIN assets |-> CreditOf(c, atomics, assets[k])]

\* What is credited of an asset is what is kept of it.
LEMMA CreditedForIs ==
    ASSUME NEW c \in Call, NEW atomics \in Seq(Utxo), NEW a
    PROVE  /\ CreditedFor(c, atomics, a) = SumFunctionOnSet(Kept(c, atomics, a), 1..Len(atomics))
           /\ CreditedFor(c, atomics, a) \in Nat
  <1> DEFINE n == Len(atomics)
             entry == [k \in DOMAIN atomics |-> [asset |-> atomics[k].out.asset, amount |-> InFeeAmount(c, atomics, k)]]
             kept == Kept(c, atomics, a)
  <1>1. n \in Nat /\ DOMAIN atomics = 1..n /\ IsFiniteSet(1..n) /\ \A k \in 1..n : atomics[k] \in Utxo
    BY HeldIs
  <1>2. \A k \in 1..n : InFeeAmount(c, atomics, k) \in Nat
    BY FeePaidIs
  <1>3. \A k \in 1..n : kept[k] \in Nat
    BY KeptAll
  <1> HIDE DEF n
  <1>4. DOMAIN entry = 1..n /\ entry = [k \in 1..n |-> entry[k]] /\ \A k \in 1..n : entry[k] \in Credit
    BY <1>1, <1>2, OutputAmounts DEF Credit, Utxo
  <1>5. \A k \in 1..n : entry[k].asset = atomics[k].out.asset /\ entry[k].amount = InFeeAmount(c, atomics, k)
    BY <1>1
  <1>6. CreditedFor(c, atomics, a) = AmountIn(entry, a)
    BY DEF CreditedFor
  <1> HIDE DEF entry
  <1>7. AmountIn(entry, a) = SumFunctionOnSet(Share(entry, a), 1..n)
    BY <1>1, <1>4, EntryAmounts, AmountShare, MapSeq
  <1>8. SumFunctionOnSet(Share(entry, a), 1..n) = SumFunctionOnSet(kept, 1..n)
    BY <1>1, <1>4, <1>5, SumSame DEF Share, Kept
  <1> HIDE DEF kept
  <1>9. SumFunctionOnSet(kept, 1..n) \in Nat
    BY <1>1, <1>3, SumNat
  <1>10. QED
    BY <1>6, <1>7, <1>8, <1>9 DEF n, kept

\* Every asset once: all that is kept is credited.
LEMMA CreditsAre ==
    ASSUME NEW c \in Call, NEW atomics \in Seq(Utxo),
           NEW assets, assets = SetToSeq({atomics[k].out.asset : k \in DOMAIN atomics})
    PROVE  /\ Credits(c, atomics, assets) \in Seq(Credit)
           /\ \A a : AmountIn(Credits(c, atomics, assets), a)
                         = SumFunctionOnSet(Kept(c, atomics, a), 1..Len(atomics))
  <1> DEFINE n == Len(atomics)
             S == {atomics[k].out.asset : k \in DOMAIN atomics}
             m == Len(assets)
             credits == Credits(c, atomics, assets)
  <1>1. n \in Nat /\ DOMAIN atomics = 1..n /\ IsFiniteSet(1..n) /\ \A k \in 1..n : atomics[k] \in Utxo
    BY HeldIs
  <1> HIDE DEF n
  <1>2. S = {atomics[k].out.asset : k \in 1..n}
    BY <1>1
  <1>3. IsFiniteSet(S)
    <2> DEFINE h == [k \in 1..n |-> atomics[k].out.asset]
               R == 1..n
    <2>1. h \in [R -> S] /\ \A e \in S : \E k \in R : h[k] = e
      BY <1>2
    <2> HIDE DEF h, R, S
    <2>2. QED
      BY <1>1, <2>1, FS_Surjection DEF R, Surjection
  <1>4. S \subseteq Asset /\ \A k \in 1..n : atomics[k].out.asset \in S
    BY <1>2, <1>1, OutputAmounts DEF Utxo
  <1> HIDE DEF S
  <1>5. /\ assets \in Seq(S)
        /\ \A j, k \in DOMAIN assets : assets[j] = assets[k] => j = k
        /\ \A e \in S : \E k \in DOMAIN assets : assets[k] = e
    BY <1>3, SetToSeqIs DEF S
  <1>6. m \in Nat /\ DOMAIN assets = 1..m /\ \A k \in 1..m : assets[k] \in S
    BY <1>5, LenProperties
  <1> HIDE DEF m
  <1>7. IsFiniteSet(1..m)
    BY <1>6, FS_Interval
  <1>8. /\ DOMAIN credits = 1..m /\ credits = [k \in 1..m |-> credits[k]]
         /\ \A k \in 1..m : /\ credits[k] \in Credit
                            /\ credits[k].asset = assets[k]
                            /\ credits[k].amount = CreditedFor(c, atomics, assets[k])
    BY <1>6, <1>4, CreditedForIs DEF Credits, CreditOf, Credit
  <1> HIDE DEF credits
  <1>9. credits \in Seq(Credit) /\ Len(credits) = m
    BY <1>6, <1>8, MapSeq
  <1>10. ASSUME NEW a PROVE AmountIn(credits, a) = SumFunctionOnSet(Kept(c, atomics, a), 1..n)
    <2> DEFINE g == Share(credits, a)
    <2>1. AmountIn(credits, a) = SumFunctionOnSet(g, 1..m)
      BY <1>9, EntryAmounts, AmountShare
    <2>2. \A k \in 1..m : g[k] = IF assets[k] = a THEN CreditedFor(c, atomics, assets[k]) ELSE 0
      BY <1>8 DEF Share
    <2> HIDE DEF g
    <2>3. CASE a \in S
      <3>1. PICK k \in 1..m : assets[k] = a
        BY <1>5, <1>6, <2>3
      <3>2. \A j \in (1..m) \ {k} : g[j] = 0
        BY <1>5, <1>6, <2>2, <3>1
      <3>3. g[k] = CreditedFor(c, atomics, a) /\ g[k] \in Int
        BY <2>2, <3>1, CreditedForIs
      <3>4. SumFunctionOnSet(g, 1..m) = g[k]
        BY <1>7, <3>2, <3>3, SumSingle
      <3>5. QED
        BY <2>1, <3>3, <3>4, CreditedForIs DEF n
    <2>4. CASE a \notin S
      <3>1. \A j \in (1..m) \ {} : g[j] = 0
        BY <1>6, <2>2, <2>4
      <3>2. SumFunctionOnSet(g, 1..m) = 0
        BY <1>7, <3>1, SumSupport, SumEmpty
      <3>3. \A j \in (1..n) \ {} : Kept(c, atomics, a)[j] = 0
        BY <1>1, <1>4, <2>4 DEF Kept
      <3>4. SumFunctionOnSet(Kept(c, atomics, a), 1..n) = 0
        <4> DEFINE kept == Kept(c, atomics, a)
        <4> HIDE DEF kept
        <4>1. SumFunctionOnSet(kept, 1..n) = SumFunctionOnSet(kept, {})
          BY <1>1, <3>3, SumSupport DEF kept
        <4>2. QED
          BY <4>1, SumEmpty DEF kept
      <3>5. QED
        BY <2>1, <3>2, <3>4
    <2>5. QED
      BY <2>3, <2>4
  <1>11. QED
    BY <1>9, <1>10 DEF credits, n

\* What an import to the C-chain credits, and the import
ImportCredits(atomics, c) == Credits(c, atomics, SetToSeq({atomics[k].out.asset : k \in DOMAIN atomics}))

EvmImportTx(atomics, c, time) ==
    [NoTx EXCEPT !.imports = ById(ImportInputs(atomics, time)), !.credited = ImportCredits(atomics, c),
                 !.owners = [k \in DOMAIN atomics |-> atomics[k].id]]

\* buildImportTx of the C-chain makes a transaction that fits its call, or fails.
LEMMA EvmImportFits ==
    ASSUME NEW c \in Call, c.kind = "EvmImport", c.feeAsset = AvaxAsset, NEW utxos,
           NEW atomics \in Seq(Utxo), Unique(atomics), NEW time
    PROVE  /\ Result(c, utxos, atomics, EvmBuildImportTx(atomics, c, time))
           /\ Outcome(EvmBuildImportTx(atomics, c, time), EvmImportTx(atomics, c, time),
                      ~ValidateOuts(ById(ImportInputs(atomics, time)), ImportCredits(atomics, c), c.fee))
  <1> DEFINE imports == ImportInputs(atomics, time)
             ins == ById(imports)
             assets == SetToSeq({atomics[k].out.asset : k \in DOMAIN atomics})
             credits == Credits(c, atomics, assets)
             owners == [k \in DOMAIN atomics |-> atomics[k].id]
             t == [NoTx EXCEPT !.imports = ins, !.credited = credits, !.owners = owners]
             built == EvmBuildImportTx(atomics, c, time)
             reason == ~ValidateOuts(ById(ImportInputs(atomics, time)), ImportCredits(atomics, c), c.fee)
  <1>1. (built = Failed /\ ~ValidateOuts(ins, credits, c.fee)) \/ (ValidateOuts(ins, credits, c.fee) /\ built = t)
    BY DEF EvmBuildImportTx, ImportInputs, Credits, CreditOf
  <1>2. t = EvmImportTx(atomics, c, time)
    BY DEF EvmImportTx, ImportCredits
  <1>3. reason <=> ~ValidateOuts(ins, credits, c.fee)
    BY DEF ImportCredits
  <1> HIDE DEF reason
  <1>4. /\ imports \in Seq(Input) /\ Unique(imports)
        /\ \A k \in DOMAIN imports : Spends(imports[k], atomics)
        /\ \A a : AmountIn(imports, a) = AmountOf(atomics, a)
    BY ImportInputsAre
  <1> HIDE DEF imports
  <1>5. /\ ins \in Seq(Input) /\ ToSet(ins) = ToSet(imports)
        /\ \A a : AmountIn(ins, a) = AmountIn(imports, a)
    BY <1>4, ByIdAre
  <1> HIDE DEF ins
  <1>6. \A k \in DOMAIN ins : Spends(ins[k], atomics)
    BY <1>4, <1>5 DEF ToSet
  <1>7. /\ credits \in Seq(Credit)
        /\ \A a : AmountIn(credits, a) = SumFunctionOnSet(Kept(c, atomics, a), 1..Len(atomics))
    BY CreditsAre
  <1> HIDE DEF credits
  <1>8. owners \in Seq(Nat)
    <2> DEFINE n == Len(atomics)
    <2>1. n \in Nat /\ DOMAIN atomics = 1..n /\ \A k \in 1..n : atomics[k] \in Utxo
      BY LenProperties
    <2> HIDE DEF n
    <2>2. DOMAIN owners = 1..n /\ owners = [k \in 1..n |-> owners[k]] /\ \A k \in 1..n : owners[k] \in Nat
      BY <2>1 DEF Utxo
    <2> HIDE DEF owners
    <2>3. QED
      BY <2>1, <2>2, MapSeq
  <1> HIDE DEF owners
  <1>9. /\ t \in Tx /\ t.ins = <<>> /\ t.imports = ins /\ t.outs = <<>> /\ t.exported = <<>>
        /\ t.debited = <<>> /\ t.credited = credits
    BY <1>5, <1>7, <1>8, NoTxIs DEF Tx
  <1> HIDE DEF t
  <1>10. ASSUME ValidateOuts(ins, credits, c.fee) PROVE Fits(c, utxos, atomics, t)
    <2> DEFINE f == FeePaid(c, atomics, Len(atomics))
    <2>1. \A a : AmountIn(credits, a) = AmountOf(atomics, a) - (IF a = c.feeAsset THEN f ELSE 0)
      BY <1>7, KeptAll
    <2>2. \A a : AmountIn(ins, a) = AmountOf(atomics, a) /\ AmountOf(atomics, a) \in Nat
      BY <1>4, <1>5, HeldIs
    <2>3. c.fee \in Nat /\ f = IF AmountOf(atomics, c.feeAsset) > c.fee THEN c.fee ELSE AmountOf(atomics, c.feeAsset)
      BY FeePaidIs, CallType
    <2>4. f \in Nat /\ f <= c.fee
      BY <2>2, <2>3
    <2>5. AmountIn(ins, AvaxAsset) - AmountIn(credits, AvaxAsset) >= c.fee
      BY <1>10 DEF ValidateOuts
    <2> HIDE DEF f
    <2>6. f = c.fee
      <3> DEFINE total == AmountOf(atomics, AvaxAsset)
      <3>1. AmountIn(credits, AvaxAsset) = total - f /\ AmountIn(ins, AvaxAsset) = total /\ total \in Nat
        BY <2>1, <2>2
      <3> HIDE DEF total
      <3>2. QED
        BY <2>3, <2>4, <2>5, <3>1
    <2>7. ASSUME NEW a \in Asset PROVE InTotal(t, a) = OutTotal(t, a) + Burns(c, t, a)
      <3> DEFINE total == AmountOf(atomics, a)
                 credited == AmountIn(credits, a)
      <3>1. total \in Nat /\ AmountIn(ins, a) = total
        BY <2>2
      <3>2. credited = total - (IF a = c.feeAsset THEN c.fee ELSE 0)
        BY <2>1, <2>6
      <3>3. Burns(c, t, a) = IF a = c.feeAsset THEN c.fee ELSE 0
        BY DEF Burns
      <3>4. InTotal(t, a) = 0 + total + 0
        BY <1>9, <3>1, AmountEmpty DEF InTotal
      <3>5. OutTotal(t, a) = 0 + 0 + credited
        BY <1>9, AmountEmpty DEF OutTotal
      <3> HIDE DEF total, credited
      <3>6. QED
        BY <2>3, <3>1, <3>2, <3>3, <3>4, <3>5
    <2>8. QED
      BY <1>6, <1>9, <2>7 DEF Fits
  <1>11. ~reason => t \notin {Failed, Undefined} /\ Fits(c, utxos, atomics, t)
    BY <1>10, <1>3, FitsIsBuilt
  <1>12. (built = Failed /\ reason) \/ (~reason /\ built = t)
    BY <1>1, <1>3
  <1> HIDE DEF built
  <1>13. QED
    BY <1>2, <1>11, <1>12 DEF Result, Outcome, built, reason

\* The amounts that an export takes from the account.
LEMMA EvmInputsAre ==
    ASSUME NEW c \in Call, c.feeAsset = AvaxAsset
    PROVE  /\ EvmInputs(c) \in Seq(Debit)
           /\ \A a : AmountIn(EvmInputs(c), a)
                         = (IF a = c.asset THEN c.amount ELSE 0) + (IF a = c.feeAsset THEN c.fee ELSE 0)
  <1>1. c.asset \in Asset /\ AvaxAsset \in Asset /\ c.amount \in Nat /\ c.fee \in Nat /\ c.nonce \in Nat
    BY CallType
  <1>2. CASE c.asset = AvaxAsset
    <2> DEFINE e == EvmInput(c.asset, c.amount + c.fee, c.nonce)
    <2>1. e \in Debit /\ e.asset = c.asset /\ e.amount = c.amount + c.fee
      BY <1>1 DEF EvmInput, Debit
    <2>2. EvmInputs(c) = <<e>>
      BY <1>2 DEF EvmInputs
    <2> HIDE DEF e
    <2>3. QED
      BY <1>1, <1>2, <2>1, <2>2, EntryAmounts, AmountSingle
  <1>3. CASE c.asset # AvaxAsset
    <2> DEFINE d == EvmInput(AvaxAsset, c.fee, c.nonce)
               e == EvmInput(c.asset, c.amount, c.nonce)
               s == <<d>>
    <2>1. /\ d \in Debit /\ d.asset = AvaxAsset /\ d.amount = c.fee
          /\ e \in Debit /\ e.asset = c.asset /\ e.amount = c.amount
      BY <1>1 DEF EvmInput, Debit
    <2>2. EvmInputs(c) = <<d, e>>
      BY <1>3 DEF EvmInputs
    <2> HIDE DEF d, e
    <2>3. <<d, e>> = Append(s, e)
      OBVIOUS
    <2>4. s \in Seq(Debit) /\ \A a : AmountIn(s, a) = IF d.asset = a THEN d.amount ELSE 0
      BY <2>1, EntryAmounts, AmountSingle
    <2> HIDE DEF s
    <2>5. \A a : AmountIn(Append(s, e), a) = AmountIn(s, a) + (IF e.asset = a THEN e.amount ELSE 0)
      BY <2>1, <2>4, EntryAmounts, AmountAppend
    <2>6. \A a : AmountIn(EvmInputs(c), a) = (IF d.asset = a THEN d.amount ELSE 0) + (IF e.asset = a THEN e.amount ELSE 0)
      BY <2>2, <2>3, <2>4, <2>5
    <2>7. \A a : (IF d.asset = a THEN d.amount ELSE 0) + (IF e.asset = a THEN e.amount ELSE 0)
                    = (IF a = c.asset THEN c.amount ELSE 0) + (IF a = c.feeAsset THEN c.fee ELSE 0)
      BY <1>1, <1>3, <2>1
    <2>8. ASSUME NEW a
           PROVE  AmountIn(EvmInputs(c), a) = (IF a = c.asset THEN c.amount ELSE 0) + (IF a = c.feeAsset THEN c.fee ELSE 0)
      <3> DEFINE total == AmountIn(EvmInputs(c), a)
                 of == (IF d.asset = a THEN d.amount ELSE 0) + (IF e.asset = a THEN e.amount ELSE 0)
                 asked == (IF a = c.asset THEN c.amount ELSE 0) + (IF a = c.feeAsset THEN c.fee ELSE 0)
      <3>1. total = of
        BY <2>6
      <3>2. of = asked
        BY <2>7
      <3> HIDE DEF total, of, asked
      <3>3. QED
        BY <3>1, <3>2 DEF total, asked
    <2>9. QED
      BY <2>8, <2>2, <2>3, <2>1, <2>4, AppendProperties
  <1>4. QED
    BY <1>2, <1>3

\* An export from the account
EvmExportTx(c) ==
    [NoTx EXCEPT !.debited = EvmInputs(c),
                 !.exported = <<NewOutput("transfer", c.asset, c.amount, c.to, c.locktime, c.toThreshold)>>]

\* buildExportTx of the EVMAPI makes a transaction that fits its call, or fails.
LEMMA EvmExportFits ==
    ASSUME NEW c \in Call, c.kind = "EvmExport", c.feeAsset = AvaxAsset, NEW utxos, NEW atomics
    PROVE  /\ Result(c, utxos, atomics, EvmApiExport(c))
           /\ EvmApiExport(c) \notin {Failed, Undefined} /\ EvmApiExport(c) = EvmExportTx(c)
  <1> DEFINE debits == EvmInputs(c)
             asset == c.asset
             amount == c.amount
             to == c.to
             locktime == c.locktime
             threshold == c.toThreshold
             out == NewOutput("transfer", asset, amount, to, locktime, threshold)
             outs == <<out>>
             t == [NoTx EXCEPT !.debited = debits, !.exported = outs]
  <1>1. EvmApiExport(c) = t
    BY DEF EvmApiExport
  <1>2. /\ debits \in Seq(Debit)
        /\ \A a : AmountIn(debits, a) = (IF a = c.asset THEN c.amount ELSE 0) + (IF a = c.feeAsset THEN c.fee ELSE 0)
    BY EvmInputsAre
  <1>3. /\ asset \in Asset /\ amount \in Nat /\ to \in Seq(Nat) /\ locktime \in Nat /\ threshold \in Nat
        /\ c.fee \in Nat
    BY CallType
  <1>4. out \in Output /\ out.asset = asset /\ out.amount = amount
    <2> HIDE DEF asset, amount, to, locktime, threshold
    <2>1. QED
      BY <1>3, NewOutputType
  <1> HIDE DEF out, debits
  <1>5. outs \in Seq(Output) /\ \A a : AmountIn(outs, a) = IF out.asset = a THEN out.amount ELSE 0
    BY <1>4, OutputAmounts, AmountSingle
  <1> HIDE DEF outs
  <1>6. /\ t \in Tx /\ t.ins = <<>> /\ t.imports = <<>> /\ t.outs = <<>> /\ t.exported = outs
        /\ t.debited = debits /\ t.credited = <<>>
    BY <1>2, <1>5, NoTxIs DEF Tx
  <1> HIDE DEF t
  <1>7. ASSUME NEW a \in Asset PROVE InTotal(t, a) = OutTotal(t, a) + Burns(c, t, a)
    <2>1. InTotal(t, a) = 0 + 0 + AmountIn(debits, a)
      BY <1>6, AmountEmpty DEF InTotal
    <2>2. OutTotal(t, a) = 0 + AmountIn(outs, a) + 0
      BY <1>6, AmountEmpty DEF OutTotal
    <2>3. Burns(c, t, a) = IF a = c.feeAsset THEN c.fee ELSE 0
      BY DEF Burns
    <2>4. AmountIn(outs, a) = IF a = asset THEN amount ELSE 0
      BY <1>4, <1>5
    <2>5. AmountIn(debits, a) = (IF a = asset THEN amount ELSE 0) + (IF a = c.feeAsset THEN c.fee ELSE 0)
      BY <1>2
    <2> HIDE DEF asset, amount
    <2>6. QED
      BY <1>3, <2>1, <2>2, <2>3, <2>4, <2>5
  <1>8. Fits(c, utxos, atomics, t)
    BY <1>6, <1>7 DEF Fits
  <1>9. QED
    BY <1>1, <1>8, FitsIsBuilt DEF Result, EvmApiExport, EvmExportTx

\* What is selected for an export of the UTXOs of the C-chain
SelectOnC(utxos, c, time) ==
    GetMinimumSpendable(utxos, Aad(<<Ask(c.asset, c.amount, c.fee)>>, c.to, c.from, c.change), time, c.locktime, 1)

\* buildExportTx of the UTXOSet of the C-chain spends nothing.
LEMMA EvmUtxoExportFits ==
    ASSUME NEW c \in Call, c.kind = "EvmUtxoExport", NEW utxos, NEW atomics \in Seq(Utxo), NEW time,
           NEW fetched
    PROVE  /\ Result(c, utxos, fetched, EvmBuildExportTx(atomics, c, time))
           /\ Outcome(EvmBuildExportTx(atomics, c, time), [NoTx EXCEPT !.exported = SelectOnC(atomics, c, time).outs],
                      c.feeAsset # c.asset \/ SelectOnC(atomics, c, time) = Failed)
  <1> DEFINE aad == Aad(<<Ask(c.asset, c.amount, c.fee)>>, c.to, c.from, c.change)
             got == GetMinimumSpendable(atomics, aad, time, c.locktime, 1)
             t == [NoTx EXCEPT !.exported = got.outs]
             built == EvmBuildExportTx(atomics, c, time)
             reason == c.feeAsset # c.asset \/ got = Failed
  <1>1. (built = Failed /\ reason) \/ built = Undefined \/ (~reason /\ built = t)
    BY DEF EvmBuildExportTx
  <1>2. t = [NoTx EXCEPT !.exported = SelectOnC(atomics, c, time).outs] /\ got = SelectOnC(atomics, c, time)
    BY DEF SelectOnC
  <1>3. ASSUME got # Failed PROVE Fits(c, utxos, fetched, t)
    <2>1. /\ c.asset \in Asset /\ c.amount \in Nat /\ c.fee \in Nat /\ c.locktime \in Nat
          /\ c.to \in Seq(Nat) /\ c.from \in Seq(Nat) /\ c.change \in Seq(Nat)
      BY CallType
    <2>2. AsksOne(aad, c.asset, c.fee)
      BY <2>1, OneAsk
    <2> HIDE DEF aad
    <2>3. Settled(aad, atomics, got)
      BY <1>3, <2>1, <2>2, SelectionSettles DEF AsksOne
    <2> HIDE DEF got
    <2>4. t \in Tx /\ t.ins = <<>> /\ t.imports = <<>> /\ t.ops = <<>> /\ t.debited = <<>>
      BY <2>3, NoTxIs DEF Tx, Settled
    <2> HIDE DEF t
    <2>5. QED
      BY <2>4 DEF Fits
  <1>4. t \notin {Failed, Undefined} \/ reason
    BY <1>3, FitsIsBuilt
  <1> HIDE DEF t, built
  <1>5. QED
    BY <1>1, <1>3, <1>2, <1>4 DEF Result, Outcome, built

-----------------------------------------------------------------------------
\* What a transaction consumes.

\* Unique ids of a whole are unique in its parts, and the parts share none.
LEMMA UniqueParts ==
    ASSUME NEW S, NEW s \in Seq(S), NEW t \in Seq(S)
    PROVE  /\ Ids(s \o t) = Ids(s) \cup Ids(t)
           /\ Unique(s \o t) => Unique(s) /\ Unique(t) /\ Ids(s) \cap Ids(t) = {}
  <1>1. /\ s \o t \in Seq(S) /\ Len(s \o t) = Len(s) + Len(t)
        /\ \A i \in 1..(Len(s) + Len(t)) : (s \o t)[i] = IF i <= Len(s) THEN s[i] ELSE t[i - Len(s)]
    BY ConcatProperties
  <1>2. /\ Len(s) \in Nat /\ Len(t) \in Nat
        /\ DOMAIN s = 1..Len(s) /\ DOMAIN t = 1..Len(t) /\ DOMAIN (s \o t) = 1..(Len(s) + Len(t))
    BY <1>1, LenProperties
  <1>3. \A i \in DOMAIN s : i \in DOMAIN (s \o t) /\ (s \o t)[i] = s[i]
    BY <1>1, <1>2
  <1>4. \A i \in DOMAIN t : i + Len(s) \in DOMAIN (s \o t) /\ (s \o t)[i + Len(s)] = t[i]
    <2> SUFFICES ASSUME NEW i \in DOMAIN t PROVE i + Len(s) \in DOMAIN (s \o t) /\ (s \o t)[i + Len(s)] = t[i]
      OBVIOUS
    <2>1. QED
      BY <1>1, <1>2
  <1>5. Ids(s \o t) = Ids(s) \cup Ids(t)
    <2>1. \A u : Ids(u) = {v.id : v \in Range(u)}
      BY DEF Ids, Range
    <2>2. QED
      BY <2>1, RangeConcatenation
  <1>6. ASSUME Unique(s \o t) PROVE Unique(s) /\ Unique(t) /\ Ids(s) \cap Ids(t) = {}
    <2>1. Unique(t)
      <3> SUFFICES ASSUME NEW i \in DOMAIN t, NEW j \in DOMAIN t, t[i].id = t[j].id PROVE i = j
        BY DEF Unique
      <3>1. i + Len(s) = j + Len(s)
        BY <1>4, <1>6 DEF Unique
      <3>2. QED
        BY <1>2, <3>1
    <2>2. ASSUME NEW i \in DOMAIN s, NEW j \in DOMAIN t PROVE s[i].id # t[j].id
      <3>1. i # j + Len(s)
        BY <1>2
      <3>2. QED
        BY <1>3, <1>4, <1>6, <3>1 DEF Unique
    <2>3. QED
      BY <2>1, <2>2, <1>3, <1>6 DEF Ids, Unique
  <1>7. QED
    BY <1>5, <1>6

\* The ids of the UTXOs of operations.
OpIds(t) == UNION {ToSet(t.ops[k].ids) : k \in DOMAIN t.ops}

\* What an input or an operation says of a UTXO that it consumes.
Entry == Input \cup [id : Nat, sigs : Seq(Sig)]

OpEntries(t) ==
    FlattenSeq([k \in DOMAIN t.ops |-> [i \in DOMAIN t.ops[k].ids |->
                    [id |-> t.ops[k].ids[i], sigs |-> t.ops[k].sigs]]])

\* The operations consume the UTXOs that they name.
LEMMA OpEntriesAre ==
    ASSUME NEW t \in Tx
    PROVE  /\ OpEntries(t) \in Seq(Entry) /\ Ids(OpEntries(t)) = OpIds(t)
           /\ OpOuts(t) \in Seq(Output)
           /\ t.ops = <<>> => OpEntries(t) = <<>>
  <1> DEFINE n == Len(t.ops)
             Row(k) == [i \in DOMAIN t.ops[k].ids |-> [id |-> t.ops[k].ids[i], sigs |-> t.ops[k].sigs]]
             rows == [k \in DOMAIN t.ops |-> Row(k)]
             outs == [k \in DOMAIN t.ops |-> t.ops[k].outs]
  <1>1. n \in Nat /\ DOMAIN t.ops = 1..n /\ \A k \in 1..n : t.ops[k] \in Operation
    BY LenProperties DEF Tx
  <1> HIDE DEF n
  <1>2. ASSUME NEW k \in 1..n PROVE Row(k) \in Seq(Entry) /\ Ids(Row(k)) = ToSet(t.ops[k].ids)
    <2> DEFINE ids == t.ops[k].ids
               sigs == t.ops[k].sigs
               m == Len(ids)
               row == Row(k)
    <2>1. ids \in Seq(Nat) /\ sigs \in Seq(Sig)
      BY <1>1 DEF Operation
    <2>2. row = [i \in DOMAIN ids |-> [id |-> ids[i], sigs |-> sigs]]
      OBVIOUS
    <2> HIDE DEF ids, sigs, row
    <2>3. m \in Nat /\ DOMAIN ids = 1..m /\ \A i \in 1..m : ids[i] \in Nat
      BY <2>1, LenProperties
    <2> HIDE DEF m
    <2>4. \A i \in 1..m : row[i] \in Entry /\ row[i].id = ids[i]
      BY <2>1, <2>2, <2>3 DEF Entry
    <2>5. row \in Seq(Entry) /\ Ids(row) = ToSet(ids)
      BY <2>3, <2>4, <2>2, MapSeq DEF Ids, ToSet
    <2>6. QED
      BY <2>5 DEF row, ids
  <1> HIDE DEF Row
  <1>3. DOMAIN rows = 1..n /\ rows = [k \in 1..n |-> rows[k]] /\ \A k \in 1..n : rows[k] = Row(k)
    BY <1>1
  <1>4. OpEntries(t) = FlattenSeq(rows)
    BY DEF OpEntries, Row
  <1> HIDE DEF rows
  <1>5. rows \in Seq(Seq(Entry)) /\ Len(rows) = n
    BY <1>1, <1>2, <1>3, MapSeq
  <1>6. FlattenSeq(rows) \in Seq(Entry) /\ ToSet(FlattenSeq(rows)) = UNION {ToSet(rows[k]) : k \in DOMAIN rows}
    BY <1>5, FlatType
  <1>7. Ids(FlattenSeq(rows)) = OpIds(t)
    <2>1. \A u : Ids(u) = {v.id : v \in ToSet(u)}
      BY DEF Ids, ToSet
    <2> DEFINE flat == FlattenSeq(rows)
    <2>2. Ids(flat) = {v.id : v \in ToSet(flat)}
      BY <2>1
    <2>3. \A k \in 1..n : {v.id : v \in ToSet(rows[k])} = ToSet(t.ops[k].ids)
      BY <1>2, <1>3, <2>1
    <2>4. ToSet(flat) = UNION {ToSet(rows[k]) : k \in 1..n}
      BY <1>3, <1>6
    <2> HIDE DEF flat
    <2>5. OpIds(t) = UNION {ToSet(t.ops[k].ids) : k \in 1..n}
      BY <1>1 DEF OpIds
    <2>6. ASSUME NEW i \in Ids(flat) PROVE i \in OpIds(t)
      BY <2>2, <2>4, <2>3, <2>5
    <2>7. ASSUME NEW i \in OpIds(t) PROVE i \in Ids(flat)
      BY <2>5, <2>3, <2>4, <2>2
    <2>8. QED
      BY <2>6, <2>7 DEF flat
  <1>8. OpOuts(t) \in Seq(Output)
    <2>1. DOMAIN outs = 1..n /\ outs = [k \in 1..n |-> outs[k]] /\ \A k \in 1..n : outs[k] \in Seq(Output)
      BY <1>1 DEF Operation
    <2>2. OpOuts(t) = FlattenSeq(outs)
      BY DEF OpOuts
    <2> HIDE DEF outs
    <2>3. QED
      BY <2>2, <1>1, <2>1, FlatType, MapSeq
  <1>9. ASSUME t.ops = <<>> PROVE FlattenSeq(rows) = <<>>
    <2>1. ToSet(FlattenSeq(rows)) = {}
      BY <1>3, <1>6, <1>9 DEF n
    <2> DEFINE flat == FlattenSeq(rows)
    <2>2. flat \in Seq(Entry) /\ \A k \in DOMAIN flat : flat[k] \in {}
      BY <1>6, <2>1 DEF ToSet
    <2> HIDE DEF flat
    <2>3. flat = <<>>
      <3>1. Len(flat) \in Nat /\ DOMAIN flat = 1..Len(flat)
        BY <2>2, LenProperties
      <3>2. \A k \in DOMAIN flat : FALSE
        BY <2>2
      <3> DEFINE m == Len(flat)
      <3>3. m \in Nat /\ \A k \in 1..m : FALSE
        BY <3>1, <3>2
      <3> HIDE DEF m
      <3>4. QED
        BY <2>2, <3>3, EmptySeq DEF m
    <2>4. QED
      BY <2>3 DEF flat
  <1>10. QED
    BY <1>4, <1>6, <1>7, <1>8, <1>9

\* A transaction consumes its inputs, its imports and the UTXOs of its operations.
LEMMA ConsumedIs ==
    ASSUME NEW t \in Tx
    PROVE  /\ Ids(Consumed(t)) = (Ids(t.ins) \cup Ids(t.imports)) \cup OpIds(t)
           /\ Unique(Consumed(t)) =>
                  /\ Unique(t.ins) /\ Unique(t.imports)
                  /\ Ids(t.ins) \cap Ids(t.imports) = {}
                  /\ OpIds(t) \cap (Ids(t.ins) \cup Ids(t.imports)) = {}
           /\ t.ins = <<>> /\ t.imports = <<>> /\ t.ops = <<>> => Consumed(t) = <<>>
  <1> DEFINE ins == t.ins
             imports == t.imports
             both == ins \o imports
             ops == OpEntries(t)
  <1>1. ins \in Seq(Input) /\ imports \in Seq(Input)
    BY DEF Tx
  <1>2. ops \in Seq(Entry) /\ Ids(ops) = OpIds(t) /\ (t.ops = <<>> => ops = <<>>)
    BY OpEntriesAre
  <1>3. Consumed(t) = both \o ops
    BY DEF Consumed, OpEntries
  <1> HIDE DEF ins, imports, ops
  <1>4. both \in Seq(Input)
    BY <1>1, ConcatProperties
  <1>5. /\ Ids(both) = Ids(ins) \cup Ids(imports)
        /\ Unique(both) => Unique(ins) /\ Unique(imports) /\ Ids(ins) \cap Ids(imports) = {}
    BY <1>1, UniqueParts
  <1>6. ins = <<>> /\ imports = <<>> => both = <<>>
    BY <1>1, ConcatEmptySeq
  <1>7. both \in Seq(Entry)
    <2> HIDE DEF both
    <2>1. QED
      BY <1>4, MapSeq, LenProperties DEF Entry
  <1> HIDE DEF both
  <1>8. /\ Ids(both \o ops) = Ids(both) \cup Ids(ops)
        /\ Unique(both \o ops) => Unique(both) /\ Unique(ops) /\ Ids(both) \cap Ids(ops) = {}
    BY <1>2, <1>7, UniqueParts
  <1>9. both = <<>> /\ ops = <<>> => both \o ops = <<>>
    BY ConcatEmptySeq, EmptySeq
  <1>10. QED
    BY <1>2, <1>3, <1>5, <1>6, <1>8, <1>9 DEF ins, imports

-----------------------------------------------------------------------------
\* The inductive invariant.

\* No two UTXOs have the same id.
IdsDistinct ==
    /\ Unique(x) /\ Unique(toX) /\ Unique(toC)
    /\ Ids(x) \cap Ids(toX) = {} /\ Ids(x) \cap Ids(toC) = {} /\ Ids(toX) \cap Ids(toC) = {}

\* Ids that are new have never been seen.
IdsKnown == \A i \in ((Ids(x) \cup Ids(toX)) \cup Ids(toC)) \cup Ids(utxoset) : i <= lastId

\* What was fetched may be gone, but it does not change.
StaleButTrue == \A u \in ToSet(utxoset) : \A v \in ToSet(x) : u.id = v.id => u = v

\* What is built fits the call.
TxFits == Built => call \in Calls /\ Fits(call, utxoset, Source(call), tx)

Inv == TypeOK /\ IdsDistinct /\ IdsKnown /\ StaleButTrue /\ TxFits /\ Conserved

-----------------------------------------------------------------------------
\* A call is of one of the kinds, and none is no call.
LEMMA CallsAre == Calls \subseteq Call /\ NoCall \notin Calls /\ \A c \in Calls : c.kind \in Kinds
  BY CallsAssumption DEF NoCall, Kinds, Call

\* The invariant holds at first.
LEMMA InitInv == Init => Inv
  <1> SUFFICES ASSUME Init PROVE Inv
    OBVIOUS
  <1>1. /\ x = Genesis /\ toX = <<>> /\ toC = <<>> /\ account = Funded /\ nonce = 0 /\ minted = None /\ paid = None
        /\ lastId = FirstId /\ utxoset = Genesis /\ initial = Holdings /\ call = NoCall /\ tx = Undefined
        /\ now = 1 /\ txs = 0
    BY DEF Init
  <1>2. /\ FirstId \in Nat /\ Genesis \in Seq(Utxo)
        /\ \A k \in DOMAIN Genesis : Genesis[k].id <= FirstId
        /\ Unique(Genesis) /\ Funded \in [Asset -> Nat] /\ Holdings \in Seq(Output)
    BY GenesisAssumption DEF Unique
  <1>3. <<>> \in Seq(Utxo) /\ DOMAIN <<>> = {}
    BY EmptySeq
  <1>4. None \in [Asset -> Nat] /\ \A a \in Asset : None[a] = 0
    BY DEF None
  <1>5. TypeOK
    BY <1>1, <1>2, <1>3, <1>4 DEF TypeOK
  <1>6. IdsDistinct
    BY <1>1, <1>2, <1>3 DEF IdsDistinct, Unique, Ids
  <1>7. IdsKnown
    BY <1>1, <1>2, <1>3 DEF IdsKnown, Ids
  <1>8. StaleButTrue
    BY <1>1, <1>2 DEF StaleButTrue, ToSet, Unique
  <1>9. TxFits
    BY <1>1 DEF TxFits, Built
  <1>10. Conserved
    <2> SUFFICES ASSUME NEW a \in Asset
                 PROVE  AmountOf(x, a) + AmountOf(toX, a) + AmountOf(toC, a) + account[a] + paid[a]
                            = AmountOf(Genesis, a) + Funded[a] + minted[a]
      BY DEF Conserved
    <2>1. QED
      BY <1>1, <1>2, <1>3, <1>4, HeldIs, AmountEmpty DEF AmountOf
  <1>11. QED
    BY <1>5, <1>6, <1>7, <1>8, <1>9, <1>10 DEF Inv

-----------------------------------------------------------------------------
\* Building changes nothing but the call and its transaction.

Building(utxos, atomics) ==
    /\ call' \in Calls
    /\ Result(call', utxos, atomics, tx')
    /\ atomics = IF call'.kind = "EvmImport" THEN toC ELSE toX
    /\ initial' \in Seq(Output)
    /\ UNCHANGED <<chain, utxoset, now>>

\* Building a transaction that fits its call keeps the invariant.
LEMMA BuildingKeeps ==
    ASSUME Inv, NEW atomics, Building(utxoset, atomics)
    PROVE  Inv'
  <1>1. /\ x' = x /\ toX' = toX /\ toC' = toC /\ account' = account /\ nonce' = nonce /\ minted' = minted
        /\ paid' = paid /\ lastId' = lastId /\ txs' = txs /\ utxoset' = utxoset /\ now' = now
    BY DEF Building, chain
  <1>2. call' \in Calls /\ (tx' \in {Failed, Undefined} \/ Fits(call', utxoset, atomics, tx'))
    BY DEF Building, Result
  <1>3. TypeOK'
    BY <1>1, <1>2 DEF Inv, TypeOK, Building, Fits
  <1>4. IdsDistinct'
    <2>1. Unique(x)' /\ Unique(toX)' /\ Unique(toC)'
      BY <1>1, Zenon DEF Inv, IdsDistinct, Unique
    <2>2. Ids(x)' = Ids(x) /\ Ids(toX)' = Ids(toX) /\ Ids(toC)' = Ids(toC)
      BY <1>1, Zenon DEF Ids
    <2>3. QED
      BY <2>1, <2>2 DEF Inv, IdsDistinct
  <1>5. IdsKnown'
    BY <1>1 DEF Inv, IdsKnown, Ids
  <1>6. StaleButTrue'
    BY <1>1 DEF Inv, StaleButTrue
  <1>7. TxFits'
    BY <1>1, <1>2 DEF Source, Building, Built, TxFits
  <1>8. Conserved'
    BY <1>1 DEF Inv, Conserved
  <1>9. QED
    BY <1>3, <1>4, <1>5, <1>6, <1>7, <1>8 DEF Inv

\* Of the UTXOs in any order.
LEMMA FromXKeeps ==
    ASSUME Inv, call' \in Calls, call'.kind # "EvmImport", initial' \in Seq(Output),
           Result(call', Arranged(utxoset, call'), toX, tx'), UNCHANGED <<chain, utxoset, now>>
    PROVE  Inv'
  BY ArrangedIs, FitsAnyOrder, BuildingKeeps DEF Inv, TypeOK, Building

\* Base keeps the invariant.
LEMMA BaseKeeps == Inv /\ Base => Inv'
  <1> SUFFICES ASSUME Inv, Base PROVE Inv'
    OBVIOUS
  <1> DEFINE c == call'
  <1>1. /\ c \in Calls /\ c.kind = "Base" /\ tx' = BuildBaseTx(Arranged(utxoset, c), c, now)
        /\ initial' = initial /\ UNCHANGED <<chain, utxoset, now>>
    BY DEF Base, FromX, Build
  <1>2. QED
    BY <1>1, FromXKeeps, BaseFits, CallsAre, ArrangedIs DEF Inv, TypeOK

\* Export keeps the invariant.
LEMMA ExportKeeps == Inv /\ Export => Inv'
  <1> SUFFICES ASSUME Inv, Export PROVE Inv'
    OBVIOUS
  <1> DEFINE c == call'
  <1>1. /\ c \in Calls /\ c.kind = "Export" /\ tx' = BuildExportTx(Arranged(utxoset, c), c, now)
        /\ initial' = initial /\ UNCHANGED <<chain, utxoset, now>>
    BY DEF Export, FromX, Build
  <1>2. QED
    BY <1>1, FromXKeeps, ExportFits, CallsAre, ArrangedIs DEF Inv, TypeOK

\* SECPMint keeps the invariant.
LEMMA SECPMintKeeps == Inv /\ SECPMint => Inv'
  <1> SUFFICES ASSUME Inv, SECPMint PROVE Inv'
    OBVIOUS
  <1> DEFINE c == call'
  <1>1. /\ c \in Calls /\ c.kind = "SECPMint" /\ tx' = BuildSECPMintTx(Arranged(utxoset, c), c, now)
        /\ initial' = initial /\ UNCHANGED <<chain, utxoset, now>>
    BY DEF SECPMint, FromX, Build
  <1>2. QED
    BY <1>1, FromXKeeps, SECPMintFits, CallsAre, ArrangedIs DEF Inv, TypeOK

\* CreateNFTAsset keeps the invariant.
LEMMA CreateNFTAssetKeeps == Inv /\ CreateNFTAsset => Inv'
  <1> SUFFICES ASSUME Inv, CreateNFTAsset PROVE Inv'
    OBVIOUS
  <1> DEFINE c == call'
  <1>1. /\ c \in Calls /\ c.kind = "CreateNFTAsset" /\ tx' = BuildCreateNFTAssetTx(Arranged(utxoset, c), c, now)
        /\ initial' = initial /\ UNCHANGED <<chain, utxoset, now>>
    BY DEF CreateNFTAsset, FromX, Build
  <1>2. QED
    BY <1>1, FromXKeeps, CreateNFTAssetFits, CallsAre, ArrangedIs DEF Inv, TypeOK

\* CreateNFTMint keeps the invariant.
LEMMA CreateNFTMintKeeps == Inv /\ CreateNFTMint => Inv'
  <1> SUFFICES ASSUME Inv, CreateNFTMint PROVE Inv'
    OBVIOUS
  <1> DEFINE c == call'
  <1>1. /\ c \in Calls /\ c.kind = "CreateNFTMint" /\ tx' = BuildCreateNFTMintTx(Arranged(utxoset, c), c, now)
        /\ initial' = initial /\ UNCHANGED <<chain, utxoset, now>>
    BY DEF CreateNFTMint, FromX, Build
  <1>2. QED
    BY <1>1, FromXKeeps, CreateNFTMintFits, CallsAre, ArrangedIs DEF Inv, TypeOK

\* NFTTransfer keeps the invariant.
LEMMA NFTTransferKeeps == Inv /\ NFTTransfer => Inv'
  <1> SUFFICES ASSUME Inv, NFTTransfer PROVE Inv'
    OBVIOUS
  <1> DEFINE c == call'
  <1>1. /\ c \in Calls /\ c.kind = "NFTTransfer" /\ tx' = BuildNFTTransferTx(Arranged(utxoset, c), c, now)
        /\ initial' = initial /\ UNCHANGED <<chain, utxoset, now>>
    BY DEF NFTTransfer, FromX, Build
  <1>2. QED
    BY <1>1, FromXKeeps, NFTTransferFits, CallsAre, ArrangedIs DEF Inv, TypeOK

\* Import keeps the invariant.
LEMMA ImportKeeps == Inv /\ Import => Inv'
  <1> SUFFICES ASSUME Inv, Import PROVE Inv'
    OBVIOUS
  <1> DEFINE c == call'
             utxos == Arranged(utxoset, c)
             atomics == Arranged(toX, c)
  <1>1. /\ c \in Calls /\ c.kind = "Import"
        /\ tx' = IF toX = <<>> THEN Failed ELSE BuildImportTx(utxos, atomics, c, now)
        /\ initial' = initial /\ UNCHANGED <<chain, utxoset, now>>
    BY DEF Import, FromX, Build
  <1>2. /\ c \in Call /\ utxos \in Seq(Utxo) /\ atomics \in Seq(Utxo)
        /\ ToSet(utxos) = ToSet(utxoset) /\ ToSet(atomics) = ToSet(toX)
    BY <1>1, CallsAre, ArrangedIs DEF Inv, TypeOK
  <1> HIDE DEF utxos, atomics
  <1>3. Result(c, utxos, atomics, tx')
    BY <1>1, <1>2, ImportFits DEF Result
  <1>4. Building(utxoset, toX)
    BY <1>1, <1>2, <1>3, FitsAnyOrder DEF Building, Inv, TypeOK
  <1>5. QED
    BY <1>4, BuildingKeeps

\* CreateAsset keeps the invariant.
LEMMA CreateAssetKeeps == Inv /\ CreateAsset => Inv'
  <1> SUFFICES ASSUME Inv, CreateAsset PROVE Inv'
    OBVIOUS
  <1> DEFINE c == call'
             states == States(c)
  <1>1. /\ c \in Calls /\ c.kind = "CreateAsset"
        /\ tx' = BuildCreateAssetTx(Arranged(utxoset, c), states, c, now)
        /\ initial' = IF tx' = Failed THEN states ELSE AddOutputs(states, c)
        /\ UNCHANGED <<chain, utxoset, now>>
    BY DEF CreateAsset, Build
  <1>2. c \in Call /\ Arranged(utxoset, c) \in Seq(Utxo)
    BY <1>1, CallsAre, ArrangedIs DEF Inv, TypeOK
  <1>3. states \in Seq(Output)
    BY GenesisAssumption DEF States, Inv, TypeOK
  <1> HIDE DEF states
  <1>4. QED
    BY <1>1, <1>2, <1>3, FromXKeeps, CreateAssetFits, AddOutputsType

\* EvmImport keeps the invariant.
LEMMA EvmImportKeeps == Inv /\ EvmImport => Inv'
  <1> SUFFICES ASSUME Inv, EvmImport PROVE Inv'
    OBVIOUS
  <1> DEFINE c == call'
             atomics == Arranged(toC, c)
  <1>1. /\ c \in Calls /\ c.kind = "EvmImport"
        /\ tx' = IF atomics = <<>> THEN Failed ELSE EvmBuildImportTx(atomics, c, now)
        /\ initial' = initial /\ UNCHANGED <<chain, utxoset, now>>
    BY DEF EvmImport, Build, EvmApiImport
  <1>2. /\ c \in Call /\ atomics \in Seq(Utxo) /\ Unique(atomics) /\ ToSet(atomics) = ToSet(toC)
    BY <1>1, CallsAre, ArrangedIs DEF Inv, TypeOK, IdsDistinct
  <1>3. c.feeAsset = AvaxAsset
    BY <1>1, CallsAssumption
  <1> HIDE DEF atomics
  <1>4. Result(c, utxoset, atomics, tx')
    BY <1>1, <1>2, <1>3, EvmImportFits DEF Result
  <1>5. Building(utxoset, toC)
    BY <1>1, <1>2, <1>4, FitsAnyOrder DEF Building, Inv, TypeOK
  <1>6. QED
    BY <1>5, BuildingKeeps

\* EvmExport keeps the invariant.
LEMMA EvmExportKeeps == Inv /\ EvmExport => Inv'
  <1> SUFFICES ASSUME Inv, EvmExport PROVE Inv'
    OBVIOUS
  <1> DEFINE c == call'
  <1>1. /\ c \in Calls /\ c.kind = "EvmExport" /\ tx' = EvmApiExport(c)
        /\ initial' = initial /\ UNCHANGED <<chain, utxoset, now>>
    BY DEF EvmExport, Build
  <1>2. Result(c, utxoset, toX, tx')
    BY <1>1, EvmExportFits, CallsAre, CallsAssumption
  <1>3. QED
    BY <1>1, <1>2, BuildingKeeps DEF Building, Inv, TypeOK

\* EvmUtxoExport keeps the invariant.
LEMMA EvmUtxoExportKeeps == Inv /\ EvmUtxoExport => Inv'
  <1> SUFFICES ASSUME Inv, EvmUtxoExport PROVE Inv'
    OBVIOUS
  <1> DEFINE c == call'
             atomics == Arranged(toC, c)
  <1>1. /\ c \in Calls /\ c.kind = "EvmUtxoExport" /\ tx' = EvmBuildExportTx(atomics, c, now)
        /\ initial' = initial /\ UNCHANGED <<chain, utxoset, now>>
    BY DEF EvmUtxoExport, Build
  <1>2. c \in Call /\ atomics \in Seq(Utxo)
    BY <1>1, CallsAre, ArrangedIs DEF Inv, TypeOK
  <1> HIDE DEF atomics
  <1>3. QED
    BY <1>1, <1>2, BuildingKeeps, EvmUtxoExportFits DEF Building, Inv, TypeOK

-----------------------------------------------------------------------------
\* Without a call nothing is built.
LEMMA IdleBuildsNothing == Inv /\ call = NoCall => ~Built
  BY CallsAre DEF Inv, TxFits

\* Fetching the UTXOs keeps the invariant.
LEMMA FetchKeeps == Inv /\ FetchUTXOs => Inv'
  <1> SUFFICES ASSUME Inv, FetchUTXOs PROVE Inv'
    OBVIOUS
  <1>1. /\ x' = x /\ toX' = toX /\ toC' = toC /\ account' = account /\ nonce' = nonce /\ minted' = minted
        /\ paid' = paid /\ lastId' = lastId /\ txs' = txs /\ utxoset' = x /\ initial' = initial
        /\ call' = call /\ tx' = tx /\ now' = now /\ call = NoCall
    BY DEF FetchUTXOs, Idle, chain
  <1>2. TypeOK'
    BY <1>1 DEF Inv, TypeOK
  <1>3. Ids(x)' = Ids(x) /\ Ids(toX)' = Ids(toX) /\ Ids(toC)' = Ids(toC) /\ Ids(utxoset)' = Ids(x)
    BY <1>1, Zenon DEF Ids
  <1>4. IdsDistinct'
    <2>1. Unique(x)' /\ Unique(toX)' /\ Unique(toC)'
      BY <1>1, Zenon DEF Inv, IdsDistinct, Unique
    <2>2. QED
      BY <1>3, <2>1 DEF Inv, IdsDistinct
  <1>5. IdsKnown'
    BY <1>1, <1>3 DEF Inv, IdsKnown
  <1>6. StaleButTrue'
    BY <1>1 DEF Inv, IdsDistinct, StaleButTrue, ToSet, Unique
  <1>7. TxFits'
    BY <1>1, IdleBuildsNothing DEF TxFits, Built
  <1>8. Conserved'
    BY <1>1 DEF Inv, Conserved
  <1>9. QED
    BY <1>2, <1>4, <1>5, <1>6, <1>7, <1>8 DEF Inv

\* What touches neither chain nor UTXOs, and leaves nothing built.
LEMMA QuietKeeps ==
    ASSUME Inv, UNCHANGED <<chain, utxoset, initial>>, now' \in Nat, call' = NoCall, tx' \in Tx \cup {Failed, Undefined},
           ~(Built')
    PROVE  Inv'
  <1>1. /\ x' = x /\ toX' = toX /\ toC' = toC /\ account' = account /\ nonce' = nonce /\ minted' = minted
        /\ paid' = paid /\ lastId' = lastId /\ txs' = txs /\ utxoset' = utxoset /\ initial' = initial
    BY DEF chain
  <1>2. TypeOK'
    BY <1>1 DEF Inv, TypeOK
  <1>3. Ids(x)' = Ids(x) /\ Ids(toX)' = Ids(toX) /\ Ids(toC)' = Ids(toC) /\ Ids(utxoset)' = Ids(utxoset)
    BY <1>1, Zenon DEF Ids
  <1>4. IdsDistinct'
    <2>1. Unique(x)' /\ Unique(toX)' /\ Unique(toC)'
      BY <1>1, Zenon DEF Inv, IdsDistinct, Unique
    <2>2. QED
      BY <1>3, <2>1 DEF Inv, IdsDistinct
  <1>5. IdsKnown'
    BY <1>1, <1>3 DEF Inv, IdsKnown
  <1>6. StaleButTrue'
    BY <1>1 DEF Inv, StaleButTrue
  <1>7. Conserved'
    BY <1>1 DEF Inv, Conserved
  <1>8. QED
    BY <1>2, <1>4, <1>5, <1>6, <1>7 DEF Inv, TxFits

\* Forgetting a transaction that is refused keeps the invariant.
LEMMA RefuseKeeps == Inv /\ Refuse => Inv'
  <1> SUFFICES ASSUME Inv, Refuse PROVE Inv'
    OBVIOUS
  <1>1. QED
    BY QuietKeeps DEF Built, Inv, TypeOK, Refuse

\* Time keeps the invariant.
LEMMA TickKeeps == Inv /\ Tick => Inv'
  <1> SUFFICES ASSUME Inv, Tick PROVE Inv'
    OBVIOUS
  <1>1. call = NoCall /\ call' = call /\ tx' = tx /\ now' = now + 1 /\ UNCHANGED <<chain, utxoset, initial>>
    BY DEF Tick, Idle
  <1>2. ~(Built') /\ now' \in Nat /\ tx' \in Tx \cup {Failed, Undefined}
    BY <1>1, IdleBuildsNothing DEF Built, Inv, TypeOK
  <1>3. QED
    BY <1>1, <1>2, QuietKeeps

-----------------------------------------------------------------------------
\* What the chain accepts.

Gone == Ids(Consumed(tx))

Other == IF call.kind = "EvmImport" THEN toX ELSE toC

\* The UTXO of an id that only one has.
LEMMA OnlyOne ==
    ASSUME NEW s \in Seq(Utxo), NEW r \in Seq(Utxo), Unique(s), Ids(s) \cap Ids(r) = {}, NEW k \in DOMAIN s
    PROVE  UtxoOf(s \o r, s[k].id) = s[k]
  <1> DEFINE id == s[k].id
             u == UtxoOf(s \o r, id)
  <1>1. ToSet(s \o r) = ToSet(s) \cup ToSet(r)
    BY OfConcat
  <1>2. u \in ToSet(s \o r) /\ u.id = id
    BY <1>1 DEF UtxoOf, ToSet
  <1> HIDE DEF u
  <1>3. u \notin ToSet(r)
    BY <1>2 DEF Ids, ToSet
  <1>4. PICK j \in DOMAIN s : u = s[j]
    BY <1>1, <1>2, <1>3 DEF ToSet
  <1>5. QED
    BY <1>4, <1>2 DEF u, Unique

\* What Valid says of ids, and of operations.
LEMMA ValidIs ==
    ASSUME Inv, Built, Valid(tx)
    PROVE  /\ tx \in Tx /\ call \in Calls /\ Fits(call, utxoset, Source(call), tx)
           /\ Unique(tx.ins) /\ Unique(tx.imports)
           /\ Ids(tx.ins) \cap Ids(tx.imports) = {}
           /\ Gone = (Ids(tx.ins) \cup Ids(tx.imports)) \cup OpIds(tx)
           /\ Ids(tx.imports) \subseteq Ids(Source(call))
           /\ Ids(tx.ins) \subseteq Ids(x) /\ OpIds(tx) \subseteq Ids(x)
           /\ \A id \in OpIds(tx) : UtxoOf(x \o Source(call), id).out.kind # "transfer"
           /\ call.kind # "EvmUtxoExport"
  <1> DEFINE all == Consumed(tx)
             OutOf(id) == UtxoOf(x \o Source(call), id).out
  <1>1. tx \in Tx /\ call \in Calls /\ Fits(call, utxoset, Source(call), tx)
    BY DEF Inv, TxFits, Fits
  <1>2. /\ all \o tx.debited # <<>>
        /\ \A i, j \in DOMAIN all : all[i].id = all[j].id => i = j
        /\ Ids(tx.imports) \subseteq Ids(Source(call))
        /\ Ids(all) \ Ids(tx.imports) \subseteq Ids(x)
        /\ \A i \in DOMAIN tx.ops : \A id \in ToSet(tx.ops[i].ids) : OutOf(id).kind # "transfer"
    BY DEF Valid
  <1> HIDE DEF all, OutOf
  <1>3. /\ Ids(all) = (Ids(tx.ins) \cup Ids(tx.imports)) \cup OpIds(tx)
        /\ Unique(tx.ins) /\ Unique(tx.imports)
        /\ Ids(tx.ins) \cap Ids(tx.imports) = {}
        /\ OpIds(tx) \cap (Ids(tx.ins) \cup Ids(tx.imports)) = {}
    BY <1>1, <1>2, ConsumedIs DEF all, Unique
  <1>4. Ids(tx.ins) \subseteq Ids(x) /\ OpIds(tx) \subseteq Ids(x)
    BY <1>2, <1>3
  <1>5. \A id \in OpIds(tx) : OutOf(id).kind # "transfer"
    BY <1>2 DEF OpIds
  <1>6. call.kind # "EvmUtxoExport"
    <2> SUFFICES ASSUME call.kind = "EvmUtxoExport" PROVE FALSE
      OBVIOUS
    <2>1. QED
      BY <1>2, <1>1, ConcatEmptySeq, EmptySeq, ConsumedIs DEF all, Fits
  <1>7. QED
    BY <1>1, <1>2, <1>3, <1>4, <1>5, <1>6 DEF all, OutOf, Gone

\* Where the UTXOs are: the X-chain, what the call imports from, and the rest.
LEMMA Places ==
    ASSUME Inv
    PROVE  /\ Source(call) \in Seq(Utxo) /\ Other \in Seq(Utxo) /\ x \in Seq(Utxo)
           /\ Unique(x) /\ Unique(Source(call)) /\ Unique(Other)
           /\ Ids(x) \cap Ids(Source(call)) = {} /\ Ids(x) \cap Ids(Other) = {}
           /\ Ids(Source(call)) \cap Ids(Other) = {}
  BY DEF Source, Other, Inv, TypeOK, IdsDistinct

\* Of an id that is there there is a UTXO.
LEMMA IdsOf == ASSUME NEW s, NEW i \in Ids(s) PROVE \E k \in DOMAIN s : s[k].id = i
  BY DEF Ids

\* From the X-chain the inputs are taken, and with operations what holds nothing.
LEMMA TakesX ==
    ASSUME Inv, Built, Valid(tx)
    PROVE  Takes(tx.ins, x, Gone)
  <1>1. \A i \in DOMAIN tx.ins : tx.ins[i].id \in Gone /\ Spends(tx.ins[i], x)
    <2> SUFFICES ASSUME NEW i \in DOMAIN tx.ins PROVE tx.ins[i].id \in Gone /\ Spends(tx.ins[i], x)
      OBVIOUS
    <2> DEFINE in == tx.ins[i]
    <2>1. in.id \in Gone /\ in.id \in Ids(x)
      BY ValidIs DEF Ids
    <2>2. PICK u \in ToSet(utxoset) : in.id = u.id /\ in.asset = u.out.asset /\ in.amount = u.out.amount
      BY ValidIs DEF Fits, Spends
    <2>3. PICK k \in DOMAIN x : x[k].id = in.id
      BY <2>1, IdsOf
    <2>4. QED
      BY <2>1, <2>2, <2>3 DEF Spends, Inv, StaleButTrue, ToSet
  <1>2. \A k \in DOMAIN x : x[k].id \in Gone => x[k].out.amount = 0 \/ x[k].id \in Ids(tx.ins)
    <2> SUFFICES ASSUME NEW k \in DOMAIN x, x[k].id \in Gone, x[k].id \notin Ids(tx.ins) PROVE x[k].out.amount = 0
      OBVIOUS
    <2>1. x[k].id \in OpIds(tx)
      BY ValidIs, Places DEF Ids
    <2>2. x[k].out.kind # "transfer"
      BY <2>1, ValidIs, Places, OnlyOne
    <2>3. QED
      BY <2>2, Places, HeldIs DEF Utxo, Output
  <1>3. QED
    BY <1>1, <1>2, ValidIs DEF Takes

\* What is imported is taken from where it was exported to.
LEMMA TakesSource ==
    ASSUME Inv, Built, Valid(tx)
    PROVE  Takes(tx.imports, Source(call), Gone)
  <1>1. \A i \in DOMAIN tx.imports : tx.imports[i].id \in Gone /\ Spends(tx.imports[i], Source(call))
    <2> SUFFICES ASSUME NEW i \in DOMAIN tx.imports
                 PROVE  tx.imports[i].id \in Gone /\ Spends(tx.imports[i], Source(call))
      OBVIOUS
    <2>1. QED
      BY ValidIs DEF Fits, Ids
  <1>2. \A k \in DOMAIN Source(call) : Source(call)[k].id \in Gone => Source(call)[k].id \in Ids(tx.imports)
    <2> SUFFICES ASSUME NEW k \in DOMAIN Source(call), Source(call)[k].id \in Gone
                 PROVE  Source(call)[k].id \in Ids(tx.imports)
      OBVIOUS
    <2>1. Source(call)[k].id \in Ids(Source(call))
      BY DEF Ids
    <2>2. QED
      BY <2>1, ValidIs, Places
  <1>3. QED
    BY <1>1, <1>2, ValidIs DEF Takes

\* From nowhere else anything is taken.
LEMMA TakesOther ==
    ASSUME Inv, Built, Valid(tx)
    PROVE  Takes(<<>>, Other, Gone)
  <1>1. \A k \in DOMAIN Other : Other[k].id \notin Gone
    <2> SUFFICES ASSUME NEW k \in DOMAIN Other PROVE Other[k].id \notin Gone
      OBVIOUS
    <2>1. Other[k].id \in Ids(Other)
      BY DEF Ids
    <2>2. QED
      BY <2>1, ValidIs, Places
  <1>2. QED
    BY <1>1, EmptySeq DEF Takes, Unique

\* What is new: on the X-chain, and for another chain.
Made == tx.outs \o tx.states \o OpOuts(tx)

SentTo(kind) == IF call.kind = kind THEN NewUtxos(tx.exported, Len(Made)) ELSE <<>>

\* The parts of Accept.
LEMMA AcceptIs ==
    ASSUME Accept
    PROVE  /\ Built /\ Valid(tx)
           /\ x' = Without(x, Gone) \o NewUtxos(Made, 0)
           /\ toX' = Without(toX, Gone) \o SentTo("EvmExport")
           /\ toC' = Without(toC, Gone) \o SentTo("Export")
           /\ lastId' = lastId + Len(Made) + Len(tx.exported)
           /\ minted' = [a \in Asset |-> minted[a] + AmountIn(tx.states \o OpOuts(tx), a)]
           /\ account' = [a \in Asset |-> account[a] + AmountIn(tx.credited, a) - AmountIn(tx.debited, a)]
           /\ nonce' = IF tx.debited = <<>> THEN nonce ELSE nonce + 1
           /\ paid' = [a \in Asset |-> paid[a] + Burns(call, tx, a)]
           /\ txs' = txs + 1 /\ call' = NoCall /\ tx' = Undefined
           /\ utxoset' = utxoset /\ initial' = initial /\ now' = now
  BY DEF Accept, Made, Gone, SentTo

\* The parts of a transaction, and what is in them.
LEMMA PartsAre ==
    ASSUME NEW t \in Tx, NEW a
    PROVE  /\ t.ins \in Seq(Input) /\ t.imports \in Seq(Input)
           /\ t.outs \in Seq(Output) /\ t.states \in Seq(Output) /\ OpOuts(t) \in Seq(Output) /\ t.exported \in Seq(Output)
           /\ t.states \o OpOuts(t) \in Seq(Output)
           /\ t.outs \o t.states \o OpOuts(t) \in Seq(Output)
           /\ AmountIn(t.outs \o t.states \o OpOuts(t), a) = AmountIn(t.outs, a) + AmountIn(t.states \o OpOuts(t), a)
           /\ AmountIn(t.ins, a) \in Nat /\ AmountIn(t.imports, a) \in Nat /\ AmountIn(t.outs, a) \in Nat
           /\ AmountIn(t.exported, a) \in Nat /\ AmountIn(t.states \o OpOuts(t), a) \in Nat
           /\ AmountIn(t.credited, a) \in Nat /\ AmountIn(t.debited, a) \in Nat
  <1> DEFINE ops == OpOuts(t)
             outs == t.outs
             states == t.states
  <1>1. /\ t.ins \in Seq(Input) /\ t.imports \in Seq(Input) /\ outs \in Seq(Output) /\ states \in Seq(Output)
        /\ t.exported \in Seq(Output) /\ t.credited \in Seq(Credit) /\ t.debited \in Seq(Debit)
    BY DEF Tx
  <1>2. ops \in Seq(Output)
    BY OpEntriesAre
  <1>3. AmountIn(t.credited, a) \in Nat
    BY <1>1, AmountNat DEF Credit
  <1>4. AmountIn(t.debited, a) \in Nat
    BY <1>1, AmountNat DEF Debit
  <1> HIDE DEF ops, outs, states
  <1>5. states \o ops \in Seq(Output) /\ outs \o states \in Seq(Output)
    BY <1>1, <1>2, ConcatProperties
  <1>6. outs \o states \o ops \in Seq(Output)
    BY <1>2, <1>5, ConcatProperties
  <1>7. AmountIn(outs \o states \o ops, a) = AmountIn(outs \o states, a) + AmountIn(ops, a)
    BY <1>2, <1>5, OutputAmounts, AmountConcat
  <1>8. AmountIn(outs, a) \in Nat /\ AmountIn(states, a) \in Nat /\ AmountIn(ops, a) \in Nat
        /\ AmountIn(t.ins, a) \in Nat /\ AmountIn(t.imports, a) \in Nat /\ AmountIn(t.exported, a) \in Nat
        /\ AmountIn(states \o ops, a) \in Nat
    BY <1>1, <1>2, <1>5, AmountInNat
  <1>9. AmountIn(outs \o states \o ops, a) = AmountIn(outs, a) + AmountIn(states \o ops, a)
    BY <1>7, <1>8, <1>1, <1>2, OutputAmounts, AmountConcat
  <1>10. QED
    BY <1>1, <1>2, <1>3, <1>4, <1>5, <1>6, <1>8, <1>9 DEF ops, outs, states

\* What a call burns is a natural number.
LEMMA BurnsNat ==
    ASSUME NEW c \in Call, NEW t \in Tx, NEW a
    PROVE  Burns(c, t, a) \in Nat
  BY CallType, PartsAre DEF Burns

\* The new UTXOs, and what there is of them.
LEMMA NewIs ==
    ASSUME Inv, Built, Valid(tx)
    PROVE  /\ Made \in Seq(Output) /\ Len(Made) \in Nat /\ Len(tx.exported) \in Nat /\ lastId \in Nat
           /\ NewUtxos(Made, 0) \in Seq(Utxo) /\ Unique(NewUtxos(Made, 0))
           /\ Ids(NewUtxos(Made, 0)) \subseteq (lastId + 1)..(lastId + Len(Made))
           /\ \A a : AmountOf(NewUtxos(Made, 0), a) = AmountIn(Made, a)
           /\ \A kind : /\ SentTo(kind) \in Seq(Utxo) /\ Unique(SentTo(kind))
                        /\ Ids(SentTo(kind)) \subseteq (lastId + Len(Made) + 1)..(lastId + Len(Made) + Len(tx.exported))
                        /\ \A a : AmountOf(SentTo(kind), a) = IF call.kind = kind THEN AmountIn(tx.exported, a) ELSE 0
                        /\ call.kind # kind => SentTo(kind) = <<>>
  <1>1. Made \in Seq(Output) /\ tx.exported \in Seq(Output) /\ lastId \in Nat
    BY ValidIs, PartsAre DEF Made, Inv, TypeOK
  <1> DEFINE outs == NewUtxos(Made, 0)
             n == Len(Made)
             others == NewUtxos(tx.exported, n)
  <1>2. n \in Nat /\ Len(tx.exported) \in Nat
    BY <1>1, LenProperties
  <1>3. /\ outs \in Seq(Utxo) /\ Unique(outs) /\ Ids(outs) \subseteq (lastId + 0 + 1)..(lastId + 0 + n)
        /\ \A a : AmountOf(outs, a) = AmountIn(Made, a)
    BY <1>1, NewAre
  <1> HIDE DEF outs, n
  <1>4. /\ others \in Seq(Utxo) /\ Unique(others)
        /\ Ids(others) \subseteq (lastId + n + 1)..(lastId + n + Len(tx.exported))
        /\ \A a : AmountOf(others, a) = AmountIn(tx.exported, a)
    BY <1>1, <1>2, NewAre
  <1>5. \A kind : SentTo(kind) = IF call.kind = kind THEN others ELSE <<>>
    BY DEF SentTo, n
  <1> HIDE DEF others
  <1>6. <<>> \in Seq(Utxo) /\ Unique(<<>>) /\ Ids(<<>>) = {} /\ \A a : AmountOf(<<>>, a) = 0
    BY EmptySeq, AmountEmpty DEF Unique, Ids, AmountOf
  <1>7. ASSUME NEW kind
        PROVE  /\ SentTo(kind) \in Seq(Utxo) /\ Unique(SentTo(kind))
               /\ Ids(SentTo(kind)) \subseteq (lastId + n + 1)..(lastId + n + Len(tx.exported))
               /\ \A a : AmountOf(SentTo(kind), a) = IF call.kind = kind THEN AmountIn(tx.exported, a) ELSE 0
               /\ call.kind # kind => SentTo(kind) = <<>>
    BY <1>4, <1>5, <1>6
  <1>8. Ids(outs) \subseteq (lastId + 1)..(lastId + n)
    BY <1>1, <1>2, <1>3
  <1>9. QED
    BY <1>1, <1>2, <1>3, <1>7, <1>8 DEF outs, n

\* A place after a transaction.
LEMMA PlaceAfter ==
    ASSUME NEW s \in Seq(Utxo), Unique(s), NEW gone, NEW ins \in Seq(Input), Takes(ins, s, gone),
           NEW new \in Seq(Utxo), Unique(new), Ids(s) \cap Ids(new) = {}
    PROVE  /\ Without(s, gone) \o new \in Seq(Utxo) /\ Unique(Without(s, gone) \o new)
           /\ Ids(Without(s, gone) \o new) = (Ids(s) \ gone) \cup Ids(new)
           /\ \A a : AmountOf(Without(s, gone) \o new, a) + AmountIn(ins, a) = AmountOf(s, a) + AmountOf(new, a)
  <1> DEFINE w == Without(s, gone)
  <1>1. w \in Seq(Utxo) /\ Ids(w) = Ids(s) \ gone /\ Unique(w)
    BY WithoutType, WithoutUnique
  <1>2. ASSUME NEW a
        PROVE  AmountOf(s, a) = AmountOf(w, a) + AmountIn(ins, a) /\ AmountOf(w, a) \in Int /\ AmountIn(ins, a) \in Int
    BY Removed
  <1> HIDE DEF w
  <1>3. ASSUME NEW a PROVE AmountOf(w \o new, a) = AmountOf(w, a) + AmountOf(new, a) /\ AmountOf(new, a) \in Nat
    BY <1>1, OfConcat, HeldIs
  <1>4. ASSUME NEW a PROVE AmountOf(w \o new, a) + AmountIn(ins, a) = AmountOf(s, a) + AmountOf(new, a)
    BY <1>2, <1>3
  <1>5. QED
    BY <1>1, <1>4, OfConcat, UniqueConcat DEF w

\* After a transaction: the ids that were known are not given again.
NewIds == (lastId + 1)..lastId'

\* The ids of new UTXOs are those after the newest.
LEMMA NewIdsAre ==
    ASSUME Inv, Accept
    PROVE  /\ lastId \in Nat /\ lastId' \in Nat /\ lastId <= lastId'
           /\ Ids(NewUtxos(Made, 0)) \subseteq (lastId + 1)..(lastId + Len(Made))
           /\ \A kind : Ids(SentTo(kind)) \subseteq (lastId + Len(Made) + 1)..lastId'
           /\ \A kind : Ids(NewUtxos(Made, 0)) \cap Ids(SentTo(kind)) = {}
           /\ Ids(NewUtxos(Made, 0)) \subseteq NewIds /\ \A kind : Ids(SentTo(kind)) \subseteq NewIds
           /\ \A i \in NewIds : i > lastId /\ i <= lastId'
           /\ SentTo("EvmExport") = <<>> \/ SentTo("Export") = <<>>
  <1> DEFINE m == Len(Made)
             n == Len(tx.exported)
             outs == Ids(NewUtxos(Made, 0))
             others(kind) == Ids(SentTo(kind))
  <1>1. /\ m \in Nat /\ n \in Nat /\ lastId \in Nat
        /\ outs \subseteq (lastId + 1)..(lastId + m)
        /\ \A kind : others(kind) \subseteq (lastId + m + 1)..(lastId + m + n)
    BY AcceptIs, NewIs
  <1>2. lastId' = lastId + m + n
    BY AcceptIs
  <1>3. SentTo("EvmExport") = <<>> \/ SentTo("Export") = <<>>
    BY AcceptIs, NewIs
  <1> HIDE DEF m, n, outs, others
  <1>4. lastId' \in Nat /\ lastId <= lastId'
    BY <1>1, <1>2
  <1>5. \A kind : others(kind) \subseteq (lastId + m + 1)..lastId'
    BY <1>1, <1>2
  <1>6. \A kind : outs \cap others(kind) = {}
    <2> SUFFICES ASSUME NEW kind, NEW i \in outs, i \in others(kind) PROVE FALSE
      OBVIOUS
    <2>1. QED
      BY <1>1
  <1>7. outs \subseteq NewIds
    <2> SUFFICES ASSUME NEW i \in outs PROVE i \in NewIds
      OBVIOUS
    <2>1. QED
      BY <1>1, <1>2 DEF NewIds
  <1>8. \A kind : others(kind) \subseteq NewIds
    <2> SUFFICES ASSUME NEW kind, NEW i \in others(kind) PROVE i \in NewIds
      OBVIOUS
    <2>1. QED
      BY <1>1, <1>2 DEF NewIds
  <1>9. \A i \in NewIds : i > lastId /\ i <= lastId'
    BY <1>1, <1>4 DEF NewIds
  <1>10. QED
    BY <1>1, <1>3, <1>4, <1>5, <1>6, <1>7, <1>8, <1>9 DEF m, outs, others

\* No UTXO has an id that is new.
LEMMA KnownIds ==
    ASSUME Inv
    PROVE  /\ \A i \in Ids(x) : i <= lastId
           /\ \A i \in Ids(toX) : i <= lastId
           /\ \A i \in Ids(toC) : i <= lastId
           /\ \A i \in Ids(utxoset) : i <= lastId
  BY DEF Inv, IdsKnown

\* What is left and what is new have no id in common.
LEMMA Apart ==
    ASSUME Inv, Accept, NEW s, \A i \in Ids(s) : i <= lastId, NEW new, Ids(new) \subseteq NewIds
    PROVE  Ids(s) \cap Ids(new) = {}
  <1> SUFFICES ASSUME NEW i \in Ids(s), i \in Ids(new) PROVE FALSE
    OBVIOUS
  <1>1. QED
    BY NewIdsAre DEF NewIds

\* The X-chain after a transaction.
LEMMA XAfter ==
    ASSUME Inv, Accept
    PROVE  /\ x' \in Seq(Utxo) /\ Unique(x') /\ Ids(x') = (Ids(x) \ Gone) \cup Ids(NewUtxos(Made, 0))
           /\ \A a : AmountOf(x', a) + AmountIn(tx.ins, a) = AmountOf(x, a) + AmountIn(Made, a)
  <1> DEFINE new == NewUtxos(Made, 0)
  <1>1. Built /\ Valid(tx) /\ x' = Without(x, Gone) \o new
    BY AcceptIs
  <1>2. new \in Seq(Utxo) /\ Unique(new) /\ (\A a : AmountOf(new, a) = AmountIn(Made, a)) /\ Ids(new) \subseteq NewIds
    BY <1>1, NewIs, NewIdsAre
  <1> HIDE DEF new
  <1>3. x \in Seq(Utxo) /\ Unique(x) /\ tx.ins \in Seq(Input) /\ Takes(tx.ins, x, Gone)
    BY <1>1, Places, TakesX, ValidIs, PartsAre
  <1>4. /\ Without(x, Gone) \o new \in Seq(Utxo) /\ Unique(Without(x, Gone) \o new)
        /\ Ids(Without(x, Gone) \o new) = (Ids(x) \ Gone) \cup Ids(new)
        /\ \A a : AmountOf(Without(x, Gone) \o new, a) + AmountIn(tx.ins, a) = AmountOf(x, a) + AmountOf(new, a)
    BY <1>2, <1>3, PlaceAfter, Apart, KnownIds
  <1>5. QED
    BY <1>1, <1>2, <1>4 DEF new

\* What is exported after a transaction: ins is what it takes from there.
After(s, t, ins, kind) ==
    /\ t \in Seq(Utxo) /\ Unique(t) /\ Ids(t) = (Ids(s) \ Gone) \cup Ids(SentTo(kind))
    /\ \A a : AmountOf(t, a) + AmountIn(ins, a) = AmountOf(s, a) + (IF call.kind = kind THEN AmountIn(tx.exported, a) ELSE 0)

\* What is exported to a chain after Accept: what was not imported, and what is new.
LEMMA SharedAfter ==
    ASSUME Inv, Accept, NEW s \in Seq(Utxo), Unique(s), \A i \in Ids(s) : i <= lastId,
           NEW ins \in Seq(Input), Takes(ins, s, Gone), NEW kind
    PROVE  After(s, Without(s, Gone) \o SentTo(kind), ins, kind)
  <1> DEFINE new == SentTo(kind)
  <1>1. /\ new \in Seq(Utxo) /\ Unique(new)
        /\ \A a : AmountOf(new, a) = IF call.kind = kind THEN AmountIn(tx.exported, a) ELSE 0
        /\ Ids(new) \subseteq NewIds
    BY AcceptIs, NewIs, NewIdsAre
  <1> HIDE DEF new
  <1>2. QED
    BY <1>1, PlaceAfter, Apart DEF After, new

\* Both, whatever the transaction imports from.
LEMMA BothAfter ==
    ASSUME Inv, Accept
    PROVE  /\ toX' \in Seq(Utxo) /\ Unique(toX') /\ Ids(toX') = (Ids(toX) \ Gone) \cup Ids(SentTo("EvmExport"))
           /\ toC' \in Seq(Utxo) /\ Unique(toC') /\ Ids(toC') = (Ids(toC) \ Gone) \cup Ids(SentTo("Export"))
           /\ \A a : AmountOf(toX', a) + AmountOf(toC', a) + AmountIn(tx.imports, a)
                         = AmountOf(toX, a) + AmountOf(toC, a) + AmountIn(tx.exported, a)
  <1>1. Built /\ Valid(tx) /\ toX' = Without(toX, Gone) \o SentTo("EvmExport") /\ toC' = Without(toC, Gone) \o SentTo("Export")
    BY AcceptIs
  <1>2. /\ toX \in Seq(Utxo) /\ toC \in Seq(Utxo) /\ Unique(toX) /\ Unique(toC)
        /\ \A i \in Ids(toX) : i <= lastId
        /\ \A i \in Ids(toC) : i <= lastId
    BY KnownIds DEF Inv, TypeOK, IdsDistinct
  <1>3. tx \in Tx /\ tx.imports \in Seq(Input) /\ <<>> \in Seq(Input) /\ Takes(tx.imports, Source(call), Gone)
        /\ Takes(<<>>, Other, Gone)
    BY <1>1, ValidIs, PartsAre, EmptySeq, TakesSource, TakesOther
  <1>4. \/ After(toX, toX', tx.imports, "EvmExport") /\ After(toC, toC', <<>>, "Export")
        \/ After(toX, toX', <<>>, "EvmExport") /\ After(toC, toC', tx.imports, "Export")
    BY <1>3, <1>1, <1>2, SharedAfter DEF Source, Other
  <1>5. ASSUME NEW a
        PROVE  AmountOf(toX', a) + AmountOf(toC', a) + AmountIn(tx.imports, a)
                   = AmountOf(toX, a) + AmountOf(toC, a) + AmountIn(tx.exported, a)
    <2> DEFINE p == AmountOf(toX, a)
               q == AmountOf(toX', a)
               r == AmountOf(toC, a)
               s == AmountOf(toC', a)
               e == AmountIn(tx.exported, a)
               i == AmountIn(tx.imports, a)
    <2>1. p \in Nat /\ q \in Nat /\ r \in Nat /\ s \in Nat /\ e \in Nat /\ i \in Nat
      BY <1>4, <1>2, <1>3, HeldIs, PartsAre DEF After
    <2>2. AmountIn(<<>>, a) = 0
      BY AmountEmpty
    <2>3. call.kind \notin {"Export", "EvmExport"} => e = 0
      BY <1>1, <2>2, ValidIs DEF Fits
    <2>4. \/ /\ q + i = p + (IF call.kind = "EvmExport" THEN e ELSE 0)
             /\ s + 0 = r + (IF call.kind = "Export" THEN e ELSE 0)
          \/ /\ q + 0 = p + (IF call.kind = "EvmExport" THEN e ELSE 0)
             /\ s + i = r + (IF call.kind = "Export" THEN e ELSE 0)
      BY <1>4, <2>2 DEF After
    <2> HIDE DEF p, q, r, s, e, i
    <2>5. q + s + i = p + r + e
      BY <2>1, <2>3, <2>4
    <2>6. QED
      BY <2>5 DEF p, q, r, s, e, i
  <1>6. QED
    BY <1>5, <1>4 DEF After

\* Accept keeps the types.
LEMMA AcceptTypes == Inv /\ Accept => TypeOK'
  <1> SUFFICES ASSUME Inv, Accept PROVE TypeOK'
    OBVIOUS
  <1>1. tx \in Tx /\ call \in Call
    BY AcceptIs, ValidIs, CallsAre
  <1>2. x' \in Seq(Utxo) /\ toX' \in Seq(Utxo) /\ toC' \in Seq(Utxo) /\ lastId' \in Nat
    BY XAfter, BothAfter, NewIdsAre
  <1>3. minted' \in [Asset -> Nat]
    <2>1. \A a \in Asset : minted[a] \in Nat /\ AmountIn(tx.states \o OpOuts(tx), a) \in Nat
      BY <1>1, PartsAre DEF Inv, TypeOK
    <2>2. \A a \in Asset : minted[a] + AmountIn(tx.states \o OpOuts(tx), a) \in Nat
      BY <2>1
    <2>3. QED
      BY <2>2, AcceptIs
  <1>4. account' \in [Asset -> Int]
    <2>1. \A a \in Asset : account[a] \in Int /\ AmountIn(tx.credited, a) \in Nat /\ AmountIn(tx.debited, a) \in Nat
      BY <1>1, PartsAre DEF Inv, TypeOK
    <2>2. \A a \in Asset : account[a] + AmountIn(tx.credited, a) - AmountIn(tx.debited, a) \in Int
      BY <2>1
    <2>3. QED
      BY <2>2, AcceptIs
  <1>5. paid' \in [Asset -> Nat]
    <2>1. \A a \in Asset : paid[a] \in Nat /\ Burns(call, tx, a) \in Nat
      BY <1>1, BurnsNat DEF Inv, TypeOK
    <2>2. \A a \in Asset : paid[a] + Burns(call, tx, a) \in Nat
      BY <2>1
    <2>3. QED
      BY <2>2, AcceptIs
  <1>6. /\ nonce' \in Nat /\ txs' \in Nat /\ utxoset' \in Seq(Utxo) /\ initial' \in Seq(Output)
        /\ call' \in Calls \cup {NoCall} /\ tx' \in Tx \cup {Failed, Undefined} /\ now' \in Nat
    BY AcceptIs DEF Inv, TypeOK
  <1>7. QED
    BY <1>2, <1>3, <1>4, <1>5, <1>6 DEF TypeOK

\* Accept keeps ids distinct and known, and what was fetched true.
LEMMA AcceptIds == Inv /\ Accept => IdsDistinct' /\ IdsKnown' /\ StaleButTrue'
  <1> SUFFICES ASSUME Inv, Accept PROVE IdsDistinct' /\ IdsKnown' /\ StaleButTrue'
    OBVIOUS
  <1> DEFINE new == Ids(NewUtxos(Made, 0))
             newX == Ids(SentTo("EvmExport"))
             newC == Ids(SentTo("Export"))
             idsX == Ids(x)
             idsToX == Ids(toX)
             idsToC == Ids(toC)
  <1>1. /\ Ids(x)' = (idsX \ Gone) \cup new
        /\ Ids(toX)' = (idsToX \ Gone) \cup newX
        /\ Ids(toC)' = (idsToC \ Gone) \cup newC
        /\ Unique(x)' /\ Unique(toX)' /\ Unique(toC)'
    BY XAfter, BothAfter
  <1>2. /\ new \cap newX = {} /\ new \cap newC = {}
        /\ new \subseteq NewIds /\ newX \subseteq NewIds /\ newC \subseteq NewIds
        /\ \A i \in NewIds : i > lastId /\ i <= lastId'
        /\ newX = {} \/ newC = {}
        /\ lastId \in Nat /\ lastId' \in Nat /\ lastId <= lastId'
    <2>1. Ids(<<>>) = {}
      BY EmptySeq DEF Ids
    <2>2. QED
      BY <2>1, NewIdsAre
  <1>3. /\ \A i \in idsX : i \in Nat /\ i <= lastId
        /\ \A i \in idsToX : i \in Nat /\ i <= lastId
        /\ \A i \in idsToC : i \in Nat /\ i <= lastId
        /\ \A i \in Ids(utxoset) : i \in Nat /\ i <= lastId
    <2>1. \A s \in Seq(Utxo) : \A i \in Ids(s) : i \in Nat
      <3> SUFFICES ASSUME NEW s \in Seq(Utxo), NEW k \in DOMAIN s PROVE s[k].id \in Nat
        BY DEF Ids
      <3>1. s[k] \in Utxo
        BY LenProperties
      <3>2. QED
        BY <3>1 DEF Utxo
    <2>2. QED
      BY <2>1, KnownIds DEF Inv, TypeOK
  <1>4. idsX \cap idsToX = {} /\ idsX \cap idsToC = {} /\ idsToX \cap idsToC = {}
    BY DEF Inv, IdsDistinct
  <1> HIDE DEF new, newX, newC, idsX, idsToX, idsToC
  <1>5. \A i \in NewIds : i \notin idsX /\ i \notin idsToX /\ i \notin idsToC
    <2> SUFFICES ASSUME NEW i \in NewIds, i \in (idsX \cup idsToX) \cup idsToC PROVE FALSE
      OBVIOUS
    <2>1. QED
      BY <1>2, <1>3
  <1>6. IdsKnown'
    <2>1. Ids(utxoset)' = Ids(utxoset)
      BY AcceptIs, Zenon DEF Ids
    <2>2. \A i \in ((idsX \cup idsToX) \cup idsToC) \cup Ids(utxoset) : i <= lastId'
      <3> SUFFICES ASSUME NEW i \in ((idsX \cup idsToX) \cup idsToC) \cup Ids(utxoset) PROVE i <= lastId'
        OBVIOUS
      <3>1. QED
        BY <1>2, <1>3
    <2>3. QED
      BY <1>1, <1>2, <2>1, <2>2 DEF IdsKnown
  <1>7. StaleButTrue'
    <2>1. utxoset' = utxoset /\ x' = Without(x, Gone) \o NewUtxos(Made, 0)
      BY AcceptIs
    <2> SUFFICES ASSUME NEW u \in ToSet(utxoset), NEW v \in ToSet(x'), u.id = v.id PROVE u = v
      BY <2>1 DEF StaleButTrue
    <2>2. Without(x, Gone) \in Seq(Utxo) /\ NewUtxos(Made, 0) \in Seq(Utxo)
      BY AcceptIs, NewIs, WithoutType DEF Inv, TypeOK
    <2>3. ToSet(x') = ToSet(Without(x, Gone)) \cup ToSet(NewUtxos(Made, 0))
      BY <2>1, <2>2, OfConcat
    <2>4. v \notin ToSet(NewUtxos(Made, 0))
      BY <1>3, <1>2 DEF ToSet, Ids, new, NewIds
    <2>5. QED
      BY <2>2, <2>3, <2>4, WithoutType DEF Inv, StaleButTrue, TypeOK
  <1>8. QED
    BY <1>6, <1>7, <1>1, <1>2, <1>4, <1>5 DEF IdsDistinct

\* Accept takes from the UTXOs and the account what it puts back, and what is burned.
LEMMA AcceptConserves == Inv /\ Accept => Conserved'
  <1> SUFFICES ASSUME Inv, Accept, NEW a \in Asset
               PROVE  AmountOf(x', a) + AmountOf(toX', a) + AmountOf(toC', a) + account'[a] + paid'[a]
                          = AmountOf(Genesis, a) + Funded[a] + minted'[a]
    BY DEF Conserved
  <1> DEFINE ins == AmountIn(tx.ins, a)
             imports == AmountIn(tx.imports, a)
             outs == AmountIn(tx.outs, a)
             exported == AmountIn(tx.exported, a)
             made == AmountIn(tx.states \o OpOuts(tx), a)
             credited == AmountIn(tx.credited, a)
             debited == AmountIn(tx.debited, a)
             burned == Burns(call, tx, a)
             atX == AmountOf(x, a)
             forX == AmountOf(toX, a)
             forC == AmountOf(toC, a)
             atX1 == AmountOf(x', a)
             forX1 == AmountOf(toX', a)
             forC1 == AmountOf(toC', a)
             total == AmountOf(Genesis, a) + Funded[a]
  <1>1. tx \in Tx /\ call \in Call /\ call.kind # "EvmUtxoExport" /\ Fits(call, utxoset, Source(call), tx)
    BY AcceptIs, ValidIs, CallsAre
  <1>2. /\ ins \in Nat /\ imports \in Nat /\ outs \in Nat /\ exported \in Nat /\ made \in Nat
        /\ credited \in Nat /\ debited \in Nat /\ burned \in Nat
        /\ AmountIn(Made, a) = outs + made
    BY <1>1, PartsAre, BurnsNat DEF Made
  <1>3. atX \in Nat /\ forX \in Nat /\ forC \in Nat /\ atX1 \in Nat /\ forX1 \in Nat /\ forC1 \in Nat
    BY XAfter, BothAfter, HeldIs DEF Inv, TypeOK
  <1>4. atX1 + ins = atX + (outs + made)
    BY <1>2, XAfter
  <1>5. forX1 + forC1 + imports = forX + forC + exported
    BY BothAfter
  <1>6. ins + imports + debited = (outs + exported + credited) + burned
    BY <1>1 DEF Fits, InTotal, OutTotal
  <1>7. /\ account[a] \in Int /\ paid[a] \in Nat /\ minted[a] \in Nat /\ total \in Nat
    BY GenesisAssumption, HeldIs DEF Inv, TypeOK
  <1>8. /\ account'[a] = account[a] + credited - debited
        /\ paid'[a] = paid[a] + burned
        /\ minted'[a] = minted[a] + made
    BY AcceptIs
  <1>9. atX + forX + forC + account[a] + paid[a] = total + minted[a]
    BY DEF Inv, Conserved
  <1> HIDE DEF ins, imports, outs, exported, made, credited, debited, burned, atX, forX, forC, atX1, forX1, forC1, total
  <1>10. atX1 + forX1 + forC1 + account'[a] + paid'[a] = total + minted'[a]
    BY <1>2, <1>3, <1>4, <1>5, <1>6, <1>7, <1>8, <1>9
  <1>11. QED
    BY <1>10 DEF atX1, forX1, forC1, total

\* Accepting a transaction that fits its call keeps the invariant.
LEMMA AcceptKeeps == Inv /\ Accept => Inv'
  <1> SUFFICES ASSUME Inv, Accept PROVE Inv'
    OBVIOUS
  <1>1. QED
    BY AcceptTypes, AcceptIds, AcceptConserves, AcceptIs DEF Inv, TxFits, Built

-----------------------------------------------------------------------------
\* A step that changes nothing keeps the invariant.
LEMMA StutterKeeps == Inv /\ UNCHANGED vars => Inv'
  <1> SUFFICES ASSUME Inv, UNCHANGED vars PROVE Inv'
    OBVIOUS
  <1>1. /\ x' = x /\ toX' = toX /\ toC' = toC /\ account' = account /\ nonce' = nonce /\ minted' = minted
        /\ paid' = paid /\ lastId' = lastId /\ txs' = txs /\ utxoset' = utxoset /\ initial' = initial
        /\ call' = call /\ tx' = tx /\ now' = now
    BY DEF vars
  <1>2. TypeOK'
    BY <1>1 DEF Inv, TypeOK
  <1>3. Ids(x)' = Ids(x) /\ Ids(toX)' = Ids(toX) /\ Ids(toC)' = Ids(toC) /\ Ids(utxoset)' = Ids(utxoset)
    BY <1>1, Zenon DEF Ids
  <1>4. IdsDistinct'
    <2>1. Unique(x)' /\ Unique(toX)' /\ Unique(toC)'
      BY <1>1, Zenon DEF Inv, IdsDistinct, Unique
    <2>2. QED
      BY <1>3, <2>1 DEF Inv, IdsDistinct
  <1>5. IdsKnown'
    BY <1>1, <1>3 DEF Inv, IdsKnown
  <1>6. StaleButTrue'
    BY <1>1 DEF Inv, StaleButTrue
  <1>7. TxFits'
    BY <1>1 DEF Source, Inv, TxFits, Built
  <1>8. Conserved'
    BY <1>1 DEF Inv, Conserved
  <1>9. QED
    BY <1>2, <1>4, <1>5, <1>6, <1>7, <1>8 DEF Inv

(* Every step keeps the invariant: a function of the builders makes a transaction
   that fits its call, and a transaction that fits moves all that it takes. *)
THEOREM InvInductive == Inv /\ [Next]_vars => Inv'
  <1> SUFFICES ASSUME Inv, [Next]_vars PROVE Inv'
    OBVIOUS
  <1>1. CASE Base
    BY <1>1, BaseKeeps
  <1>2. CASE Export
    BY <1>2, ExportKeeps
  <1>3. CASE SECPMint
    BY <1>3, SECPMintKeeps
  <1>4. CASE CreateNFTAsset
    BY <1>4, CreateNFTAssetKeeps
  <1>5. CASE CreateNFTMint
    BY <1>5, CreateNFTMintKeeps
  <1>6. CASE NFTTransfer
    BY <1>6, NFTTransferKeeps
  <1>7. CASE Import
    BY <1>7, ImportKeeps
  <1>8. CASE CreateAsset
    BY <1>8, CreateAssetKeeps
  <1>9. CASE EvmImport
    BY <1>9, EvmImportKeeps
  <1>10. CASE EvmExport
    BY <1>10, EvmExportKeeps
  <1>11. CASE EvmUtxoExport
    BY <1>11, EvmUtxoExportKeeps
  <1>12. CASE FetchUTXOs
    BY <1>12, FetchKeeps
  <1>13. CASE Accept
    BY <1>13, AcceptKeeps
  <1>14. CASE Refuse
    BY <1>14, RefuseKeeps
  <1>15. CASE Tick
    BY <1>15, TickKeeps
  <1>16. CASE UNCHANGED vars
    BY <1>16, StutterKeeps
  <1>17. QED
    BY <1>1, <1>2, <1>3, <1>4, <1>5, <1>6, <1>7, <1>8, <1>9, <1>10, <1>11, <1>12, <1>13, <1>14, <1>15, <1>16 DEF Next

\* The invariant holds in every state.
THEOREM InvHolds == Spec => []Inv
  <1>1. QED
    BY InitInv, InvInductive, PTL DEF Spec

(* Whatever the calls, the UTXOs, the fees and the order in which the node gives its
   UTXOs, nothing is lost or made of any asset but what operations mint and what
   a call burns: what buildBaseTx, buildImportTx and the other functions select,
   split and give back as change comes from their inputs. *)
THEOREM Conservation == Spec => []Conserved
  <1>1. Inv => Conserved
    BY DEF Inv
  <1>2. QED
    BY <1>1, InvHolds, PTL

\* All variables keep their types: an account is an integer, everything else is natural.
THEOREM TypeCorrect == Spec => []TypeOK
  <1>1. Inv => TypeOK
    BY DEF Inv
  <1>2. QED
    BY <1>1, InvHolds, PTL

(* A UTXO is in one place, under one id, and one that was fetched before and is
   still there is what it was: building from UTXOs that are stale can fail to be
   accepted, but never spends another UTXO than the one it saw. *)
THEOREM StaleUtxosAreTrue == Spec => [](IdsDistinct /\ StaleButTrue)
  <1>1. Inv => IdsDistinct /\ StaleButTrue
    BY DEF Inv
  <1>2. QED
    BY <1>1, InvHolds, PTL

-----------------------------------------------------------------------------
\* Signatures.

\* The signature of the i-th address of an output
SigOf(out, i) == [idx |-> i - 1, source |-> out.addresses[i]]

SigRow(out, addresses, i) ==
    [j \in DOMAIN addresses |->
        IF addresses[j] = out.addresses[i] THEN <<[idx |-> i - 1, source |-> addresses[j]]>> ELSE <<>>]

SigRows(out, addresses) == [i \in DOMAIN out.addresses |-> FlattenSeq(SigRow(out, addresses, i))]

\* The rows of the signatures of an output, one for each of its addresses.
LEMMA RowsAre ==
    ASSUME NEW out \in Output, NEW addresses \in Seq(Nat)
    PROVE  /\ QualifiedFor(out, addresses) = FlattenSeq(SigRows(out, addresses))
           /\ SigRows(out, addresses) \in Seq(Seq(Sig)) /\ Len(SigRows(out, addresses)) = Len(out.addresses)
           /\ Len(out.addresses) \in Nat /\ DOMAIN out.addresses = 1..Len(out.addresses)
           /\ DOMAIN SigRows(out, addresses) = 1..Len(out.addresses)
           /\ \A i \in DOMAIN out.addresses :
                 /\ SigRow(out, addresses, i) \in Seq(Seq(Sig))
                 /\ Len(SigRow(out, addresses, i)) = Len(addresses)
                 /\ SigRows(out, addresses)[i] = FlattenSeq(SigRow(out, addresses, i))
  <1> DEFINE m == Len(out.addresses)
             n == Len(addresses)
             rows == SigRows(out, addresses)
  <1>1. m \in Nat /\ DOMAIN out.addresses = 1..m /\ \A i \in 1..m : out.addresses[i] \in Nat
    BY LenProperties DEF Output
  <1>2. n \in Nat /\ DOMAIN addresses = 1..n /\ \A j \in 1..n : addresses[j] \in Nat
    BY LenProperties
  <1> HIDE DEF m, n
  <1>3. ASSUME NEW i \in 1..m
        PROVE  SigRow(out, addresses, i) \in Seq(Seq(Sig)) /\ Len(SigRow(out, addresses, i)) = n
    <2> DEFINE row == SigRow(out, addresses, i)
    <2>1. ASSUME NEW j \in 1..n PROVE row[j] \in Seq(Sig)
      <3>1. [idx |-> i - 1, source |-> addresses[j]] \in Sig
        BY <1>1, <1>2 DEF Sig
      <3>2. QED
        BY <3>1, <1>2, EmptySeq DEF SigRow
    <2>2. DOMAIN row = 1..n /\ row = [j \in 1..n |-> row[j]]
      BY <1>2 DEF SigRow
    <2> HIDE DEF row
    <2>3. QED
      BY <1>2, <2>1, <2>2, MapSeq DEF row
  <1>4. ASSUME NEW i \in 1..m PROVE rows[i] = FlattenSeq(SigRow(out, addresses, i)) /\ rows[i] \in Seq(Sig)
    <2>1. rows[i] = FlattenSeq(SigRow(out, addresses, i))
      BY <1>1 DEF SigRows
    <2>2. SigRow(out, addresses, i) \in Seq(Seq(Sig))
      BY <1>3
    <2> DEFINE row == SigRow(out, addresses, i)
    <2> HIDE DEF row
    <2>3. QED
      BY <2>1, <2>2, FlatType DEF row
  <1>5. DOMAIN rows = 1..m /\ rows = [i \in 1..m |-> rows[i]]
    BY <1>1 DEF SigRows
  <1>6. QualifiedFor(out, addresses) = FlattenSeq(rows)
    BY DEF QualifiedFor, SigRows, SigRow
  <1> HIDE DEF rows
  <1>7. rows \in Seq(Seq(Sig)) /\ Len(rows) = m
    BY <1>1, <1>4, <1>5, MapSeq
  <1>8. QED
    BY <1>1, <1>3, <1>4, <1>5, <1>6, <1>7 DEF m, n, rows

\* Every address that is given and is one of the output has a signature.
LEMMA QualifiedCovers ==
    ASSUME NEW out \in Output, NEW addresses \in Seq(Nat)
    PROVE  /\ Cardinality(ToSet(out.addresses) \cap ToSet(addresses)) <= Len(QualifiedFor(out, addresses))
           /\ Len(QualifiedFor(out, addresses)) \in Nat
  <1> DEFINE q == QualifiedFor(out, addresses)
             rows == SigRows(out, addresses)
             n == Len(q)
             common == ToSet(out.addresses) \cap ToSet(addresses)
  <1>1. q = FlattenSeq(rows) /\ rows \in Seq(Seq(Sig)) /\ DOMAIN rows = DOMAIN out.addresses
    BY RowsAre
  <1>2. \A i \in DOMAIN out.addresses : rows[i] = FlattenSeq(SigRow(out, addresses, i))
                                        /\ SigRow(out, addresses, i) \in Seq(Seq(Sig))
    BY RowsAre
  <1> HIDE DEF rows
  <1>3. q \in Seq(Sig) /\ ToSet(q) = UNION {ToSet(rows[i]) : i \in DOMAIN rows}
    BY <1>1, FlatType
  <1> HIDE DEF q
  <1>4. n \in Nat /\ DOMAIN q = 1..n
    BY <1>3, LenProperties
  <1>5. ASSUME NEW e \in common PROVE \E k \in 1..n : q[k].source = e
    <2>1. PICK i \in DOMAIN out.addresses : out.addresses[i] = e
      BY DEF ToSet
    <2>2. PICK j \in DOMAIN addresses : addresses[j] = e
      BY DEF ToSet
    <2> DEFINE row == SigRow(out, addresses, i)
               sig == [idx |-> i - 1, source |-> e]
    <2>3. row[j] = <<sig>> /\ j \in DOMAIN row
      BY <2>1, <2>2 DEF SigRow
    <2>4. row \in Seq(Seq(Sig)) /\ rows[i] = FlattenSeq(row)
      BY <1>2, <2>1
    <2>5. sig.source = e
      OBVIOUS
    <2> HIDE DEF row, sig
    <2>6. sig \in ToSet(row[j])
      BY <2>3 DEF ToSet
    <2>7. sig \in ToSet(q)
      BY <1>1, <1>3, <2>1, <2>3, <2>4, <2>6, FlatType
    <2>8. QED
      BY <1>4, <2>5, <2>7 DEF ToSet
  <1> HIDE DEF n, common
  <1>6. Cardinality(common) <= n
    <2>1. CASE common = {}
      BY <1>4, <2>1, FS_EmptySet
    <2>2. CASE common # {}
      <3>1. PICK d : d \in common
        BY <2>2
      <3> DEFINE f == [k \in 1..n |-> IF q[k].source \in common THEN q[k].source ELSE d]
      <3>2. f \in Surjection(1..n, common)
        <4>1. f \in [1..n -> common]
          BY <3>1
        <4>2. \A e \in common : \E k \in 1..n : f[k] = e
          BY <1>5
        <4> HIDE DEF f
        <4>3. QED
          BY <4>1, <4>2 DEF Surjection
      <3>3. QED
        BY <1>4, <3>2, FS_SurjCardinalityBound DEF ExistsSurjection
    <2>3. QED
      BY <2>1, <2>2
  <1>7. QED
    BY <1>4, <1>6 DEF n, q, common

\* Who can spend a UTXO meets its threshold.
LEMMA CanSpendMeets ==
    ASSUME NEW u \in Utxo, NEW c, c.from \in Seq(Nat), NEW time \in Nat, CanSpend(c, time, u)
    PROVE  MeetsThreshold(u.out, c.from, time) /\ u.out.kind = "transfer"
  <1> DEFINE q == QualifiedFor(u.out, c.from)
             n == Len(q)
             t == u.out.threshold
             m == IF n < t THEN n ELSE t
  <1>1. u.out \in Output
    BY DEF Utxo
  <1>2. t \in Nat /\ u.out.locktime \in Nat
    BY <1>1 DEF Output
  <1>3. n \in Nat /\ Cardinality(ToSet(u.out.addresses) \cap ToSet(c.from)) <= n
    BY <1>1, QualifiedCovers
  <1>4. q \in Seq(Sig)
    BY <1>1, QualifiedType
  <1>5. u.out.locktime < time /\ u.out.kind = "transfer"
        /\ Cardinality(ToSet(u.out.addresses) \cap ToSet(c.from)) >= t
    BY DEF CanSpend
  <1>6. IsFiniteSet(ToSet(c.from)) /\ Cardinality(ToSet(u.out.addresses) \cap ToSet(c.from)) \in Nat
    <2>1. IsFiniteSet(ToSet(c.from))
      <3>1. IsFiniteSet(DOMAIN c.from)
        BY FS_Interval, LenProperties
      <3>2. ToSet(c.from) = {c.from[k] : k \in DOMAIN c.from}
        BY DEF ToSet
      <3> DEFINE D == DOMAIN c.from
                 T == ToSet(c.from)
                 f == [k \in D |-> c.from[k]]
      <3>3. f \in Surjection(D, T)
        BY <3>2 DEF Surjection
      <3> HIDE DEF f, D, T
      <3>4. QED
        BY <3>1, <3>3, FS_Surjection DEF T, D
    <2>2. QED
      BY <2>1, FS_Intersection, FS_CardinalityType
  <1>7. n >= t
    BY <1>2, <1>3, <1>5, <1>6
  <1>8. GetSpenders(u.out, c.from, time) = SubSeq(q, 1, m)
    BY <1>2, <1>5 DEF GetSpenders
  <1>9. m = t
    BY <1>2, <1>3, <1>7
  <1> HIDE DEF q
  <1>10. Len(SubSeq(q, 1, t)) = t
    BY <1>4, <1>2, <1>7, LenProperties, SubSeqProperties
  <1>11. QED
    BY <1>2, <1>5, <1>8, <1>9, <1>10 DEF MeetsThreshold

\* Addresses that are given once give one signature for an address of the output.
LEMMA RowIs ==
    ASSUME NEW out \in Output, NEW addresses \in Seq(Nat), ~Repeats(addresses), NEW i \in DOMAIN out.addresses
    PROVE  FlattenSeq(SigRow(out, addresses, i)) \in {<<>>, <<SigOf(out, i)>>}
  <1> DEFINE row == SigRow(out, addresses, i)
             sig == SigOf(out, i)
             UpTo(n) == \E j \in DOMAIN addresses : j <= n /\ addresses[j] = out.addresses[i]
             G == {p \in Nat \X Seq(Sig) : p[2] = <<>> \/ (p[2] = <<sig>> /\ UpTo(p[1]))}
  <1>1. row \in Seq(Seq(Sig)) /\ Len(row) = Len(addresses)
    BY RowsAre
  <1>2. Len(addresses) \in Nat /\ DOMAIN addresses = 1..Len(addresses)
    BY LenProperties
  <1>3. \A n \in DOMAIN addresses : row[n] = IF addresses[n] = out.addresses[i] THEN <<sig>> ELSE <<>>
    BY DEF SigRow, SigOf
  <1>4. sig \in Sig
    BY LenProperties DEF Output, SigOf, Sig
  <1> HIDE DEF row, sig
  <1>5. <<0, <<>>>> \in G
    BY EmptySeq
  <1>6. ASSUME NEW n \in 1..Len(row), NEW s \in Seq(Sig), <<n - 1, s>> \in G
        PROVE  <<n, s \o row[n]>> \in G
    <2>1. n \in DOMAIN addresses /\ n \in Nat
      BY <1>1, <1>2
    <2>2. s = <<>> \/ (s = <<sig>> /\ UpTo(n - 1))
      BY <1>6
    <2>3. <<>> \in Seq(Sig) /\ <<sig>> \in Seq(Sig) /\ s \o <<>> = s
      BY <1>4, EmptySeq, ConcatEmptySeq
    <2>4. CASE addresses[n] # out.addresses[i]
      <3>1. UpTo(n - 1) => UpTo(n)
        BY <1>2, <2>1
      <3>2. QED
        BY <2>1, <2>2, <3>1, <1>3, <2>3, <2>4
    <2>5. CASE addresses[n] = out.addresses[i]
      <3>1. ~UpTo(n - 1)
        <4> SUFFICES ASSUME NEW j \in DOMAIN addresses, j <= n - 1, addresses[j] = out.addresses[i] PROVE FALSE
          OBVIOUS
        <4>1. QED
          BY <2>1, <2>5, <1>2 DEF Repeats
      <3>2. s \o row[n] = <<sig>>
        BY <1>3, <2>1, <2>3, <2>5, <2>2, <3>1, ConcatEmptySeq
      <3>3. UpTo(n)
        BY <2>1, <2>5
      <3>4. QED
        BY <2>1, <2>3, <3>2, <3>3
    <2>6. QED
      BY <2>4, <2>5
  <1> DEFINE flat == FlattenSeq(row)
             l == Len(row)
  <1>7. <<l, flat>> \in G
    <2> HIDE DEF G
    <2>1. QED
      BY <1>1, <1>5, <1>6, FlatInduction
  <1>8. flat \in {<<>>, <<sig>>}
    <2> HIDE DEF flat, l
    <2>1. QED
      BY <1>7
  <1>9. QED
    BY <1>8 DEF row, sig

\* Each signature is of the address it is for, and they are in the order of the addresses.
InOrder(out, sigs) ==
    /\ \A i \in DOMAIN sigs : sigs[i].idx + 1 \in DOMAIN out.addresses
                              /\ sigs[i].source = out.addresses[sigs[i].idx + 1]
    /\ \A i, j \in DOMAIN sigs : i < j => sigs[i].idx < sigs[j].idx

\* Signatures of the first addresses stay in order with one of the next address.
LEMMA InOrderAppend ==
    ASSUME NEW out \in Output, NEW n \in Nat, n + 1 \in DOMAIN out.addresses, NEW s \in Seq(Sig),
           InOrder(out, s), \A k \in DOMAIN s : s[k].idx < n
    PROVE  /\ InOrder(out, s \o <<SigOf(out, n + 1)>>)
           /\ \A k \in DOMAIN (s \o <<SigOf(out, n + 1)>>) : (s \o <<SigOf(out, n + 1)>>)[k].idx < n + 1
  <1> DEFINE sig == SigOf(out, n + 1)
             t == s \o <<sig>>
             l == Len(s)
  <1>1. sig \in Sig /\ sig.idx = n /\ sig.source = out.addresses[n + 1]
    <2>1. out.addresses \in Seq(Nat)
      BY DEF Output
    <2> DEFINE source == out.addresses[n + 1]
    <2>2. source \in Nat
      BY <2>1, LenProperties
    <2>3. sig = [idx |-> n, source |-> source]
      BY DEF SigOf
    <2> HIDE DEF sig, source
    <2>4. QED
      BY <2>2, <2>3 DEF Sig, source
  <1> HIDE DEF sig
  <1>2. l \in Nat /\ DOMAIN s = 1..l /\ \A k \in 1..l : s[k] \in Sig
    BY LenProperties
  <1>3. t \in Seq(Sig) /\ Len(t) = l + 1 /\ \A k \in 1..(l + 1) : t[k] = IF k <= l THEN s[k] ELSE <<sig>>[k - l]
    BY <1>2, <1>1, ConcatProperties
  <1> HIDE DEF l, t
  <1>4. DOMAIN t = 1..(l + 1)
    BY <1>3, LenProperties
  <1>5. t[l + 1] = sig /\ \A k \in 1..l : t[k] = s[k]
    BY <1>2, <1>3
  <1>6. \A k \in 1..l : s[k].idx \in Nat /\ s[k].idx < n
    BY <1>2 DEF Sig
  <1>7. ASSUME NEW k \in DOMAIN t
        PROVE  t[k].idx + 1 \in DOMAIN out.addresses /\ t[k].source = out.addresses[t[k].idx + 1] /\ t[k].idx < n + 1
    BY <1>1, <1>5, <1>2, <1>4, <1>6 DEF InOrder
  <1>8. ASSUME NEW i \in DOMAIN t, NEW j \in DOMAIN t, i < j PROVE t[i].idx < t[j].idx
    BY <1>2, <1>4, <1>5, <1>8, <1>1, <1>6 DEF InOrder
  <1>9. QED
    BY <1>7, <1>8 DEF InOrder, t, sig

\* Signatures of addresses that are given once are in order.
LEMMA QualifiedInOrder ==
    ASSUME NEW out \in Output, NEW addresses \in Seq(Nat), ~Repeats(addresses)
    PROVE  InOrder(out, QualifiedFor(out, addresses))
  <1> DEFINE rows == SigRows(out, addresses)
             q == QualifiedFor(out, addresses)
             Below(n, s) == InOrder(out, s) /\ \A k \in DOMAIN s : s[k].idx < n
             G == {p \in Nat \X Seq(Sig) : Below(p[1], p[2])}
  <1>1. q = FlattenSeq(rows) /\ rows \in Seq(Seq(Sig)) /\ Len(rows) = Len(out.addresses)
        /\ Len(out.addresses) \in Nat /\ DOMAIN out.addresses = 1..Len(out.addresses)
    BY RowsAre
  <1>2. ASSUME NEW n \in 1..Len(out.addresses) PROVE rows[n] \in {<<>>, <<SigOf(out, n)>>}
    BY <1>1, RowsAre, RowIs
  <1> HIDE DEF rows, q
  <1>3. <<0, <<>>>> \in G
    <2>1. Below(0, <<>>)
      BY DEF InOrder
    <2>2. QED
      BY <2>1, EmptySeq
  <1>4. ASSUME NEW n \in 1..Len(rows), NEW s \in Seq(Sig), <<n - 1, s>> \in G
        PROVE  <<n, s \o rows[n]>> \in G
    <2>1. n \in 1..Len(out.addresses) /\ n \in Nat /\ n - 1 \in Nat
      BY <1>1
    <2>2. InOrder(out, s) /\ \A k \in DOMAIN s : s[k].idx < n - 1
      BY <1>4
    <2>3. CASE rows[n] = <<>>
      <3>1. \A k \in DOMAIN s : s[k].idx < n
        <4>1. \A k \in DOMAIN s : s[k].idx \in Nat
          <5>1. \A k \in DOMAIN s : s[k] \in Sig
            BY LenProperties
          <5>2. QED
            BY <5>1 DEF Sig
        <4>2. QED
          BY <2>1, <2>2, <4>1
      <3>2. QED
        BY <2>1, <2>2, <3>1, <2>3, ConcatEmptySeq
    <2>4. CASE rows[n] = <<SigOf(out, n)>>
      <3> DEFINE m == n - 1
                 t == s \o <<SigOf(out, m + 1)>>
      <3>1. m \in Nat /\ m + 1 = n /\ m + 1 \in DOMAIN out.addresses
        BY <1>1, <2>1
      <3> HIDE DEF m
      <3>2. InOrder(out, t) /\ \A k \in DOMAIN t : t[k].idx < m + 1
        BY <3>1, <2>2, InOrderAppend DEF m
      <3>3. t \in Seq(Sig)
        BY <3>1, ConcatProperties, LenProperties DEF Output, SigOf, Sig
      <3>4. s \o rows[n] = t
        BY <2>4, <3>1
      <3> HIDE DEF t
      <3>5. QED
        BY <2>1, <3>1, <3>2, <3>3, <3>4
    <2>5. QED
      BY <1>2, <2>1, <2>3, <2>4
  <1> DEFINE l == Len(rows)
  <1>5. <<l, q>> \in G
    <2> HIDE DEF G
    <2>1. QED
      BY <1>1, <1>3, <1>4, FlatInduction
  <1>6. QED
    <2> HIDE DEF l
    <2>1. QED
      BY <1>5 DEF q

-----------------------------------------------------------------------------
\* The loop over the UTXOs, step by step.

\* The results of the loop after each number of UTXOs
Loop(utxos, aad, time, h) ==
    /\ h[0] = SelectStart(aad)
    /\ \A n \in 1..Len(utxos) : h[n] = Consume(aad, time, h[n - 1], utxos[n])
    /\ h[Len(utxos)] = Selected(utxos, aad, time)

\* The selection is the last of a sequence of results.
LEMMA SelectLoop ==
    ASSUME NEW utxos \in Seq(Utxo), NEW aad, NEW time
    PROVE  \E h : Loop(utxos, aad, time, h)
  <1> DEFINE D == DOMAIN utxos
             g == CHOOSE f : IsSelect(utxos, aad, time, f)
             l == Len(utxos)
             h == [n \in 0..l |-> g[1..n]]
  <1>1. l \in Nat /\ D = 1..l
    BY LenProperties
  <1>2. IsFiniteSet(D) /\ D \subseteq Nat
    BY <1>1, FS_Interval
  <1>3. IsSelect(utxos, aad, time, g)
    BY <1>2, SelectExists
  <1>4. Selected(utxos, aad, time) = g[D]
    BY SelectUnfold
  <1> HIDE DEF g
  <1>5. \A s \in SUBSET D : SelectAt(utxos, aad, time, g, s)
    BY <1>3 DEF IsSelect, SelectAt
  <1> HIDE DEF l
  <1>6. \A n \in 0..l : h[n] = g[1..n]
    OBVIOUS
  <1>7. h[0] = SelectStart(aad)
    <2>1. 1..0 = {} /\ {} \in SUBSET D
      OBVIOUS
    <2>2. g[{}] = SelectStart(aad)
      BY <1>5 DEF SelectAt
    <2>3. h[0] = g[1..0]
      BY <1>1, <1>6
    <2>4. QED
      BY <2>1, <2>2, <2>3, Zenon
  <1>8. ASSUME NEW n \in 1..l PROVE h[n] = Consume(aad, time, h[n - 1], utxos[n])
    <2> DEFINE m == n - 1
    <2>1. m \in Nat /\ m + 1 = n /\ m \in 0..l /\ n \in 0..l
      BY <1>1
    <2> HIDE DEF m
    <2>2. SelectAt(utxos, aad, time, g, 1..(m + 1))
      BY <1>5, <1>1, <2>1
    <2>3. 1..(m + 1) # {} /\ Max(1..(m + 1)) = m + 1 /\ (1..(m + 1)) \ {m + 1} = 1..m
      BY <2>1, LastIndex
    <2>4. g[1..(m + 1)] = Consume(aad, time, g[1..m], utxos[m + 1])
      BY <2>2, <2>3, Zenon DEF SelectAt
    <2>5. QED
      BY <2>1, <2>4, <1>6 DEF m
  <1>9. h[l] = Selected(utxos, aad, time)
    BY <1>1, <1>6, <1>4
  <1> HIDE DEF h
  <1>10. QED
    BY <1>7, <1>8, <1>9 DEF Loop, l

\* Each result of the loop is what SelectInv says.
LEMMA LoopFacts ==
    ASSUME NEW utxos \in Seq(Utxo), NEW aad, WellAsked(aad), NEW time, NEW h, Loop(utxos, aad, time, h)
    PROVE  \A n \in 0..Len(utxos) : SelectInv(utxos, aad, h[n])
  <1> DEFINE l == Len(utxos)
             G == {n \in 0..l : SelectInv(utxos, aad, h[n])}
  <1>1. l \in Nat /\ DOMAIN utxos = 1..l
    BY LenProperties
  <1>2. h[0] = SelectStart(aad) /\ \A n \in 1..l : h[n] = Consume(aad, time, h[n - 1], utxos[n])
    BY DEF Loop
  <1> HIDE DEF l
  <1>3. 0 \in G
    BY <1>1, <1>2, SelectStarts
  <1>4. ASSUME NEW n \in 1..l, n - 1 \in G PROVE n \in G
    <2>1. utxos[n] \in ToSet(utxos)
      BY <1>1 DEF ToSet
    <2> DEFINE done == h[n - 1]
               u == utxos[n]
    <2>2. SelectInv(utxos, aad, done)
      BY <1>4
    <2> HIDE DEF done, u
    <2>3. QED
      BY <2>1, <2>2, <1>2, <1>1, SelectStep DEF u, done
  <1>5. 0..l \subseteq G
    <2> HIDE DEF G
    <2>1. QED
      BY <1>1, <1>3, <1>4, CountInduction
  <1>6. QED
    BY <1>5 DEF l

-----------------------------------------------------------------------------
\* What a selection that fails has found.

\* What the senders can spend of an asset, UTXO by UTXO
Usable(c, time, utxos, a) ==
    [k \in DOMAIN utxos |-> IF utxos[k].out.asset = a /\ CanSpend(c, time, utxos[k]) THEN utxos[k].out.amount ELSE 0]

\* An asset that is still short has taken all that is usable, and less than is asked for.
Short(done, a, usable) ==
    ~done.amounts[a].finished =>
        /\ usable <= done.amounts[a].spent
        /\ done.amounts[a].spent < done.amounts[a].amount + done.amounts[a].burn

\* An asset stays short in that way with each UTXO.
LEMMA ShortStep ==
    ASSUME NEW utxos \in Seq(Utxo), NEW aad, WellAsked(aad), NEW time \in Nat, NEW done,
           SelectInv(utxos, aad, done), NEW u \in ToSet(utxos), NEW c, c.from = aad.from,
           NEW a \in AssetsOf(aad), NEW usable \in Nat, Short(done, a, usable)
    PROVE  Short(Consume(aad, time, done, u), a,
                 usable + (IF u.out.asset = a /\ CanSpend(c, time, u) THEN u.out.amount ELSE 0))
  <1> DEFINE takes == /\ ~CanComplete(done.amounts)
                      /\ u.out.kind = "transfer"
                      /\ u.out.asset \in AssetsOf(aad)
                      /\ MeetsThreshold(u.out, aad.from, time)
                      /\ ~done.amounts[u.out.asset].finished
             b == u.out.asset
             aa == SpendAmount(done.amounts[b], u.out.amount, FALSE)
             ins == Append(done.ins, NewInput(u, aad.from, time))
             next == [amounts |-> [done.amounts EXCEPT ![b] = aa], ins |-> ins]
             more == IF b = a /\ CanSpend(c, time, u) THEN u.out.amount ELSE 0
             after == Consume(aad, time, done, u)
  <1>1. after = IF takes THEN next ELSE done
    BY DEF Consume
  <1>2. u \in Utxo /\ u.out \in Output /\ u.out.amount \in Nat /\ aad.from \in Seq(Nat)
    <2>1. u \in Utxo
      BY RangeOfSeq, LenProperties DEF ToSet
    <2>2. QED
      BY <2>1, OutputAmounts DEF Utxo, WellAsked
  <1>3. done.amounts \in [AssetsOf(aad) -> AssetAmounts]
    BY DEF SelectInv
  <1>4. done.amounts[a] \in AssetAmounts /\ done.amounts[a].spent \in Nat /\ done.amounts[a].amount \in Nat
        /\ done.amounts[a].burn \in Nat
    BY <1>3 DEF AssetAmounts
  <1>5. CanSpend(c, time, u) => MeetsThreshold(u.out, aad.from, time) /\ u.out.kind = "transfer"
    BY <1>2, CanSpendMeets
  <1>6. CASE takes /\ b = a
    <2>1. after.amounts[a] = aa
      <3>1. after.amounts = [done.amounts EXCEPT ![b] = aa]
        BY <1>1, <1>6
      <3> HIDE DEF aa, after
      <3>2. QED
        BY <1>3, <1>6, <3>1
    <2>2. /\ aa.amount = done.amounts[a].amount /\ aa.burn = done.amounts[a].burn
          /\ aa.spent = done.amounts[a].spent + u.out.amount
          /\ aa.finished = (aa.spent >= aa.amount + aa.burn)
      BY <1>6 DEF SpendAmount, SpendTowards, Requested
    <2>3. usable <= done.amounts[a].spent
      BY <1>6 DEF Short
    <2>4. more \in Nat /\ more <= u.out.amount
      BY <1>2
    <2> HIDE DEF aa, after, more
    <2>5. usable + more <= aa.spent
      BY <1>2, <1>4, <2>2, <2>3, <2>4
    <2>6. ~aa.finished => aa.spent < aa.amount + aa.burn
      <3>1. aa.spent >= aa.amount + aa.burn \/ aa.spent < aa.amount + aa.burn
        BY <1>2, <1>4, <2>2
      <3>2. QED
        BY <2>2, <3>1, Zenon
    <2>7. QED
      BY <2>1, <2>5, <2>6 DEF after, more, Short
  <1>7. CASE takes /\ b # a
    <2>1. after.amounts[a] = done.amounts[a]
      <3>1. after.amounts = [done.amounts EXCEPT ![b] = aa]
        BY <1>1, <1>7
      <3> HIDE DEF aa, after
      <3>2. QED
        BY <1>3, <1>7, <3>1
    <2>2. usable + more = usable
      BY <1>7
    <2> HIDE DEF after, more
    <2>3. QED
      BY <2>1, <2>2 DEF after, more, Short
  <1>8. CASE ~takes
    <2>1. after = done
      BY <1>1, <1>8
    <2>2. ~done.amounts[a].finished => more = 0
      <3> SUFFICES ASSUME ~done.amounts[a].finished, b = a, CanSpend(c, time, u) PROVE FALSE
        OBVIOUS
      <3>1. QED
        BY <1>8, <1>5, <1>3 DEF CanComplete
    <2> HIDE DEF after, more
    <2>3. QED
      BY <2>1, <2>2 DEF after, more, Short
  <1>9. QED
    BY <1>6, <1>7, <1>8

\* What the senders can spend, as a sum.
LEMMA UsableIs ==
    ASSUME NEW utxos \in Seq(Utxo), NEW c, NEW time, NEW a
    PROVE  /\ Len(utxos) \in Nat /\ DOMAIN utxos = 1..Len(utxos) /\ IsFiniteSet(1..Len(utxos))
           /\ \A k \in 1..Len(utxos) : Usable(c, time, utxos, a)[k] \in Nat
           /\ Available(c, time, utxos, a) = SumFunctionOnSet(Usable(c, time, utxos, a), 1..Len(utxos))
  <1>1. Len(utxos) \in Nat /\ DOMAIN utxos = 1..Len(utxos) /\ \A k \in 1..Len(utxos) : utxos[k] \in Utxo
    BY LenProperties
  <1>2. DOMAIN Usable(c, time, utxos, a) = DOMAIN utxos
    BY DEF Usable
  <1>3. Available(c, time, utxos, a) = SumFunctionOnSet(Usable(c, time, utxos, a), DOMAIN utxos)
    <2>1. Available(c, time, utxos, a) = SumFunction(Usable(c, time, utxos, a))
      BY DEF Available, Usable
    <2> DEFINE f == Usable(c, time, utxos, a)
    <2> HIDE DEF f
    <2>2. QED
      BY <1>2, <2>1 DEF f, SumFunction
  <1>4. QED
    BY <1>1, <1>3, FS_Interval, OutputAmounts DEF Usable, Utxo

\* After the loop, an asset that is short is asked for more than the senders can spend.
LEMMA ShortAtLast ==
    ASSUME NEW utxos \in Seq(Utxo), NEW aad, WellAsked(aad), NEW time \in Nat, NEW c, c.from = aad.from,
           NEW k \in DOMAIN aad.asks, aad.asks[k].amount + aad.asks[k].burn > 0,
           ~Selected(utxos, aad, time).amounts[aad.asks[k].asset].finished
    PROVE  Available(c, time, utxos, aad.asks[k].asset) < aad.asks[k].amount + aad.asks[k].burn
  <1> DEFINE a == aad.asks[k].asset
             f == Usable(c, time, utxos, a)
             l == Len(utxos)
             Sum(n) == SumFunctionOnSet(f, 1..n)
  <1>1. PICK h : Loop(utxos, aad, time, h)
    BY SelectLoop
  <1>2. h[0] = SelectStart(aad) /\ (\A n \in 1..l : h[n] = Consume(aad, time, h[n - 1], utxos[n]))
        /\ h[l] = Selected(utxos, aad, time)
    BY <1>1 DEF Loop
  <1>3. \A n \in 0..l : SelectInv(utxos, aad, h[n])
    BY <1>1, LoopFacts
  <1>4. /\ l \in Nat /\ DOMAIN utxos = 1..l
        /\ \A n \in 1..l : f[n] \in Nat
        /\ Available(c, time, utxos, a) = Sum(l)
    BY UsableIs
  <1>5. a \in AssetsOf(aad) /\ aad.asks[k] \in Asks
    BY AsksAre
  <1>6. Unspent(aad)[a] = NewAssetAmount(aad.asks[k].amount, aad.asks[k].burn)
    BY UnspentIs
  <1>7. \A n \in 1..l : f[n] = IF utxos[n].out.asset = a /\ CanSpend(c, time, utxos[n]) THEN utxos[n].out.amount ELSE 0
    BY <1>4 DEF Usable
  <1> HIDE DEF f, l
  <1>8. \A n \in 0..l : Sum(n) \in Nat
    <2> TAKE n \in 0..l
    <2>1. n \in Nat /\ \A i \in 1..n : i \in 1..l
      BY <1>4
    <2>2. IsFiniteSet(1..n)
      BY <2>1, FS_Interval
    <2>3. QED
      BY <1>4, <2>1, <2>2, SumNat
  <1>9. ASSUME NEW n \in 1..l PROVE Sum(n) = Sum(n - 1) + f[n]
    <2>1. n - 1 \in Nat /\ n \notin 1..(n - 1) /\ 1..n = (1..(n - 1)) \cup {n} /\ \A i \in (1..(n - 1)) \cup {n} : i \in 1..l
      BY <1>4
    <2>2. IsFiniteSet(1..(n - 1))
      BY <2>1, FS_Interval
    <2>3. \A i \in (1..(n - 1)) \cup {n} : f[i] \in Int
      BY <1>4, <2>1
    <2>4. Sum(n) = f[n] + Sum(n - 1)
      BY <2>1, <2>2, <2>3, SumAdd
    <2>5. f[n] \in Nat /\ Sum(n - 1) \in Nat
      BY <1>4, <1>8
    <2> HIDE DEF Sum
    <2>6. QED
      BY <2>4, <2>5
  <1>10. Sum(0) = 0
    <2>1. 1..0 = {}
      OBVIOUS
    <2>2. QED
      BY <2>1, SumEmpty, Zenon
  <1> HIDE DEF Sum, a
  <1> DEFINE G == {n \in 0..l : Short(h[n], a, Sum(n))}
  <1>11. 0 \in G
    BY <1>2, <1>6, <1>10, <1>4 DEF SelectStart, NewAssetAmount, Short
  <1>12. ASSUME NEW n \in 1..l, n - 1 \in G PROVE n \in G
    <2> DEFINE done == h[n - 1]
               u == utxos[n]
               sum == Sum(n - 1)
               more == IF u.out.asset = a /\ CanSpend(c, time, u) THEN u.out.amount ELSE 0
    <2>1. n - 1 \in 0..l /\ n \in 0..l /\ u \in ToSet(utxos)
      BY <1>4 DEF ToSet
    <2>2. SelectInv(utxos, aad, done) /\ Short(done, a, sum) /\ sum \in Nat
      BY <1>3, <1>8, <1>12, <2>1
    <2>3. h[n] = Consume(aad, time, done, u) /\ Sum(n) = sum + more
      BY <1>2, <1>7, <1>9
    <2> HIDE DEF done, u, sum
    <2>4. QED
      BY <2>1, <2>3, <1>5, <2>2, ShortStep
  <1>13. 0..l \subseteq G
    <2> HIDE DEF G
    <2>1. QED
      BY <1>4, <1>11, <1>12, CountInduction
  <1>14. Short(Selected(utxos, aad, time), a, Sum(l)) /\ SelectInv(utxos, aad, Selected(utxos, aad, time))
    BY <1>4, <1>2, <1>3, <1>13
  <1> DEFINE last == Selected(utxos, aad, time)
  <1>15. last.amounts[a].amount = aad.asks[k].amount /\ last.amounts[a].burn = aad.asks[k].burn
    <2> HIDE DEF last
    <2>1. QED
      BY <1>6, <1>5, <1>14 DEF OneSpent, NewAssetAmount, SelectInv, last
  <1>16. ~last.amounts[a].finished
    BY DEF a
  <1>17. last.amounts[a].spent \in Nat
    BY <1>5, <1>14 DEF SelectInv, AssetAmounts
  <1> HIDE DEF last
  <1>18. aad.asks[k].amount \in Nat /\ aad.asks[k].burn \in Nat /\ Sum(l) \in Nat
    BY <1>4, <1>5, <1>8 DEF Asks
  <1>19. Sum(l) < aad.asks[k].amount + aad.asks[k].burn
    BY <1>17, <1>18, <1>14, <1>15, <1>16 DEF Short, last
  <1>20. QED
    BY <1>4, <1>19 DEF a

\* Each ask is for something, and there is one that the senders cannot meet.
EachAsks(aad) == \A k \in DOMAIN aad.asks : aad.asks[k].amount + aad.asks[k].burn > 0

Unmet(aad, c, time, utxos) ==
    \E k \in DOMAIN aad.asks : Available(c, time, utxos, aad.asks[k].asset) < aad.asks[k].amount + aad.asks[k].burn

\* A selection that fails asks for more of an asset than the senders can spend.
LEMMA SelectionFails ==
    ASSUME NEW utxos \in Seq(Utxo), NEW aad, WellAsked(aad), NEW time \in Nat, NEW locktime \in Nat,
           NEW threshold \in Nat, NEW c, c.from = aad.from, EachAsks(aad),
           GetMinimumSpendable(utxos, aad, time, locktime, threshold) = Failed
    PROVE  Unmet(aad, c, time, utxos)
  <1> DEFINE selected == Selected(utxos, aad, time)
             amounts == [a \in DOMAIN selected.amounts |-> selected.amounts[a].amount]
             changes == [a \in DOMAIN selected.amounts |-> selected.amounts[a].change]
             outs == OutputsOf(aad, amounts, aad.to, locktime, threshold)
             change == OutputsOf(aad, changes, aad.change, 0, 1)
             ins == selected.ins
             got == [ins |-> ins, outs |-> outs, change |-> change]
  <1>1. ~CanComplete(selected.amounts) \/ got = Failed
    BY DEF GetMinimumSpendable
  <1>2. SelectInv(utxos, aad, selected)
    BY SelectedFacts
  <1>3. got # Failed
    <2> HIDE DEF selected
    <2>1. selected.amounts \in [AssetsOf(aad) -> AssetAmounts] /\ ins \in Seq(Input)
      BY <1>2 DEF SelectInv
    <2>2. amounts \in [AssetsOf(aad) -> Nat] /\ changes \in [AssetsOf(aad) -> Nat]
      BY <2>1 DEF AssetAmounts
    <2>3. aad.to \in Seq(Nat) /\ aad.change \in Seq(Nat)
      BY DEF WellAsked
    <2> HIDE DEF amounts, changes
    <2>4. Bear(outs, amounts) /\ Bear(change, changes)
      BY <2>2, <2>3, OutputsAre
    <2> HIDE DEF outs, change, ins
    <2>5. got \in Selection
      BY <2>1, <2>4 DEF Selection, Bear
    <2> HIDE DEF got
    <2>6. QED
      BY <2>5, OutcomesAssumption
  <1> HIDE DEF got
  <1>4. PICK a \in AssetsOf(aad) : ~selected.amounts[a].finished
    <2> HIDE DEF selected
    <2>1. QED
      BY <1>1, <1>3, <1>2 DEF CanComplete, SelectInv
  <1>5. PICK k \in DOMAIN aad.asks : aad.asks[k].asset = a
    BY <1>4, AsksAre
  <1>6. ~Selected(utxos, aad, time).amounts[aad.asks[k].asset].finished
    BY <1>4, <1>5
  <1> HIDE DEF selected
  <1>7. QED
    BY <1>6, ShortAtLast DEF Unmet, EachAsks

-----------------------------------------------------------------------------
\* The order of the UTXOs does not change what they hold.

\* The UTXOs in the order in which a call takes them.
LEMMA ArrangedAt ==
    ASSUME NEW utxos \in Seq(Utxo), NEW c
    PROVE  /\ Len(utxos) \in Nat /\ DOMAIN utxos = 1..Len(utxos) /\ Len(Arranged(utxos, c)) = Len(utxos)
           /\ DOMAIN Arranged(utxos, c) = 1..Len(utxos)
           /\ Arranged(utxos, c) = utxos \/ \A k \in 1..Len(utxos) : Arranged(utxos, c)[(Len(utxos) - k) + 1] = utxos[k]
  <1> DEFINE n == Len(utxos)
             s == Arranged(utxos, c)
             r == [i \in 1..n |-> utxos[(n - i) + 1]]
  <1>1. n \in Nat /\ DOMAIN utxos = 1..n
    BY LenProperties
  <1>2. s = utxos \/ s = r
    BY DEF Arranged, Reverse
  <1>3. s \in Seq(Utxo)
    BY ArrangedIs
  <1> HIDE DEF n, s
  <1>4. DOMAIN s = 1..n
    BY <1>1, <1>2
  <1>5. Len(s) = n
    BY <1>1, <1>3, <1>4, LenProperties
  <1>6. ASSUME NEW k \in 1..n, s = r PROVE s[(n - k) + 1] = utxos[k]
    BY <1>1, <1>6
  <1>7. QED
    BY <1>1, <1>2, <1>4, <1>5, <1>6 DEF n, s

\* What can be spent and what is held, and the ids, are the same in each order.
LEMMA AnyOrder ==
    ASSUME NEW utxos \in Seq(Utxo), NEW c, NEW d, NEW time, NEW a
    PROVE  /\ Available(c, time, Arranged(utxos, d), a) = Available(c, time, utxos, a)
           /\ AmountOf(Arranged(utxos, d), a) = AmountOf(utxos, a)
           /\ Ids(Arranged(utxos, d)) = Ids(utxos)
  <1> DEFINE s == Arranged(utxos, d)
             n == Len(utxos)
  <1>1. /\ n \in Nat /\ DOMAIN utxos = 1..n /\ Len(s) = n /\ DOMAIN s = 1..n
        /\ s = utxos \/ \A k \in 1..n : s[(n - k) + 1] = utxos[k]
    BY ArrangedAt
  <1>2. s \in Seq(Utxo) /\ ToSet(s) = ToSet(utxos)
    BY ArrangedIs
  <1> HIDE DEF s, n
  <1>3. Ids(s) = Ids(utxos)
    <2>1. \A i : i \in Ids(s) <=> \E u \in ToSet(s) : u.id = i
      BY DEF Ids, ToSet
    <2>2. \A i : i \in Ids(utxos) <=> \E u \in ToSet(utxos) : u.id = i
      BY DEF Ids, ToSet
    <2>3. QED
      BY <1>2, <2>1, <2>2
  <1>4. CASE s = utxos
    BY <1>4 DEF s
  <1>5. CASE s # utxos
    <2>1. \A k \in 1..n : s[(n - k) + 1] = utxos[k] /\ (n - k) + 1 \in 1..n
      BY <1>1, <1>5
    <2> DEFINE f == Usable(c, time, utxos, a)
               g == Usable(c, time, s, a)
    <2>2. \A k \in 1..n : f[k] \in Int
      BY UsableIs DEF n
    <2>3. \A k \in 1..n : g[(n - k) + 1] = f[k]
      BY <1>1, <2>1 DEF Usable
    <2>4. Available(c, time, s, a) = SumFunctionOnSet(g, 1..n)
      BY <1>1, <1>2, UsableIs
    <2>5. Available(c, time, utxos, a) = SumFunctionOnSet(f, 1..n)
      BY <1>1, UsableIs DEF n
    <2> HIDE DEF f, g
    <2>6. Available(c, time, s, a) = Available(c, time, utxos, a)
      BY <1>1, <2>2, <2>3, <2>4, <2>5, ReverseSum
    <2> DEFINE p == Held(utxos, a)
               q == Held(s, a)
    <2>7. \A k \in 1..n : p[k] \in Int
      BY HeldIs DEF n
    <2>8. \A k \in 1..n : q[(n - k) + 1] = p[k]
      BY <1>1, <2>1 DEF Held
    <2>9. AmountOf(s, a) = SumFunctionOnSet(q, 1..n)
      BY <1>1, <1>2, HeldIs
    <2>10. AmountOf(utxos, a) = SumFunctionOnSet(p, 1..n)
      BY <1>1, HeldIs DEF n
    <2> HIDE DEF p, q
    <2>11. AmountOf(s, a) = AmountOf(utxos, a)
      BY <1>1, <2>7, <2>8, <2>9, <2>10, ReverseSum
    <2>12. QED
      BY <1>3, <2>6, <2>11 DEF s
  <1>6. QED
    BY <1>4, <1>5

-----------------------------------------------------------------------------
\* A call that fails asks for more than the senders can spend.

\* The senders lack an asset that a call asks for.
Lacks(c, time, utxos) == \E a \in Asset : Available(c, time, utxos, a) < AsksFor(c, a)

\* Calls ask for a number, not less than the fee.
LEMMA AsksForIs ==
    ASSUME NEW c \in Call, NEW a
    PROVE  AsksFor(c, a) \in Nat /\ (a = c.feeAsset => c.fee <= AsksFor(c, a))
  BY CallType DEF AsksFor

\* What can be spent is a number.
LEMMA AvailableNat ==
    ASSUME NEW utxos \in Seq(Utxo), NEW c, NEW time, NEW a
    PROVE  Available(c, time, utxos, a) \in Nat
  <1> DEFINE f == Usable(c, time, utxos, a)
  <1>1. IsFiniteSet(1..Len(utxos)) /\ (\A k \in 1..Len(utxos) : f[k] \in Nat)
        /\ Available(c, time, utxos, a) = SumFunctionOnSet(f, 1..Len(utxos))
    BY UsableIs
  <1> HIDE DEF f
  <1>2. QED
    BY <1>1, SumNat

\* One ask that is not met.
LEMMA OneAskFails ==
    ASSUME NEW utxos \in Seq(Utxo), NEW c \in Call, NEW time \in Nat, NEW locktime \in Nat, NEW asset \in Asset,
           NEW amount \in Nat, NEW burn \in Nat, amount + burn > 0, NEW to \in Seq(Nat), NEW change \in Seq(Nat),
           GetMinimumSpendable(utxos, Aad(<<Ask(asset, amount, burn)>>, to, c.from, change), time, locktime, 1) = Failed
    PROVE  Available(c, time, utxos, asset) < amount + burn
  <1> DEFINE from == c.from
             aad == Aad(<<Ask(asset, amount, burn)>>, to, from, change)
  <1>1. AsksOne(aad, asset, burn)
    BY OneAsk, CallType
  <1>2. aad.asks[1] = Ask(asset, amount, burn) /\ aad.from = c.from
    BY DEF Aad
  <1>3. aad.asks[1].asset = asset /\ aad.asks[1].amount = amount /\ aad.asks[1].burn = burn
    BY <1>2 DEF Ask
  <1>4. GetMinimumSpendable(utxos, aad, time, locktime, 1) = Failed
    OBVIOUS
  <1> HIDE DEF aad
  <1>5. WellAsked(aad) /\ DOMAIN aad.asks = {1}
    BY <1>1 DEF AsksOne
  <1>6. EachAsks(aad)
    BY <1>3, <1>5 DEF EachAsks
  <1> DEFINE one == 1
  <1>7. one \in Nat /\ GetMinimumSpendable(utxos, aad, time, locktime, one) = Failed
    BY <1>4
  <1> HIDE DEF one
  <1>8. Unmet(aad, c, time, utxos)
    BY <1>2, <1>5, <1>6, <1>7, SelectionFails
  <1>9. QED
    BY <1>3, <1>5, <1>8 DEF Unmet

\* Two asks that are not met: the amount or the fee.
LEMMA TwoAsksFail ==
    ASSUME NEW utxos \in Seq(Utxo), NEW c \in Call, NEW time \in Nat, NEW locktime \in Nat, NEW asset \in Asset,
           NEW feeAsset \in Asset, asset # feeAsset, NEW amount \in Nat, NEW fee \in Nat, amount > 0, fee > 0,
           NEW to \in Seq(Nat), NEW change \in Seq(Nat),
           GetMinimumSpendable(utxos, Aad(<<Ask(asset, amount, 0), Ask(feeAsset, 0, fee)>>, to, c.from, change),
                               time, locktime, 1) = Failed
    PROVE  Available(c, time, utxos, asset) < amount \/ Available(c, time, utxos, feeAsset) < fee
  <1> DEFINE from == c.from
             aad == Aad(<<Ask(asset, amount, 0), Ask(feeAsset, 0, fee)>>, to, from, change)
  <1>1. AsksTwo(aad, asset, feeAsset, fee)
    BY TwoAsks, CallType
  <1>2. aad.asks[1] = Ask(asset, amount, 0) /\ aad.asks[2] = Ask(feeAsset, 0, fee) /\ aad.from = c.from
    BY DEF Aad
  <1>3. /\ aad.asks[1].asset = asset /\ aad.asks[1].amount + aad.asks[1].burn = amount
        /\ aad.asks[2].asset = feeAsset /\ aad.asks[2].amount + aad.asks[2].burn = fee
    BY <1>2 DEF Ask
  <1>4. GetMinimumSpendable(utxos, aad, time, locktime, 1) = Failed
    OBVIOUS
  <1> HIDE DEF aad
  <1>5. WellAsked(aad) /\ DOMAIN aad.asks = {1, 2}
    BY <1>1 DEF AsksTwo
  <1>6. EachAsks(aad)
    BY <1>3, <1>5 DEF EachAsks
  <1> DEFINE one == 1
  <1>7. one \in Nat /\ GetMinimumSpendable(utxos, aad, time, locktime, one) = Failed
    BY <1>4
  <1> HIDE DEF one
  <1>8. Unmet(aad, c, time, utxos)
    BY <1>2, <1>5, <1>6, <1>7, SelectionFails
  <1>9. QED
    BY <1>3, <1>5, <1>8 DEF Unmet

\* A fee that is not selected is lacking.
LEMMA FeeFails ==
    ASSUME NEW utxos \in Seq(Utxo), NEW c \in Call, NEW time \in Nat, PayFee(utxos, c, time) = Failed
    PROVE  Lacks(c, time, utxos)
  <1> DEFINE asset == c.feeAsset
             fee == c.fee
             change == c.change
  <1>1. asset \in Asset /\ fee \in Nat /\ change \in Seq(Nat) /\ <<>> \in Seq(Nat)
    BY CallType, EmptySeq
  <1>2. FeeCheck(fee)
    <2> SUFFICES ASSUME ~FeeCheck(fee) PROVE FALSE
      OBVIOUS
    <2> DEFINE none == [ins |-> <<>>, outs |-> <<>>, change |-> <<>>]
    <2>1. PayFee(utxos, c, time) = none
      BY DEF PayFee
    <2>2. none \in Selection
      BY EmptySeq DEF Selection
    <2> HIDE DEF none
    <2>3. QED
      BY <2>1, <2>2, OutcomesAssumption
  <1>3. GetMinimumSpendable(utxos, Aad(<<Ask(asset, 0, fee)>>, <<>>, c.from, change), time, 0, 1) = Failed
    BY <1>2 DEF PayFee
  <1>4. 0 + fee > 0 /\ 0 + fee = fee
    BY <1>1, <1>2 DEF FeeCheck
  <1>5. fee <= AsksFor(c, asset) /\ AsksFor(c, asset) \in Nat
    BY AsksForIs
  <1> HIDE DEF asset, fee, change
  <1>6. Available(c, time, utxos, asset) < 0 + fee
    BY <1>1, <1>3, <1>4, OneAskFails
  <1>7. QED
    BY <1>1, <1>4, <1>6, <1>5, AvailableNat DEF Lacks

\* An amount and a fee that are not selected are lacking.
LEMMA SelectForFails ==
    ASSUME NEW utxos \in Seq(Utxo), NEW c \in Call, NEW time \in Nat, c.kind \in {"Base", "Export"}, c.amount # 0,
           SelectFor(utxos, c, time) = Failed
    PROVE  Lacks(c, time, utxos)
  <1> DEFINE asset == c.asset
             amount == c.amount
             feeAsset == c.feeAsset
             fee == c.fee
             to == c.to
             change == c.change
             locktime == c.locktime
  <1>1. /\ asset \in Asset /\ feeAsset \in Asset /\ amount \in Nat /\ fee \in Nat /\ to \in Seq(Nat)
        /\ change \in Seq(Nat) /\ locktime \in Nat
    BY CallType
  <1>2. AsksFor(c, asset) = (IF asset = feeAsset THEN fee ELSE 0) + amount
    BY DEF AsksFor
  <1>3. fee <= AsksFor(c, feeAsset) /\ AsksFor(c, feeAsset) \in Nat /\ AsksFor(c, asset) \in Nat
    BY AsksForIs
  <1>4. SelectFor(utxos, c, time) = GetMinimumSpendable(utxos, Aad(AmountAndFee(c), to, c.from, change), time, locktime, 1)
    BY DEF SelectFor
  <1>5. AmountAndFee(c) =
           IF asset = feeAsset THEN <<Ask(asset, amount, fee)>>
           ELSE IF fee > 0 THEN <<Ask(asset, amount, 0), Ask(feeAsset, 0, fee)>> ELSE <<Ask(asset, amount, 0)>>
    <2> DEFINE p == Ask(asset, amount, 0)
               q == Ask(feeAsset, 0, fee)
    <2>1. AmountAndFee(c) = IF asset = feeAsset THEN <<Ask(asset, amount, fee)>>
                            ELSE <<p>> \o (IF fee > 0 THEN <<q>> ELSE <<>>)
      BY DEF AmountAndFee, FeeCheck
    <2> HIDE DEF p, q
    <2>2. QED
      BY <2>1, PairIs DEF p, q
  <1>6. amount > 0
    BY <1>1
  <1> HIDE DEF asset, amount, feeAsset, fee, to, change, locktime
  <1>7. CASE asset = feeAsset
    BY <1>4, <1>5, <1>7, <1>1, <1>6, <1>2, OneAskFails DEF Lacks
  <1>8. CASE asset # feeAsset /\ fee > 0
    <2>1. Available(c, time, utxos, asset) < amount \/ Available(c, time, utxos, feeAsset) < fee
      BY <1>1, <1>8, <1>6, <1>4, <1>5, TwoAsksFail
    <2>2. QED
      BY <1>1, <2>1, <1>2, <1>8, <1>3, AvailableNat DEF Lacks
  <1>9. CASE asset # feeAsset /\ ~(fee > 0)
    BY <1>4, <1>5, <1>9, <1>1, <1>6, <1>2, OneAskFails DEF Lacks
  <1>10. QED
    BY <1>7, <1>8, <1>9

-----------------------------------------------------------------------------
\* What is built is what the function of the call makes of the UTXOs.

AssetMade(c, utxos) ==
    \E states \in Seq(Output) :
        /\ tx = BuildCreateAssetTx(utxos, states, c, now)
        /\ tx # Failed => initial = AddOutputs(states, c)
        /\ ~c.again => states = Holdings

FromCall(c) ==
    LET utxos == Arranged(utxoset, c)
    IN /\ c.kind = "Base" => tx = BuildBaseTx(utxos, c, now)
       /\ c.kind = "Export" => tx = BuildExportTx(utxos, c, now)
       /\ c.kind = "SECPMint" => tx = BuildSECPMintTx(utxos, c, now)
       /\ c.kind = "CreateNFTAsset" => tx = BuildCreateNFTAssetTx(utxos, c, now)
       /\ c.kind = "CreateNFTMint" => tx = BuildCreateNFTMintTx(utxos, c, now)
       /\ c.kind = "NFTTransfer" => tx = BuildNFTTransferTx(utxos, c, now)
       /\ c.kind = "Import" => tx = IF toX = <<>> THEN Failed ELSE BuildImportTx(utxos, Arranged(toX, c), c, now)
       /\ c.kind = "CreateAsset" => AssetMade(c, utxos)
       /\ c.kind = "EvmImport" => tx = EvmApiImport(Arranged(toC, c), c, now)
       /\ c.kind = "EvmUtxoExport" => tx = EvmBuildExportTx(Arranged(toC, c), c, now)
       /\ c.kind = "EvmExport" => tx = EvmApiExport(c)

\* Nothing is built between two calls, and nothing changes before the chain has answered.
BuiltAsCalled ==
    \/ call = NoCall /\ tx = Undefined
    \/ call \in Calls /\ FromCall(call)

\* Calling a function builds by it.
LEMMA CallBuilds ==
    ASSUME Inv, Next, call' # NoCall, call = NoCall
    PROVE  BuiltAsCalled'
  <1> DEFINE c == call'
  <1>1. CASE Base
    BY <1>1 DEF Base, FromX, Build, chain, FromCall, Arranged, BuiltAsCalled
  <1>2. CASE Export
    BY <1>2 DEF Export, FromX, Build, chain, FromCall, Arranged, BuiltAsCalled
  <1>3. CASE SECPMint
    BY <1>3 DEF SECPMint, FromX, Build, chain, FromCall, Arranged, BuiltAsCalled
  <1>4. CASE CreateNFTAsset
    BY <1>4 DEF CreateNFTAsset, FromX, Build, chain, FromCall, Arranged, BuiltAsCalled
  <1>5. CASE CreateNFTMint
    BY <1>5 DEF CreateNFTMint, FromX, Build, chain, FromCall, Arranged, BuiltAsCalled
  <1>6. CASE NFTTransfer
    BY <1>6 DEF NFTTransfer, FromX, Build, chain, FromCall, Arranged, BuiltAsCalled
  <1>7. CASE Import
    BY <1>7 DEF Import, FromX, Build, chain, FromCall, Arranged, BuiltAsCalled
  <1>8. CASE EvmImport
    BY <1>8 DEF EvmImport, Build, chain, FromCall, Arranged, BuiltAsCalled
  <1>9. CASE EvmUtxoExport
    BY <1>9 DEF EvmUtxoExport, Build, chain, FromCall, Arranged, BuiltAsCalled
  <1>10. CASE EvmExport
    BY <1>10 DEF EvmExport, Build, chain, FromCall, Arranged, BuiltAsCalled
  <1>11. CASE CreateAsset
    <2> DEFINE states == States(c)
    <2>1. /\ c \in Calls /\ c.kind = "CreateAsset"
          /\ tx' = BuildCreateAssetTx(Arranged(utxoset, c), states, c, now)
          /\ initial' = IF tx' = Failed THEN states ELSE AddOutputs(states, c)
          /\ UNCHANGED <<chain, utxoset, now>>
      BY <1>11 DEF CreateAsset, Build
    <2>2. utxoset' = utxoset /\ now' = now
      BY <2>1
    <2>3. states \in Seq(Output) /\ (~c.again => states = Holdings)
      BY GenesisAssumption DEF States, Inv, TypeOK
    <2> HIDE DEF states
    <2>4. QED
      BY <2>1, <2>2, <2>3 DEF BuiltAsCalled, FromCall, AssetMade, Arranged
  <1>12. CASE FetchUTXOs \/ Accept \/ Refuse \/ Tick
    BY <1>12 DEF FetchUTXOs, Accept, Refuse, Tick, Idle
  <1>13. QED
    BY <1>1, <1>2, <1>3, <1>4, <1>5, <1>6, <1>7, <1>8, <1>9, <1>10, <1>11, <1>12 DEF Next

\* Steps keep what is built as it was called for.
LEMMA BuiltStays ==
    ASSUME Inv, BuiltAsCalled, [Next]_vars
    PROVE  BuiltAsCalled'
  <1>1. CASE UNCHANGED vars
    BY <1>1 DEF vars, FromCall, AssetMade, Arranged, BuiltAsCalled
  <1>2. CASE Next /\ call' # NoCall
    <2>1. call = NoCall
      BY <1>2 DEF Next, Base, Export, SECPMint, CreateNFTAsset, CreateNFTMint, NFTTransfer, Import, CreateAsset, EvmImport,
                  EvmUtxoExport, EvmExport, FromX, Build, FetchUTXOs, Tick, Accept, Refuse, Idle
    <2>2. QED
      BY <1>2, <2>1, CallBuilds
  <1>3. CASE Next /\ call' = NoCall
    <2>1. ~(call' \in Calls)
      BY <1>3, CallsAre
    <2>2. FetchUTXOs \/ Accept \/ Refuse \/ Tick
      BY <1>3, <2>1 DEF Next, Base, Export, SECPMint, CreateNFTAsset, CreateNFTMint, NFTTransfer, Import, CreateAsset,
                        EvmImport, EvmUtxoExport, EvmExport, FromX, Build
    <2>3. CASE Accept \/ Refuse
      BY <2>3, <1>3 DEF Accept, Refuse, BuiltAsCalled
    <2>4. CASE FetchUTXOs \/ Tick
      BY <2>4, <1>3, CallsAre DEF FetchUTXOs, Tick, Idle, BuiltAsCalled
    <2>5. QED
      BY <2>2, <2>3, <2>4
  <1>4. QED
    BY <1>1, <1>2, <1>3

-----------------------------------------------------------------------------
\* What fails is asked for in vain.

\* Nothing is built at first.
LEMMA InitBuilt == Init => BuiltAsCalled
  BY DEF Init, BuiltAsCalled

\* What failed failed for its reason.
LEMMA FailedFor ==
    ASSUME NEW t, NEW form, NEW reason, Outcome(t, form, reason), t = Failed
    PROVE  reason
  BY OutcomesAssumption DEF Outcome

\* The order of the UTXOs does not change what is lacking.
LEMMA LacksAnyOrder ==
    ASSUME NEW utxos \in Seq(Utxo), NEW c, NEW time, Lacks(c, time, Arranged(utxos, c))
    PROVE  Lacks(c, time, utxos)
  BY AnyOrder DEF Lacks

\* Nor which ids there are.
LEMMA HasAnyOrder ==
    ASSUME NEW utxos \in Seq(Utxo), NEW c, NEW id
    PROVE  Has(Arranged(utxos, c), id) <=> id \in Ids(utxos)
  <1>1. id \in Ids(utxos) <=> \E u \in ToSet(utxos) : u.id = id
    BY DEF Ids, ToSet
  <1>2. QED
    BY <1>1, ArrangedIs DEF Has

\* The rest of a fee that is not selected is lacking.
LEMMA RestFails ==
    ASSUME NEW utxos \in Seq(Utxo), NEW atomics \in Seq(Utxo), NEW c \in Call, NEW time \in Nat,
           FeeCheck(FeeRemaining(c, atomics)), RestFor(utxos, atomics, c, time) = Failed
    PROVE  Lacks(c, time, utxos)
  <1> DEFINE asset == c.feeAsset
             rest == FeeRemaining(c, atomics)
             to == c.to
             change == c.change
             locktime == c.locktime
             zero == 0
  <1>1. asset \in Asset /\ to \in Seq(Nat) /\ change \in Seq(Nat) /\ locktime \in Nat /\ c.fee \in Nat /\ zero \in Nat
    BY CallType
  <1>2. rest \in Nat /\ rest <= c.fee
    BY <1>1, FeePaidIs, HeldIs DEF FeeRemaining
  <1>3. zero + rest > 0 /\ zero + rest = rest
    BY <1>2 DEF FeeCheck
  <1>4. GetMinimumSpendable(utxos, Aad(<<Ask(asset, zero, rest)>>, to, c.from, change), time, locktime, 1) = Failed
    BY DEF RestFor
  <1>5. c.fee <= AsksFor(c, asset) /\ AsksFor(c, asset) \in Nat
    BY AsksForIs
  <1> HIDE DEF asset, rest, to, change, locktime, zero
  <1>6. Available(c, time, utxos, asset) < zero + rest
    BY <1>1, <1>2, <1>3, <1>4, OneAskFails
  <1>7. QED
    BY <1>1, <1>2, <1>3, <1>5, <1>6, AvailableNat DEF Lacks

\* An export of UTXOs of the C-chain, in one asset, that are not selected
LEMMA OnCFails ==
    ASSUME NEW utxos \in Seq(Utxo), NEW c \in Call, NEW time \in Nat, c.kind = "EvmUtxoExport", c.feeAsset = c.asset,
           c.amount # 0, SelectOnC(utxos, c, time) = Failed
    PROVE  Lacks(c, time, utxos)
  <1> DEFINE asset == c.asset
             amount == c.amount
             fee == c.fee
             to == c.to
             change == c.change
             locktime == c.locktime
  <1>1. /\ asset \in Asset /\ to \in Seq(Nat) /\ change \in Seq(Nat) /\ locktime \in Nat /\ fee \in Nat /\ amount \in Nat
        /\ amount + fee > 0
    BY CallType
  <1>2. GetMinimumSpendable(utxos, Aad(<<Ask(asset, amount, fee)>>, to, c.from, change), time, locktime, 1) = Failed
    BY DEF SelectOnC
  <1>3. AsksFor(c, asset) = fee + amount
    BY DEF AsksFor
  <1> HIDE DEF asset, amount, fee, to, change, locktime
  <1>4. Available(c, time, utxos, asset) < amount + fee
    BY <1>1, <1>2, OneAskFails
  <1>5. amount + fee = fee + amount
    BY <1>1
  <1>6. QED
    BY <1>1, <1>3, <1>4, <1>5 DEF Lacks

\* An import to the C-chain that is not valid has less than the fee.
LEMMA EvmImportFails ==
    ASSUME NEW c \in Call, c.feeAsset = AvaxAsset, NEW atomics \in Seq(Utxo), Unique(atomics), NEW time,
           ~ValidateOuts(ById(ImportInputs(atomics, time)), ImportCredits(atomics, c), c.fee)
    PROVE  AmountOf(atomics, AvaxAsset) < c.fee
  <1> DEFINE ins == ImportInputs(atomics, time)
             held == {atomics[k].out.asset : k \in DOMAIN atomics}
             assets == SetToSeq(held)
             credited == Credits(c, atomics, assets)
             paid0 == FeePaid(c, atomics, Len(atomics))
             total == AmountOf(atomics, AvaxAsset)
             kept == SumFunctionOnSet(Kept(c, atomics, AvaxAsset), 1..Len(atomics))
  <1>1. ins \in Seq(Input) /\ Unique(ins) /\ AmountIn(ins, AvaxAsset) = total
    BY ImportInputsAre
  <1>2. AmountIn(ById(ins), AvaxAsset) = total
    <2> HIDE DEF ins
    <2>1. QED
      BY <1>1, ByIdAre
  <1>3. IsFiniteSet(held)
    <2>1. IsFiniteSet(1..Len(atomics)) /\ DOMAIN atomics = 1..Len(atomics)
      BY HeldIs
    <2> DEFINE f == [k \in 1..Len(atomics) |-> atomics[k].out.asset]
    <2>2. f \in Surjection(1..Len(atomics), held)
      BY <2>1 DEF Surjection
    <2> HIDE DEF f, held
    <2>3. QED
      BY <2>1, <2>2, FS_Surjection
  <1>4. \A j, k \in DOMAIN assets : assets[j] = assets[k] => j = k
    <2> HIDE DEF held
    <2>1. QED
      BY <1>3, SetToSeqIs
  <1>5. AmountIn(credited, AvaxAsset) = kept
    BY CreditsAre
  <1>6. kept = total - paid0
    BY KeptAll
  <1>7. total \in Nat /\ c.fee \in Nat /\ paid0 = IF total > c.fee THEN c.fee ELSE total
    BY FeePaidIs, HeldIs, CallType
  <1>8. ~ValidateOuts(ById(ins), credited, c.fee)
    BY DEF ImportCredits
  <1>9. \A i, j \in DOMAIN credited : credited[i].asset = credited[j].asset => i = j
    <2> HIDE DEF assets
    <2>1. QED
      BY <1>4 DEF Credits, CreditOf
  <1> HIDE DEF ins, credited, kept, total, paid0
  <1>10. ~(total - (total - paid0) >= c.fee)
    BY <1>2, <1>5, <1>6, <1>8, <1>9 DEF ValidateOuts
  <1>11. QED
    BY <1>7, <1>10 DEF total

\* What a refusal is justified by.
Justified ==
    \/ CannotPay
    \/ call.kind = "Import" /\ toX = <<>>
    \/ call.kind = "EvmImport" /\ toC = <<>>
    \/ call.kind = "EvmUtxoExport" /\ call.feeAsset # call.asset
    \/ call.kind = "Base" /\ call.toThreshold > Len(call.to)
    \/ \E i \in ToSet(call.ids) : i \notin Ids(utxoset)
    \/ call.kind = "SECPMint" /\ \E u \in ToSet(utxoset) : u.id \in ToSet(call.ids) /\ u.out.kind # "mint"

\* What is lacking among the UTXOs of the X-chain
LEMMA LacksX ==
    ASSUME TypeOK, call.kind \notin {"EvmImport", "EvmUtxoExport"}, Lacks(call, now, Arranged(utxoset, call))
    PROVE  Justified
  BY LacksAnyOrder DEF TypeOK, Lacks, CannotPay, Justified

\* A UTXO that is not there
LEMMA NotThere ==
    ASSUME TypeOK, NEW id \in ToSet(call.ids), ~Has(Arranged(utxoset, call), id)
    PROVE  Justified
  BY HasAnyOrder DEF TypeOK, Justified

\* A transfer
LEMMA BaseRefused ==
    ASSUME TypeOK, IdsDistinct, call \in Calls, call.kind = "Base", FromCall(call), tx = Failed
    PROVE  Justified
  <1> DEFINE utxos == Arranged(utxoset, call)
  <1>1. /\ call \in Call /\ utxoset \in Seq(Utxo) /\ toX \in Seq(Utxo) /\ toC \in Seq(Utxo) /\ now \in Nat
        /\ utxos \in Seq(Utxo)
    BY CallsAre, ArrangedIs DEF TypeOK
  <1>2. BuildBaseTx(utxos, call, now) = Failed
    BY DEF FromCall
  <1> HIDE DEF utxos
  <1>3. call.toThreshold > Len(call.to) \/ Lacks(call, now, utxos)
    BY <1>1, <1>2, SelectForFails, BaseFits, FailedFor, OutcomesAssumption DEF BuildBaseTx
  <1>4. QED
    BY <1>3, LacksX DEF Justified, utxos

\* An export
LEMMA ExportRefused ==
    ASSUME TypeOK, IdsDistinct, call \in Calls, call.kind = "Export", FromCall(call), tx = Failed
    PROVE  Justified
  <1> DEFINE utxos == Arranged(utxoset, call)
  <1>1. /\ call \in Call /\ utxoset \in Seq(Utxo) /\ toX \in Seq(Utxo) /\ toC \in Seq(Utxo) /\ now \in Nat
        /\ utxos \in Seq(Utxo)
    BY CallsAre, ArrangedIs DEF TypeOK
  <1>2. BuildExportTx(utxos, call, now) = Failed
    BY DEF FromCall
  <1> HIDE DEF utxos
  <1>3. Lacks(call, now, utxos)
    BY <1>1, <1>2, SelectForFails, ExportFits, FailedFor, OutcomesAssumption DEF BuildExportTx
  <1>4. QED
    BY <1>3, LacksX DEF utxos

\* A new asset
LEMMA CreateAssetRefused ==
    ASSUME TypeOK, IdsDistinct, call \in Calls, call.kind = "CreateAsset", FromCall(call), tx = Failed
    PROVE  Justified
  <1> DEFINE utxos == Arranged(utxoset, call)
  <1>1. /\ call \in Call /\ utxoset \in Seq(Utxo) /\ toX \in Seq(Utxo) /\ toC \in Seq(Utxo) /\ now \in Nat
        /\ utxos \in Seq(Utxo)
    BY CallsAre, ArrangedIs DEF TypeOK
  <1>2. PICK states \in Seq(Output) : tx = BuildCreateAssetTx(utxos, states, call, now)
    BY DEF FromCall, AssetMade
  <1> HIDE DEF utxos
  <1>3. QED
    BY <1>1, <1>2, LacksX, FeeFails, CreateAssetFits, FailedFor DEF utxos

\* A new asset of NFTs
LEMMA CreateNFTAssetRefused ==
    ASSUME TypeOK, IdsDistinct, call \in Calls, call.kind = "CreateNFTAsset", FromCall(call), tx = Failed
    PROVE  Justified
  <1> DEFINE utxos == Arranged(utxoset, call)
  <1>1. /\ call \in Call /\ utxoset \in Seq(Utxo) /\ toX \in Seq(Utxo) /\ toC \in Seq(Utxo) /\ now \in Nat
        /\ utxos \in Seq(Utxo)
    BY CallsAre, ArrangedIs DEF TypeOK
  <1>2. BuildCreateNFTAssetTx(utxos, call, now) = Failed
    BY DEF FromCall
  <1> HIDE DEF utxos
  <1>3. QED
    BY <1>1, <1>2, LacksX, FeeFails, CreateNFTAssetFits, FailedFor DEF utxos

\* Operations on NFTs
LEMMA CreateNFTMintRefused ==
    ASSUME TypeOK, IdsDistinct, call \in Calls, call.kind = "CreateNFTMint", FromCall(call), tx = Failed
    PROVE  Justified
  <1> DEFINE utxos == Arranged(utxoset, call)
  <1>1. /\ call \in Call /\ utxoset \in Seq(Utxo) /\ toX \in Seq(Utxo) /\ toC \in Seq(Utxo) /\ now \in Nat
        /\ utxos \in Seq(Utxo)
    BY CallsAre, ArrangedIs DEF TypeOK
  <1>2. BuildCreateNFTMintTx(utxos, call, now) = Failed
    BY DEF FromCall
  <1> HIDE DEF utxos
  <1>3. CASE PayFee(utxos, call, now) = Failed
    BY <1>1, <1>3, FeeFails, LacksX DEF utxos
  <1>4. CASE \E k \in DOMAIN call.ids : ~Has(utxos, call.ids[k])
    BY <1>4, NotThere DEF ToSet, utxos
  <1>5. QED
    BY <1>3, <1>4, <1>1, <1>2, CreateNFTMintFits, FailedFor

\* Operations on NFTs
LEMMA NFTTransferRefused ==
    ASSUME TypeOK, IdsDistinct, call \in Calls, call.kind = "NFTTransfer", FromCall(call), tx = Failed
    PROVE  Justified
  <1> DEFINE utxos == Arranged(utxoset, call)
  <1>1. /\ call \in Call /\ utxoset \in Seq(Utxo) /\ toX \in Seq(Utxo) /\ toC \in Seq(Utxo) /\ now \in Nat
        /\ utxos \in Seq(Utxo)
    BY CallsAre, ArrangedIs DEF TypeOK
  <1>2. BuildNFTTransferTx(utxos, call, now) = Failed
    BY DEF FromCall
  <1> HIDE DEF utxos
  <1>3. CASE PayFee(utxos, call, now) = Failed
    BY <1>1, <1>3, FeeFails, LacksX DEF utxos
  <1>4. CASE \E k \in DOMAIN call.ids : ~Has(utxos, call.ids[k])
    BY <1>4, NotThere DEF ToSet, utxos
  <1>5. QED
    BY <1>3, <1>4, <1>1, <1>2, NFTTransferFits, FailedFor

\* A mint
LEMMA SECPMintRefused ==
    ASSUME TypeOK, IdsDistinct, call \in Calls, call.kind = "SECPMint", FromCall(call), tx = Failed
    PROVE  Justified
  <1> DEFINE utxos == Arranged(utxoset, call)
  <1>1. /\ call \in Call /\ utxoset \in Seq(Utxo) /\ toX \in Seq(Utxo) /\ toC \in Seq(Utxo) /\ now \in Nat
        /\ utxos \in Seq(Utxo)
    BY CallsAre, ArrangedIs DEF TypeOK
  <1> DEFINE id == call.ids[1]
  <1>2. BuildSECPMintTx(utxos, call, now) = Failed
    BY DEF FromCall
  <1>3. ToSet(utxos) = ToSet(utxoset)
    BY <1>1, ArrangedIs
  <1> HIDE DEF utxos
  <1>4. PayFee(utxos, call, now) = Failed \/ ~Has(utxos, id) \/ UtxoOf(utxos, id).out.kind # "mint"
    BY <1>1, <1>2, SECPMintFits, FailedFor
  <1>5. id \in ToSet(call.ids)
    BY <1>1, CallsAssumption, CallType, LenProperties DEF ToSet
  <1> HIDE DEF id
  <1>6. CASE PayFee(utxos, call, now) = Failed
    BY <1>1, <1>6, FeeFails, LacksX DEF utxos
  <1>7. CASE ~Has(utxos, id)
    BY <1>7, <1>5, NotThere DEF utxos
  <1>8. CASE Has(utxos, id) /\ UtxoOf(utxos, id).out.kind # "mint"
    BY <1>1, <1>8, <1>3, <1>5, Found DEF Justified
  <1>9. QED
    BY <1>4, <1>6, <1>7, <1>8

\* An import to the X-chain
LEMMA ImportRefused ==
    ASSUME TypeOK, IdsDistinct, call \in Calls, call.kind = "Import", FromCall(call), tx = Failed
    PROVE  Justified
  <1> DEFINE utxos == Arranged(utxoset, call)
  <1>1. /\ call \in Call /\ utxoset \in Seq(Utxo) /\ toX \in Seq(Utxo) /\ toC \in Seq(Utxo) /\ now \in Nat
        /\ utxos \in Seq(Utxo)
    BY CallsAre, ArrangedIs DEF TypeOK
  <1> DEFINE atomics == Arranged(toX, call)
  <1>2. toX = <<>> \/ BuildImportTx(utxos, atomics, call, now) = Failed
    BY DEF FromCall
  <1>3. atomics \in Seq(Utxo)
    BY <1>1, ArrangedIs
  <1> HIDE DEF utxos, atomics
  <1>4. CASE BuildImportTx(utxos, atomics, call, now) = Failed
    BY <1>1, <1>3, <1>4, ImportFits, FailedFor, RestFails, LacksX DEF utxos
  <1>5. QED
    BY <1>2, <1>4 DEF Justified

\* An export of the UTXOs of the C-chain
LEMMA EvmUtxoExportRefused ==
    ASSUME TypeOK, IdsDistinct, call \in Calls, call.kind = "EvmUtxoExport", FromCall(call), tx = Failed
    PROVE  Justified
  <1> DEFINE utxos == Arranged(utxoset, call)
  <1>1. /\ call \in Call /\ utxoset \in Seq(Utxo) /\ toX \in Seq(Utxo) /\ toC \in Seq(Utxo) /\ now \in Nat
        /\ utxos \in Seq(Utxo)
    BY CallsAre, ArrangedIs DEF TypeOK
  <1> DEFINE atomics == Arranged(toC, call)
  <1>2. EvmBuildExportTx(atomics, call, now) = Failed
    BY DEF FromCall
  <1>3. atomics \in Seq(Utxo)
    BY <1>1, ArrangedIs
  <1> HIDE DEF atomics
  <1>4. call.feeAsset # call.asset \/ SelectOnC(atomics, call, now) = Failed
    BY <1>1, <1>2, <1>3, EvmUtxoExportFits, FailedFor
  <1>5. call.amount # 0
    BY <1>2, OutcomesAssumption DEF EvmBuildExportTx
  <1>6. CASE call.feeAsset = call.asset
    <2>1. Lacks(call, now, atomics)
      BY <1>1, <1>3, <1>4, <1>5, <1>6, OnCFails
    <2>2. QED
      BY <1>1, <2>1, LacksAnyOrder DEF Lacks, CannotPay, Justified, atomics
  <1>7. QED
    BY <1>6 DEF Justified

\* An import to the C-chain
LEMMA EvmImportRefused ==
    ASSUME TypeOK, IdsDistinct, call \in Calls, call.kind = "EvmImport", FromCall(call), tx = Failed
    PROVE  Justified
  <1> DEFINE utxos == Arranged(utxoset, call)
  <1>1. /\ call \in Call /\ utxoset \in Seq(Utxo) /\ toX \in Seq(Utxo) /\ toC \in Seq(Utxo) /\ now \in Nat
        /\ utxos \in Seq(Utxo)
    BY CallsAre, ArrangedIs DEF TypeOK
  <1> DEFINE atomics == Arranged(toC, call)
  <1>2. EvmApiImport(atomics, call, now) = Failed
    BY DEF FromCall
  <1>3. atomics \in Seq(Utxo) /\ Unique(atomics)
    BY <1>1, ArrangedIs DEF IdsDistinct
  <1>4. Len(atomics) = Len(toC) /\ AmountOf(atomics, AvaxAsset) = AmountOf(toC, AvaxAsset)
    BY <1>1, ArrangedAt, AnyOrder
  <1>5. call.feeAsset = AvaxAsset
    BY CallsAssumption
  <1> HIDE DEF atomics
  <1>6. CASE atomics = <<>>
    BY <1>4, <1>6, <1>1, EmptySeq DEF Justified
  <1>7. CASE EvmBuildImportTx(atomics, call, now) = Failed
    <2>1. AmountOf(atomics, AvaxAsset) < call.fee
      BY <1>1, <1>3, <1>5, <1>7, EvmImportFails, EvmImportFits, FailedFor
    <2>2. QED
      BY <1>4, <2>1 DEF CannotPay, Justified
  <1>8. QED
    BY <1>2, <1>6, <1>7 DEF EvmApiImport

\* Whatever is refused by a builder is refused for a reason.
LEMMA RefusalHolds ==
    ASSUME TypeOK, IdsDistinct, BuiltAsCalled
    PROVE  RefusalIsJustified
  <1> SUFFICES ASSUME tx = Failed PROVE Justified
    BY DEF RefusalIsJustified, Justified
  <1>1. call \in Calls /\ FromCall(call)
    BY OutcomesAssumption DEF BuiltAsCalled
  <1>2. call \in Call /\ call.kind \in Kinds
    BY <1>1, CallsAre
  <1>3. CASE call.kind = "EvmExport"
    BY <1>1, <1>3, <1>2, CallsAssumption, EvmExportFits DEF FromCall
  <1>4. QED
    BY <1>1, <1>2, <1>3, BaseRefused, ExportRefused, CreateAssetRefused, CreateNFTAssetRefused, CreateNFTMintRefused,
       NFTTransferRefused, SECPMintRefused, ImportRefused, EvmUtxoExportRefused, EvmImportRefused DEF Kinds

-----------------------------------------------------------------------------
\* What a selection sends, and its change.

\* One sequence
LEMMA FlatOne ==
    ASSUME NEW ss, Len(ss) = 1
    PROVE  FlattenSeq(ss) = ss[1]
  BY FlatSteps

\* Two sequences, one after the other
LEMMA FlatTwo ==
    ASSUME NEW ss, Len(ss) = 2, NEW p, p = ss[1], NEW q, q = ss[2]
    PROVE  FlattenSeq(ss) = p \o q
  <1>1. Len(ss) \in Nat /\ Len(ss) # 0
    OBVIOUS
  <1>2. PICK f : /\ \A i \in 1..Len(ss) : f[i] = IF i = 1 THEN ss[i] ELSE f[i - 1] \o ss[i]
                 /\ FlattenSeq(ss) = f[Len(ss)]
    BY <1>1, FlatSteps
  <1>3. QED
    BY <1>2, <1>1

\* An output that is change
ToChange(out, change) ==
    /\ out.kind = "transfer" /\ out.addresses = Ascending(change) /\ out.locktime = 0 /\ out.threshold = 1
    /\ out.amount > 0

\* An output that sends an amount
Sends(out, asset, amount, to, locktime) ==
    /\ out.kind = "transfer" /\ out.asset = asset /\ out.amount = amount
    /\ out.addresses = Ascending(to) /\ out.locktime = locktime

\* The pieces of which the outputs of a selection are made.
OutPieces(aad, amounts, addresses, locktime, threshold) ==
    [k \in DOMAIN aad.asks |->
        IF amounts[aad.asks[k].asset] > 0
        THEN <<NewOutput("transfer", aad.asks[k].asset, amounts[aad.asks[k].asset], addresses, locktime, threshold)>>
        ELSE <<>>]

\* Each has an output of its asset, or none.
LEMMA OutPiecesAre ==
    ASSUME NEW aad, WellAsked(aad), NEW amounts \in [AssetsOf(aad) -> Nat], NEW addresses \in Seq(Nat),
           NEW locktime \in Nat, NEW threshold \in Nat,
           NEW S, \A k \in DOMAIN aad.asks : amounts[aad.asks[k].asset] > 0 =>
                      NewOutput("transfer", aad.asks[k].asset, amounts[aad.asks[k].asset], addresses, locktime, threshold) \in S
    PROVE  /\ OutPieces(aad, amounts, addresses, locktime, threshold) \in Seq(Seq(S))
           /\ Len(OutPieces(aad, amounts, addresses, locktime, threshold)) = Len(aad.asks)
           /\ OutputsOf(aad, amounts, addresses, locktime, threshold)
                  = FlattenSeq(OutPieces(aad, amounts, addresses, locktime, threshold))
  <1> DEFINE ss == OutPieces(aad, amounts, addresses, locktime, threshold)
             n == Len(aad.asks)
             New(k) == NewOutput("transfer", aad.asks[k].asset, amounts[aad.asks[k].asset], addresses, locktime, threshold)
  <1>1. n \in Nat /\ DOMAIN aad.asks = 1..n
    BY AsksAre
  <1>2. \A k \in 1..n : amounts[aad.asks[k].asset] > 0 => New(k) \in S
    BY <1>1
  <1>3. ss = [k \in 1..n |-> IF amounts[aad.asks[k].asset] > 0 THEN <<New(k)>> ELSE <<>>]
    BY <1>1 DEF OutPieces
  <1>4. OutputsOf(aad, amounts, addresses, locktime, threshold) = FlattenSeq(ss)
    BY DEF OutputsOf, OutPieces
  <1> HIDE DEF New, n
  <1>5. \A k \in 1..n : ss[k] \in Seq(S)
    <2> SUFFICES ASSUME NEW k \in 1..n PROVE ss[k] \in Seq(S)
      OBVIOUS
    <2> HIDE DEF ss
    <2>1. (amounts[aad.asks[k].asset] > 0 /\ ss[k] = <<New(k)>>) \/ ss[k] = <<>>
      BY <1>3
    <2> DEFINE e == New(k)
               piece == ss[k]
    <2>2. piece = <<>> \/ (e \in S /\ piece = <<e>>)
      BY <1>2, <2>1
    <2> HIDE DEF e, piece
    <2>3. e \in S => <<e>> \in Seq(S)
      OBVIOUS
    <2>4. QED
      BY <2>2, <2>3, EmptySeq DEF piece
  <1>6. DOMAIN ss = 1..n /\ ss = [k \in 1..n |-> ss[k]]
    BY <1>3
  <1> HIDE DEF ss
  <1> DEFINE Q == Seq(S)
  <1>7. \A k \in 1..n : ss[k] \in Q
    BY <1>5
  <1> HIDE DEF Q
  <1>8. ss \in Seq(Q) /\ Len(ss) = n
    BY <1>1, <1>6, <1>7, MapSeq
  <1>9. QED
    BY <1>4, <1>8 DEF ss, n, Q

\* All change is change.
LEMMA ChangesAre ==
    ASSUME NEW aad, WellAsked(aad), NEW amounts \in [AssetsOf(aad) -> Nat], NEW change \in Seq(Nat)
    PROVE  \A k \in DOMAIN OutputsOf(aad, amounts, change, 0, 1) : ToChange(OutputsOf(aad, amounts, change, 0, 1)[k], change)
  <1> DEFINE S == {out \in [kind : {"transfer"}, asset : Asset, amount : Nat \ {0}, addresses : {Ascending(change)},
                            locktime : {0}, threshold : {1}] : TRUE}
             zero == 0
             one == 1
             outs == OutputsOf(aad, amounts, change, zero, one)
  <1>1. \A k \in DOMAIN aad.asks : amounts[aad.asks[k].asset] > 0 =>
            NewOutput("transfer", aad.asks[k].asset, amounts[aad.asks[k].asset], change, zero, one) \in S
    BY AsksAre DEF NewOutput
  <1>2. \A e \in S : ToChange(e, change)
    BY DEF ToChange
  <1>3. zero \in Nat /\ one \in Nat
    OBVIOUS
  <1> HIDE DEF S, zero, one
  <1> DEFINE ss == OutPieces(aad, amounts, change, zero, one)
  <1>4. ss \in Seq(Seq(S)) /\ outs = FlattenSeq(ss)
    BY <1>1, <1>3, OutPiecesAre
  <1> HIDE DEF outs, ss
  <1>5. QED
    BY <1>2, <1>4, LenProperties, FlatType DEF outs, zero, one

\* The outputs of one ask, and of an ask and a fee
LEMMA FewOutputs ==
    ASSUME NEW aad, WellAsked(aad), NEW amounts \in [AssetsOf(aad) -> Nat], NEW addresses \in Seq(Nat),
           NEW locktime \in Nat, NEW threshold \in Nat, NEW first, first = aad.asks[1].asset,
           \/ DOMAIN aad.asks = {1}
           \/ DOMAIN aad.asks = {1, 2} /\ amounts[aad.asks[2].asset] = 0
    PROVE  OutputsOf(aad, amounts, addresses, locktime, threshold)
               = IF amounts[first] > 0 THEN <<NewOutput("transfer", first, amounts[first], addresses, locktime, threshold)>>
                 ELSE <<>>
  <1> DEFINE ss == OutPieces(aad, amounts, addresses, locktime, threshold)
             S == {NewOutput("transfer", aad.asks[k].asset, amounts[aad.asks[k].asset], addresses, locktime, threshold) :
                      k \in DOMAIN aad.asks}
             new == NewOutput("transfer", first, amounts[first], addresses, locktime, threshold)
             piece == IF amounts[first] > 0 THEN <<new>> ELSE <<>>
             n == Len(aad.asks)
             outs == OutputsOf(aad, amounts, addresses, locktime, threshold)
  <1>1. n \in Nat /\ DOMAIN aad.asks = 1..n
    BY AsksAre
  <1>2. \A k \in DOMAIN aad.asks :
            NewOutput("transfer", aad.asks[k].asset, amounts[aad.asks[k].asset], addresses, locktime, threshold) \in S
    OBVIOUS
  <1>3. ss[1] = piece /\ (DOMAIN aad.asks = {1, 2} => ss[2] = <<>>)
    <2>1. 1 \in DOMAIN aad.asks
      OBVIOUS
    <2>2. \A k \in DOMAIN aad.asks :
              ss[k] = IF amounts[aad.asks[k].asset] > 0
                      THEN <<NewOutput("transfer", aad.asks[k].asset, amounts[aad.asks[k].asset], addresses, locktime, threshold)>>
                      ELSE <<>>
      BY DEF OutPieces
    <2> HIDE DEF ss
    <2>3. ASSUME DOMAIN aad.asks = {1, 2} PROVE ss[2] = <<>>
      <3>1. 2 \in DOMAIN aad.asks /\ ~(amounts[aad.asks[2].asset] > 0)
        BY <2>3
      <3>2. QED
        BY <2>2, <3>1
    <2>4. QED
      BY <2>3, <2>1, <2>2
  <1> HIDE DEF S
  <1>4. Len(ss) = n /\ outs = FlattenSeq(ss)
    BY <1>2, OutPiecesAre
  <1> HIDE DEF n, outs, ss
  <1>5. CASE DOMAIN aad.asks = {1}
    <2>1. Len(ss) = 1 /\ Len(ss) \in {1, 2}
      BY <1>4, <1>1, <1>5
    <2>2. QED
      BY <1>3, <1>4, <2>1, FlatOne DEF outs
  <1>6. CASE DOMAIN aad.asks = {1, 2} /\ amounts[aad.asks[2].asset] = 0
    <2>1. n = 2
      <3>1. 2 \in 1..n
        BY <1>1, <1>6
      <3>2. QED
        BY <1>1, <3>1, <1>6
    <2>2. Len(ss) = 2 /\ Len(ss) \in {1, 2}
      BY <1>4, <2>1
    <2>3. FlattenSeq(ss) = piece \o <<>>
      <3> HIDE DEF piece
      <3>1. QED
        BY <1>3, <1>6, <2>2, FlatTwo
    <2>4. outs = piece \o <<>>
      BY <1>4, <2>3
    <2> HIDE DEF new
    <2>5. QED
      BY <2>4, PairIs DEF outs, new
  <1>7. QED
    BY <1>5, <1>6

\* A selection sends the amount in one output, and the rest is change.
Delivers(got, out, amount, change) ==
    /\ got.outs = IF amount > 0 THEN <<out>> ELSE <<>>
    /\ \A k \in DOMAIN got.change : ToChange(got.change[k], change)

\* One ask, or two of which the second has no amount
Leads(aad, asset, amount) ==
    /\ WellAsked(aad) /\ aad.asks[1].asset = asset /\ aad.asks[1].amount = amount
    /\ \/ DOMAIN aad.asks = {1}
       \/ DOMAIN aad.asks = {1, 2} /\ aad.asks[2].amount = 0

\* What is selected for such asks is sent so.
LEMMA SelectionDelivers ==
    ASSUME NEW utxos \in Seq(Utxo), NEW aad, NEW asset, NEW amount, Leads(aad, asset, amount), NEW time,
           NEW locktime \in Nat, NEW threshold \in Nat,
           GetMinimumSpendable(utxos, aad, time, locktime, threshold) # Failed
    PROVE  Delivers(GetMinimumSpendable(utxos, aad, time, locktime, threshold),
                    NewOutput("transfer", asset, amount, aad.to, locktime, threshold), amount, aad.change)
  <1> DEFINE selected == Selected(utxos, aad, time)
             amounts == [a \in DOMAIN selected.amounts |-> selected.amounts[a].amount]
             changes == [a \in DOMAIN selected.amounts |-> selected.amounts[a].change]
             to == aad.to
             change == aad.change
             outs == OutputsOf(aad, amounts, to, locktime, threshold)
             rest == OutputsOf(aad, changes, change, 0, 1)
             got == GetMinimumSpendable(utxos, aad, time, locktime, threshold)
  <1>1. got = [ins |-> selected.ins, outs |-> outs, change |-> rest]
    BY DEF GetMinimumSpendable
  <1>2. WellAsked(aad) /\ aad.asks[1].asset = asset /\ aad.asks[1].amount = amount
    BY DEF Leads
  <1>3. SelectInv(utxos, aad, selected)
    BY <1>2, SelectedFacts
  <1> HIDE DEF selected, got
  <1>4. selected.amounts \in [AssetsOf(aad) -> AssetAmounts]
    BY <1>3 DEF SelectInv
  <1>5. amounts \in [AssetsOf(aad) -> Nat] /\ changes \in [AssetsOf(aad) -> Nat]
    BY <1>4 DEF AssetAmounts
  <1>6. \A a \in AssetsOf(aad) : amounts[a] = selected.amounts[a].amount
    BY <1>4
  <1>7. to \in Seq(Nat) /\ change \in Seq(Nat)
    BY <1>2 DEF WellAsked
  <1> HIDE DEF amounts, changes, to, change
  <1>8. ASSUME NEW k \in DOMAIN aad.asks PROVE amounts[aad.asks[k].asset] = aad.asks[k].amount
    <2>1. Unspent(aad)[aad.asks[k].asset] = NewAssetAmount(aad.asks[k].amount, aad.asks[k].burn)
      BY <1>2, UnspentIs
    <2>2. QED
      BY <1>6, <2>1, <1>3 DEF OneSpent, NewAssetAmount, SelectInv, AssetsOf
  <1>9. 1 \in DOMAIN aad.asks /\ amounts[asset] = amount
    BY <1>2, <1>8 DEF Leads
  <1>10. \/ DOMAIN aad.asks = {1}
         \/ DOMAIN aad.asks = {1, 2} /\ amounts[aad.asks[2].asset] = 0
    BY <1>8 DEF Leads
  <1>11. outs = IF amounts[asset] > 0 THEN <<NewOutput("transfer", asset, amounts[asset], to, locktime, threshold)>> ELSE <<>>
    <2>1. asset = aad.asks[1].asset
      BY <1>2
    <2> HIDE DEF outs
    <2>2. QED
      BY <1>2, <1>5, <1>7, <1>10, <2>1, FewOutputs DEF outs
  <1>12. \A k \in DOMAIN rest : ToChange(rest[k], change)
    BY <1>2, <1>5, <1>7, ChangesAre
  <1> HIDE DEF outs, rest
  <1>13. Delivers(got, NewOutput("transfer", asset, amount, to, locktime, threshold), amount, change)
    BY <1>9, <1>11, <1>12, <1>1 DEF Delivers
  <1>14. QED
    BY <1>13 DEF got, to, change

\* One ask
LEMMA OneLeads ==
    ASSUME NEW asset \in Asset, NEW amount \in Nat, NEW burn \in Nat,
           NEW to \in Seq(Nat), NEW from \in Seq(Nat), NEW change \in Seq(Nat)
    PROVE  /\ Leads(Aad(<<Ask(asset, amount, burn)>>, to, from, change), asset, amount)
           /\ Aad(<<Ask(asset, amount, burn)>>, to, from, change).to = to
           /\ Aad(<<Ask(asset, amount, burn)>>, to, from, change).change = change
  <1> DEFINE aad == Aad(<<Ask(asset, amount, burn)>>, to, from, change)
  <1>1. AsksOne(aad, asset, burn)
    BY OneAsk
  <1>2. aad.asks[1] = Ask(asset, amount, burn) /\ aad.to = to /\ aad.change = change
    BY DEF Aad
  <1>3. aad.asks[1].amount = amount
    BY <1>2 DEF Ask
  <1> HIDE DEF aad
  <1>4. QED
    BY <1>2, <1>1, <1>3 DEF aad, Leads, AsksOne

\* Two asks
LEMMA TwoLead ==
    ASSUME NEW asset \in Asset, NEW amount \in Nat, NEW feeAsset \in Asset, NEW fee \in Nat, asset # feeAsset,
           NEW to \in Seq(Nat), NEW from \in Seq(Nat), NEW change \in Seq(Nat)
    PROVE  /\ Leads(Aad(<<Ask(asset, amount, 0), Ask(feeAsset, 0, fee)>>, to, from, change), asset, amount)
           /\ Aad(<<Ask(asset, amount, 0), Ask(feeAsset, 0, fee)>>, to, from, change).to = to
           /\ Aad(<<Ask(asset, amount, 0), Ask(feeAsset, 0, fee)>>, to, from, change).change = change
  <1> DEFINE aad == Aad(<<Ask(asset, amount, 0), Ask(feeAsset, 0, fee)>>, to, from, change)
  <1>1. AsksTwo(aad, asset, feeAsset, fee)
    BY TwoAsks
  <1>2. /\ aad.asks[1] = Ask(asset, amount, 0) /\ aad.asks[2] = Ask(feeAsset, 0, fee)
        /\ aad.to = to /\ aad.change = change
    BY DEF Aad
  <1>3. aad.asks[1].amount = amount /\ aad.asks[2].amount = 0
    BY <1>2 DEF Ask
  <1> HIDE DEF aad
  <1>4. QED
    BY <1>2, <1>1, <1>3 DEF aad, Leads, AsksTwo

\* A selection for one ask
LEMMA OneDelivers ==
    ASSUME NEW utxos \in Seq(Utxo), NEW time, NEW asset \in Asset, NEW amount \in Nat, NEW burn \in Nat,
           NEW to \in Seq(Nat), NEW from \in Seq(Nat), NEW change \in Seq(Nat), NEW locktime \in Nat, NEW threshold \in Nat,
           NEW got, got = GetMinimumSpendable(utxos, Aad(<<Ask(asset, amount, burn)>>, to, from, change),
                                              time, locktime, threshold),
           got # Failed
    PROVE  Delivers(got, NewOutput("transfer", asset, amount, to, locktime, threshold), amount, change)
  <1> DEFINE aad == Aad(<<Ask(asset, amount, burn)>>, to, from, change)
  <1>1. Leads(aad, asset, amount) /\ aad.to = to /\ aad.change = change
    BY OneLeads
  <1>2. got = GetMinimumSpendable(utxos, aad, time, locktime, threshold)
    OBVIOUS
  <1> HIDE DEF aad
  <1>3. QED
    BY <1>1, <1>2, SelectionDelivers

\* A selection for two asks
LEMMA TwoDeliver ==
    ASSUME NEW utxos \in Seq(Utxo), NEW time, NEW asset \in Asset, NEW amount \in Nat, NEW feeAsset \in Asset,
           NEW fee \in Nat, asset # feeAsset,
           NEW to \in Seq(Nat), NEW from \in Seq(Nat), NEW change \in Seq(Nat), NEW locktime \in Nat, NEW threshold \in Nat,
           NEW got, got = GetMinimumSpendable(utxos, Aad(<<Ask(asset, amount, 0), Ask(feeAsset, 0, fee)>>, to, from, change),
                                              time, locktime, threshold),
           got # Failed
    PROVE  Delivers(got, NewOutput("transfer", asset, amount, to, locktime, threshold), amount, change)
  <1> DEFINE aad == Aad(<<Ask(asset, amount, 0), Ask(feeAsset, 0, fee)>>, to, from, change)
  <1>1. Leads(aad, asset, amount) /\ aad.to = to /\ aad.change = change
    BY TwoLead
  <1>2. got = GetMinimumSpendable(utxos, aad, time, locktime, threshold)
    OBVIOUS
  <1> HIDE DEF aad
  <1>3. QED
    BY <1>1, <1>2, SelectionDelivers

\* An amount and a fee: the amount is sent.
LEMMA SelectForDelivers ==
    ASSUME NEW utxos \in Seq(Utxo), NEW c \in Call, NEW time, SelectFor(utxos, c, time) # Failed
    PROVE  Delivers(SelectFor(utxos, c, time), NewOutput("transfer", c.asset, c.amount, c.to, c.locktime, 1),
                    c.amount, c.change)
  <1> DEFINE asset == c.asset
             amount == c.amount
             feeAsset == c.feeAsset
             fee == c.fee
             to == c.to
             from == c.from
             change == c.change
             locktime == c.locktime
             got == SelectFor(utxos, c, time)
             one == 1
             zero == 0
  <1>1. /\ asset \in Asset /\ feeAsset \in Asset /\ amount \in Nat /\ fee \in Nat /\ to \in Seq(Nat)
        /\ change \in Seq(Nat) /\ from \in Seq(Nat) /\ locktime \in Nat /\ one \in Nat /\ zero \in Nat
    BY CallType
  <1>2. got = GetMinimumSpendable(utxos, Aad(AmountAndFee(c), to, from, change), time, locktime, one)
    BY DEF SelectFor
  <1>3. AmountAndFee(c) =
           IF asset = feeAsset THEN <<Ask(asset, amount, fee)>>
           ELSE IF fee > 0 THEN <<Ask(asset, amount, 0), Ask(feeAsset, 0, fee)>> ELSE <<Ask(asset, amount, zero)>>
    <2> DEFINE p == Ask(asset, amount, 0)
               q == Ask(feeAsset, 0, fee)
    <2>1. AmountAndFee(c) = IF asset = feeAsset THEN <<Ask(asset, amount, fee)>>
                            ELSE <<p>> \o (IF fee > 0 THEN <<q>> ELSE <<>>)
      BY DEF AmountAndFee, FeeCheck
    <2> HIDE DEF p, q
    <2>2. QED
      BY <2>1, PairIs DEF p, q
  <1>4. got # Failed
    OBVIOUS
  <1> HIDE DEF asset, amount, feeAsset, fee, to, from, change, locktime, got, one, zero
  <1> DEFINE out == NewOutput("transfer", asset, amount, to, locktime, one)
  <1>5. CASE asset = feeAsset
    <2>1. Delivers(got, out, amount, change)
      BY <1>1, <1>4, <1>2, <1>3, <1>5, OneDelivers
    <2>2. QED
      BY <2>1 DEF asset, amount, to, change, locktime, got, one
  <1>6. CASE asset # feeAsset /\ fee > 0
    <2>1. Delivers(got, out, amount, change)
      BY <1>1, <1>4, <1>6, <1>2, <1>3, TwoDeliver
    <2>2. QED
      BY <2>1 DEF asset, amount, to, change, locktime, got, one
  <1>7. CASE asset # feeAsset /\ ~(fee > 0)
    <2>1. Delivers(got, out, amount, change)
      BY <1>1, <1>4, <1>2, <1>3, <1>7, OneDelivers
    <2>2. QED
      BY <2>1 DEF asset, amount, to, change, locktime, got, one
  <1>8. QED
    BY <1>5, <1>6, <1>7

\* Nothing is sent, and the rest is change.
OnlyChange(got, change) == got.outs = <<>> /\ \A k \in DOMAIN got.change : ToChange(got.change[k], change)

\* What is selected for a fee is change.
LEMMA FeeDelivers ==
    ASSUME NEW utxos \in Seq(Utxo), NEW c \in Call, NEW time, PayFee(utxos, c, time) # Failed
    PROVE  OnlyChange(PayFee(utxos, c, time), c.change)
  <1> DEFINE asset == c.feeAsset
             fee == c.fee
             from == c.from
             change == c.change
             got == PayFee(utxos, c, time)
             to == <<>>
             one == 1
             zero == 0
  <1>1. /\ asset \in Asset /\ fee \in Nat /\ to \in Seq(Nat)
        /\ change \in Seq(Nat) /\ from \in Seq(Nat) /\ one \in Nat /\ zero \in Nat
    BY CallType, EmptySeq
  <1>2. CASE ~FeeCheck(fee)
    BY <1>2 DEF PayFee, OnlyChange
  <1>3. CASE FeeCheck(fee)
    <2>1. got = GetMinimumSpendable(utxos, Aad(<<Ask(asset, zero, fee)>>, to, from, change), time, zero, one)
      BY <1>3 DEF PayFee
    <2>2. got # Failed
      OBVIOUS
    <2>3. ~(zero > 0)
      OBVIOUS
    <2> HIDE DEF asset, fee, to, from, change, got, one, zero
    <2>4. Delivers(got, NewOutput("transfer", asset, zero, to, zero, one), zero, change)
      BY <1>1, <2>1, <2>2, OneDelivers
    <2>5. QED
      BY <2>4, <2>3 DEF Delivers, OnlyChange, got, change
  <1>4. QED
    BY <1>2, <1>3

\* So is what is selected for the rest of a fee.
LEMMA RestDelivers ==
    ASSUME NEW utxos \in Seq(Utxo), NEW atomics \in Seq(Utxo), NEW c \in Call, NEW time,
           FeeCheck(FeeRemaining(c, atomics)), RestFor(utxos, atomics, c, time) # Failed
    PROVE  /\ OnlyChange(RestFor(utxos, atomics, c, time), c.change)
           /\ Settled(Aad(<<Ask(c.feeAsset, 0, FeeRemaining(c, atomics))>>, c.to, c.from, c.change), utxos,
                      RestFor(utxos, atomics, c, time))
           /\ RestFor(utxos, atomics, c, time).ins # <<>>
  <1> DEFINE asset == c.feeAsset
             rest == FeeRemaining(c, atomics)
             to == c.to
             from == c.from
             change == c.change
             locktime == c.locktime
             got == RestFor(utxos, atomics, c, time)
             one == 1
             zero == 0
             aad == Aad(<<Ask(asset, zero, rest)>>, to, from, change)
  <1>1. /\ asset \in Asset /\ c.fee \in Nat /\ to \in Seq(Nat) /\ locktime \in Nat
        /\ change \in Seq(Nat) /\ from \in Seq(Nat) /\ one \in Nat /\ zero \in Nat
    BY CallType
  <1>2. rest \in Nat /\ rest > 0
    BY <1>1, FeePaidIs, HeldIs DEF FeeRemaining, FeeCheck
  <1>3. got = GetMinimumSpendable(utxos, aad, time, locktime, one) /\ got # Failed /\ ~(zero > 0)
    BY DEF RestFor
  <1> HIDE DEF asset, rest, to, from, change, locktime, got, one, zero
  <1>4. Delivers(got, NewOutput("transfer", asset, zero, to, locktime, one), zero, change)
    BY <1>1, <1>2, <1>3, OneDelivers
  <1>5. OnlyChange(got, change)
    BY <1>3, <1>4 DEF Delivers, OnlyChange
  <1>6. AsksOne(aad, asset, rest)
    BY <1>1, <1>2, OneAsk
  <1>7. aad = Aad(<<Ask(c.feeAsset, 0, FeeRemaining(c, atomics))>>, c.to, c.from, c.change)
    BY DEF asset, zero, rest, to, from, change
  <1> HIDE DEF aad
  <1>8. Settled(aad, utxos, got)
    BY <1>1, <1>3, <1>6, SelectionSettles DEF AsksOne
  <1>9. AmountIn(got.ins, asset) = AmountIn(got.outs, asset) + AmountIn(got.change, asset) + rest
    BY <1>6, <1>8, SettledOne DEF Loses
  <1>10. got.ins # <<>>
    BY <1>2, <1>9, <1>8, AmountEmpty, AmountInNat DEF Settled
  <1>11. QED
    BY <1>5, <1>8, <1>10, <1>7 DEF got, change

\* An export of the UTXOs of the C-chain sends the amount.
LEMMA OnCDelivers ==
    ASSUME NEW utxos \in Seq(Utxo), NEW c \in Call, NEW time, SelectOnC(utxos, c, time) # Failed
    PROVE  Delivers(SelectOnC(utxos, c, time), NewOutput("transfer", c.asset, c.amount, c.to, c.locktime, 1),
                    c.amount, c.change)
  <1> DEFINE asset == c.asset
             amount == c.amount
             fee == c.fee
             to == c.to
             from == c.from
             change == c.change
             locktime == c.locktime
             got == SelectOnC(utxos, c, time)
             one == 1
  <1>1. /\ asset \in Asset /\ amount \in Nat /\ fee \in Nat /\ to \in Seq(Nat) /\ locktime \in Nat
        /\ change \in Seq(Nat) /\ from \in Seq(Nat) /\ one \in Nat
    BY CallType
  <1>2. got = GetMinimumSpendable(utxos, Aad(<<Ask(asset, amount, fee)>>, to, from, change), time, locktime, one)
        /\ got # Failed
    BY DEF SelectOnC
  <1> HIDE DEF asset, amount, fee, to, from, change, locktime, got, one
  <1>3. Delivers(got, NewOutput("transfer", asset, amount, to, locktime, one), amount, change)
    BY <1>1, <1>2, OneDelivers
  <1>4. QED
    BY <1>3 DEF asset, amount, to, change, locktime, got, one

-----------------------------------------------------------------------------
\* What is asked for arrives, one kind of call at a time.

\* Nothing else is asked of the other calls.
LEMMA NotAsked ==
    /\ call.kind \notin {"Base", "Export", "EvmExport", "EvmUtxoExport"} => MoveArrives
    /\ call.kind \notin {"Import", "EvmImport"} => ImportArrives
    /\ call.kind \notin {"CreateNFTMint", "NFTTransfer", "SECPMint"} => OperationArrives
    /\ call.kind \notin {"CreateAsset", "CreateNFTAsset"} => AssetArrives
  BY DEF MoveArrives, ImportArrives, OperationArrives, AssetArrives

\* What is built has its form.
LEMMA BuiltForm ==
    ASSUME NEW t, NEW form, NEW reason, Outcome(t, form, reason), t \notin {Failed, Undefined}
    PROVE  ~reason /\ t = form
  BY DEF Outcome

\* Change is change of the call.
LEMMA ChangeIsChange ==
    ASSUME NEW out, ToChange(out, call.change)
    PROVE  IsChange(out)
  BY DEF ToChange, IsChange

\* An output for the call, whatever it needs to be spent
LEMMA SentIsAsked ==
    ASSUME NEW threshold
    PROVE  IsAsked(NewOutput("transfer", call.asset, call.amount, call.to, call.locktime, threshold))
  BY DEF NewOutput, IsAsked

\* What a call is built from
LEMMA CallIs ==
    ASSUME TypeOK, call \in Calls
    PROVE  /\ call \in Call /\ utxoset \in Seq(Utxo) /\ toX \in Seq(Utxo) /\ toC \in Seq(Utxo) /\ now \in Nat
           /\ Arranged(utxoset, call) \in Seq(Utxo) /\ Arranged(toX, call) \in Seq(Utxo) /\ Arranged(toC, call) \in Seq(Utxo)
  BY CallsAre, ArrangedIs DEF TypeOK

\* A transfer
LEMMA BaseArrives ==
    ASSUME TypeOK, call \in Calls, call.kind = "Base", FromCall(call), Built
    PROVE  MoveArrives
  <1> DEFINE utxos == Arranged(utxoset, call)
             got == SelectFor(utxos, call, now)
             out == NewOutput("transfer", call.asset, call.amount, call.to, call.locktime, 1)
             change == got.change
  <1>1. call \in Call /\ utxos \in Seq(Utxo)
    BY CallIs
  <1>2. tx = BuildBaseTx(utxos, call, now) /\ tx \notin {Failed, Undefined}
    BY DEF FromCall, Built
  <1> HIDE DEF utxos
  <1>3. got # Failed /\ tx = SendingTx(got)
    BY <1>1, <1>2, BaseFits, BuiltForm
  <1>4. call.amount \in Nat /\ call.amount # 0
    BY <1>1, <1>2, CallType DEF BuildBaseTx
  <1>5. Delivers(got, out, call.amount, call.change)
    BY <1>1, <1>3, SelectForDelivers
  <1>6. Pays(call, utxos, got)
    BY <1>1, <1>3, SelectPays
  <1> HIDE DEF got
  <1>7. tx.outs = got.outs \o change
    BY <1>3 DEF SendingTx, NoTx
  <1>8. got.outs = <<out>> /\ got.outs \in Seq(Output) /\ change \in Seq(Output)
    BY <1>4, <1>5, <1>6 DEF Delivers, Pays
  <1>9. \A k \in DOMAIN change : IsChange(change[k])
    BY <1>5, ChangeIsChange DEF Delivers
  <1>10. IsAsked(out)
    BY SentIsAsked
  <1> HIDE DEF out, change
  <1>11. QED
    BY <1>9, <1>10, <1>8, <1>7, FrontAnd DEF MoveArrives

\* An export
LEMMA ExportArrives ==
    ASSUME TypeOK, call \in Calls, call.kind = "Export", FromCall(call), Built
    PROVE  MoveArrives
  <1> DEFINE utxos == Arranged(utxoset, call)
             got == SelectFor(utxos, call, now)
             out == NewOutput("transfer", call.asset, call.amount, call.to, call.locktime, 1)
  <1>1. call \in Call /\ utxos \in Seq(Utxo)
    BY CallIs
  <1>2. tx = BuildExportTx(utxos, call, now) /\ tx \notin {Failed, Undefined}
    BY DEF FromCall, Built
  <1> HIDE DEF utxos
  <1>3. got # Failed /\ tx = ExportingTx(got)
    BY <1>1, <1>2, ExportFits, BuiltForm
  <1>4. call.amount \in Nat /\ call.amount # 0
    BY <1>1, <1>2, CallType DEF BuildExportTx
  <1>5. Delivers(got, out, call.amount, call.change)
    BY <1>1, <1>3, SelectForDelivers
  <1> HIDE DEF got
  <1>6. tx.exported = <<out>> /\ \A k \in DOMAIN tx.outs : IsChange(tx.outs[k])
    BY <1>4, <1>5, <1>3, ChangeIsChange DEF Delivers, ExportingTx, NoTx
  <1>7. IsAsked(out)
    BY SentIsAsked
  <1> HIDE DEF out
  <1>8. QED
    BY <1>6, <1>7 DEF MoveArrives, IsExported

\* An export from the account
LEMMA EvmExportArrives ==
    ASSUME TypeOK, call \in Calls, call.kind = "EvmExport", FromCall(call), Built
    PROVE  MoveArrives
  <1> DEFINE out == NewOutput("transfer", call.asset, call.amount, call.to, call.locktime, call.toThreshold)
  <1>1. tx = EvmExportTx(call)
    BY CallIs, EvmExportFits, CallsAssumption DEF FromCall
  <1>2. tx.exported = <<out>>
    BY <1>1 DEF EvmExportTx, NoTx
  <1>3. IsAsked(out)
    BY SentIsAsked
  <1> HIDE DEF out
  <1>4. QED
    BY <1>3, <1>2 DEF MoveArrives, IsExported

\* An export of the UTXOs of the C-chain
LEMMA EvmUtxoExportArrives ==
    ASSUME TypeOK, call \in Calls, call.kind = "EvmUtxoExport", FromCall(call), Built
    PROVE  MoveArrives
  <1> DEFINE atomics == Arranged(toC, call)
             got == SelectOnC(atomics, call, now)
             out == NewOutput("transfer", call.asset, call.amount, call.to, call.locktime, 1)
  <1>1. call \in Call /\ atomics \in Seq(Utxo)
    BY CallIs
  <1>2. tx = EvmBuildExportTx(atomics, call, now) /\ tx \notin {Failed, Undefined}
    BY DEF FromCall, Built
  <1> HIDE DEF atomics
  <1>3. got # Failed /\ tx = [NoTx EXCEPT !.exported = got.outs]
    BY <1>1, <1>2, EvmUtxoExportFits, BuiltForm
  <1>4. call.amount \in Nat /\ call.amount # 0
    BY <1>1, <1>2, CallType DEF EvmBuildExportTx
  <1>5. Delivers(got, out, call.amount, call.change)
    BY <1>1, <1>3, OnCDelivers
  <1> HIDE DEF got
  <1>6. tx.exported = <<out>>
    BY <1>3, <1>4, <1>5 DEF NoTx, Delivers
  <1>7. IsAsked(out)
    BY SentIsAsked
  <1> HIDE DEF out
  <1>8. QED
    BY <1>7, <1>6 DEF MoveArrives, IsExported

\* An output of an import is one for the receivers, with an amount.
ImportedOne(out, c) ==
    \E asset \in Asset, amount \in Nat :
        amount > 0 /\ out = NewOutput("transfer", asset, amount, c.to, c.locktime, c.toThreshold)

\* All outputs of an import that pays its fee are.
LEMMA ImportedOutsGo ==
    ASSUME NEW c \in Call, NEW atomics \in Seq(Utxo)
    PROVE  \A k \in DOMAIN ImportedOuts(c, atomics) : ImportedOne(ImportedOuts(c, atomics)[k], c)
  <1> DEFINE n == Len(atomics)
             S == {NewOutput("transfer", p[1], p[2], c.to, c.locktime, c.toThreshold) : p \in Asset \X (Nat \ {0})}
             pieces == [k \in 1..n |-> IF InFeeAmount(c, atomics, k) > 0 THEN <<ImportedOut(c, atomics, k)>> ELSE <<>>]
             outs == ImportedOuts(c, atomics)
  <1>1. n \in Nat /\ DOMAIN atomics = 1..n /\ \A k \in 1..n : atomics[k] \in Utxo /\ InFeeAmount(c, atomics, k) \in Nat
    BY HeldIs, FeePaidIs
  <1>2. outs = FlattenSeq(pieces)
    BY <1>1 DEF ImportedOuts
  <1>3. ASSUME NEW k \in 1..n, InFeeAmount(c, atomics, k) > 0 PROVE ImportedOut(c, atomics, k) \in S
    <2> DEFINE asset == atomics[k].out.asset
               amount == InFeeAmount(c, atomics, k)
    <2>1. asset \in Asset
      BY <1>1, OutputAmounts DEF Utxo
    <2>2. ImportedOut(c, atomics, k) = NewOutput("transfer", asset, amount, c.to, c.locktime, c.toThreshold)
      BY DEF ImportedOut
    <2>3. amount \in Nat /\ amount > 0
      BY <1>1, <1>3
    <2> HIDE DEF asset, amount
    <2>4. <<asset, amount>> \in Asset \X (Nat \ {0}) /\ <<asset, amount>>[1] = asset /\ <<asset, amount>>[2] = amount
      BY <2>1, <2>3
    <2>5. QED
      BY <2>2, <2>4
  <1>4. ASSUME NEW e \in S PROVE ImportedOne(e, c)
    BY DEF ImportedOne
  <1> HIDE DEF S, n
  <1>5. \A k \in 1..n : pieces[k] \in Seq(S)
    <2> SUFFICES ASSUME NEW k \in 1..n PROVE pieces[k] \in Seq(S)
      OBVIOUS
    <2> DEFINE e == ImportedOut(c, atomics, k)
               piece == pieces[k]
    <2>1. (InFeeAmount(c, atomics, k) > 0 /\ piece = <<e>>) \/ piece = <<>>
      OBVIOUS
    <2>2. InFeeAmount(c, atomics, k) > 0 => e \in S
      BY <1>3
    <2> HIDE DEF e, piece
    <2>3. QED
      BY <2>1, <2>2, EmptySeq DEF piece
  <1>6. DOMAIN pieces = 1..n /\ pieces = [k \in 1..n |-> pieces[k]]
    OBVIOUS
  <1> HIDE DEF pieces
  <1> DEFINE Q == Seq(S)
  <1>7. \A k \in 1..n : pieces[k] \in Q
    BY <1>5
  <1> HIDE DEF Q
  <1>8. outs \in Seq(S)
    BY <1>2, <1>1, <1>6, <1>7, FlatType, MapSeq DEF Q
  <1> HIDE DEF outs
  <1>9. QED
    BY <1>4, <1>8, LenProperties DEF outs

\* What comes in goes out, without what is burned.
LEMMA AllArrives ==
    ASSUME call \in Call, NEW utxos, NEW atomics, call.kind # "EvmUtxoExport",
           Fits(call, utxos, atomics, tx), tx.debited = <<>>, tx.exported = <<>>,
           NEW a \in Asset
    PROVE  /\ tx.credited = <<>> => AmountIn(tx.outs, a) = Imported(a)
           /\ tx.outs = <<>> => AmountIn(tx.credited, a) = Imported(a)
  <1>1. tx \in Tx /\ InTotal(tx, a) = OutTotal(tx, a) + Burns(call, tx, a)
    BY DEF Fits
  <1>2. AmountIn(<<>>, a) = 0
    BY AmountEmpty
  <1>3. /\ AmountIn(tx.ins, a) \in Nat /\ AmountIn(tx.imports, a) \in Nat /\ AmountIn(tx.outs, a) \in Nat
        /\ AmountIn(tx.credited, a) \in Nat
    BY <1>1, PartsAre
  <1>4. AmountIn(tx.ins, a) + AmountIn(tx.imports, a) = AmountIn(tx.outs, a) + AmountIn(tx.credited, a) + Burns(call, tx, a)
    BY <1>1, <1>3, <1>2 DEF InTotal, OutTotal
  <1>5. Burns(call, tx, a) \in Int
    BY <1>1, BurnsNat
  <1>6. ASSUME tx.credited = <<>> PROVE AmountIn(tx.outs, a) = Imported(a)
    BY <1>2, <1>6, <1>3, <1>5, <1>4 DEF Imported
  <1>7. ASSUME tx.outs = <<>> PROVE AmountIn(tx.credited, a) = Imported(a)
    BY <1>2, <1>7, <1>3, <1>5, <1>4 DEF Imported
  <1>8. QED
    BY <1>6, <1>7

\* An import
LEMMA ImportArrivesX ==
    ASSUME TypeOK, call \in Calls, call.kind = "Import", FromCall(call), Built
    PROVE  ImportArrives
  <1> DEFINE utxos == Arranged(utxoset, call)
             atomics == Arranged(toX, call)
             rest == FeeCheck(FeeRemaining(call, atomics))
             got == RestFor(utxos, atomics, call, now)
             ins == ImportInputs(atomics, now)
  <1>1. call \in Call /\ utxos \in Seq(Utxo) /\ atomics \in Seq(Utxo)
    BY CallIs
  <1>2. tx = BuildImportTx(utxos, atomics, call, now) /\ tx \notin {Failed, Undefined}
    BY DEF FromCall, Built
  <1> HIDE DEF utxos, atomics
  <1>3. /\ ~(rest /\ got = Failed)
        /\ tx = IF rest THEN UnpaidImportTx(atomics, now, got) ELSE PaidImportTx(atomics, call, now)
    BY <1>1, <1>2, ImportFits, BuiltForm
  <1>4. tx.debited = <<>> /\ tx.exported = <<>> /\ tx.credited = <<>>
    BY <1>3 DEF UnpaidImportTx, PaidImportTx, NoTx
  <1>5. \A a \in Asset : AmountIn(tx.outs, a) = Imported(a)
    BY <1>1, <1>4, <1>2, AllArrives, ImportFits DEF Result
  <1> DEFINE Right(k) == IF tx.ins = <<>> THEN tx.outs[k].addresses = Ascending(call.to) ELSE IsChange(tx.outs[k])
  <1>6. CASE rest
    <2>1. OnlyChange(got, call.change) /\ got.ins # <<>>
      BY <1>1, <1>3, <1>6, RestDelivers
    <2>2. Settled(Aad(<<Ask(call.feeAsset, 0, FeeRemaining(call, atomics))>>, call.to, call.from, call.change), utxos, got)
      BY <1>1, <1>3, <1>6, RestDelivers
    <2> HIDE DEF got, rest
    <2>3. tx.ins = got.ins /\ tx.outs = got.outs \o got.change
      BY <1>3, <1>6 DEF UnpaidImportTx, NoTx
    <2>4. ASSUME NEW k \in DOMAIN tx.outs PROVE Right(k)
      BY <2>1, <2>3, <2>2, ChangeIsChange, ConcatEmptySeq DEF OnlyChange, Settled
    <2> HIDE DEF Right
    <2>5. QED
      BY <1>5, <2>4 DEF ImportArrives, Right
  <1>7. CASE ~rest
    <2> HIDE DEF rest
    <2>1. tx.ins = <<>> /\ tx.outs = ImportedOuts(call, atomics)
      BY <1>3, <1>7 DEF PaidImportTx, NoTx
    <2>2. ASSUME NEW k \in DOMAIN tx.outs PROVE tx.outs[k].addresses = Ascending(call.to)
      BY <1>1, <2>1, <2>2, ImportedOutsGo DEF ImportedOne, NewOutput
    <2>3. \A k \in DOMAIN tx.outs : Right(k)
      BY <2>1, <2>2
    <2> HIDE DEF Right
    <2>4. QED
      BY <1>5, <2>3 DEF ImportArrives, Right
  <1>8. QED
    BY <1>6, <1>7

\* An import to the C-chain
LEMMA EvmImportArrives ==
    ASSUME TypeOK, IdsDistinct, call \in Calls, call.kind = "EvmImport", FromCall(call), Built
    PROVE  ImportArrives
  <1> DEFINE atomics == Arranged(toC, call)
  <1>1. call \in Call /\ atomics \in Seq(Utxo) /\ Unique(atomics) /\ call.feeAsset = AvaxAsset
    BY CallIs, ArrangedIs, CallsAssumption DEF IdsDistinct
  <1>2. tx = EvmBuildImportTx(atomics, call, now) /\ tx \notin {Failed, Undefined}
    BY DEF FromCall, Built, EvmApiImport
  <1> HIDE DEF atomics
  <1>3. tx = EvmImportTx(atomics, call, now)
    BY <1>1, <1>2, EvmImportFits, BuiltForm
  <1>4. tx.debited = <<>> /\ tx.exported = <<>> /\ tx.outs = <<>>
    BY <1>3 DEF EvmImportTx, NoTx
  <1>5. QED
    BY <1>1, <1>4, <1>2, AllArrives, EvmImportFits DEF ImportArrives, Result

\* Operations on NFTs, each by itself or with all
LEMMA NFTsArrive ==
    ASSUME call.kind \in {"CreateNFTMint", "NFTTransfer"}, DOMAIN tx.ops = DOMAIN call.ids,
           \A k \in DOMAIN call.ids : /\ call.ids[k] \in ToSet(tx.ops[k].ids)
                                      /\ \E utxo : tx.ops[k].outs = NftOut(call, utxo)
    PROVE  OperationArrives
  <1>1. ASSUME NEW i \in ToSet(call.ids)
        PROVE  \E k \in DOMAIN tx.ops : /\ i \in ToSet(tx.ops[k].ids) /\ Len(tx.ops[k].outs) = 1
                                        /\ tx.ops[k].outs[1].kind = "nft"
                                        /\ tx.ops[k].outs[1].addresses = Ascending(call.to)
    <2>1. PICK k \in DOMAIN call.ids : call.ids[k] = i
      BY DEF ToSet
    <2>2. PICK utxo : tx.ops[k].outs = NftOut(call, utxo)
      BY <2>1
    <2> DEFINE out == NewOutput("nft", utxo.out.asset, 0, call.to, call.locktime, call.toThreshold)
    <2>3. tx.ops[k].outs = <<out>>
      BY <2>2 DEF NftOut
    <2>4. out.kind = "nft" /\ out.addresses = Ascending(call.to)
      BY DEF NewOutput
    <2> HIDE DEF out
    <2>5. Len(tx.ops[k].outs) = 1 /\ tx.ops[k].outs[1] = out
      BY <2>3
    <2>6. QED
      BY <2>1, <2>4, <2>5
  <1>2. QED
    BY <1>1 DEF OperationArrives

\* NFTs that are minted
LEMMA CreateNFTMintArrives ==
    ASSUME TypeOK, call \in Calls, call.kind = "CreateNFTMint", FromCall(call), Built
    PROVE  OperationArrives
  <1> DEFINE utxos == Arranged(utxoset, call)
             fee == PayFee(utxos, call, now)
             ops == NFTMintOps(utxos, call, now)
  <1>1. call \in Call /\ utxos \in Seq(Utxo)
    BY CallIs
  <1>2. tx = BuildCreateNFTMintTx(utxos, call, now) /\ tx \notin {Failed, Undefined}
    BY DEF FromCall, Built
  <1> HIDE DEF utxos
  <1>3. tx = OperationTx(fee, ops)
    BY <1>1, <1>2, CreateNFTMintFits, BuiltForm
  <1> HIDE DEF fee, ops
  <1>4. ops = [k \in DOMAIN call.ids |->
                   NewOperation(UtxoOf(utxos, call.ids[k]), call.ids, AllSpenders(utxos, call, now),
                                NftOut(call, UtxoOf(utxos, call.ids[k])))]
    BY DEF ops, NFTMintOps
  <1>5. ASSUME NEW k \in DOMAIN call.ids
        PROVE  call.ids[k] \in ToSet(ops[k].ids) /\ ops[k].outs = NftOut(call, UtxoOf(utxos, call.ids[k]))
    BY <1>4 DEF NewOperation, ToSet
  <1>6. QED
    BY <1>5, <1>3, <1>4, NFTsArrive DEF OperationTx, NoTx

\* NFTs that are sent
LEMMA NFTTransferArrives ==
    ASSUME TypeOK, call \in Calls, call.kind = "NFTTransfer", FromCall(call), Built
    PROVE  OperationArrives
  <1> DEFINE utxos == Arranged(utxoset, call)
             fee == PayFee(utxos, call, now)
             ops == NFTTransferOps(utxos, call, now)
  <1>1. call \in Call /\ utxos \in Seq(Utxo)
    BY CallIs
  <1>2. tx = BuildNFTTransferTx(utxos, call, now) /\ tx \notin {Failed, Undefined}
    BY DEF FromCall, Built
  <1> HIDE DEF utxos
  <1>3. tx = OperationTx(fee, ops)
    BY <1>1, <1>2, NFTTransferFits, BuiltForm
  <1> HIDE DEF fee, ops
  <1>4. ops = [k \in DOMAIN call.ids |->
                   NewOperation(UtxoOf(utxos, call.ids[k]), <<call.ids[k]>>,
                                GetSpenders(UtxoOf(utxos, call.ids[k]).out, call.from, now),
                                NftOut(call, UtxoOf(utxos, call.ids[k])))]
    BY DEF ops, NFTTransferOps
  <1>5. ASSUME NEW k \in DOMAIN call.ids
        PROVE  call.ids[k] \in ToSet(ops[k].ids) /\ ops[k].outs = NftOut(call, UtxoOf(utxos, call.ids[k]))
    BY <1>4 DEF NewOperation, ToSet
  <1>6. QED
    BY <1>5, <1>3, <1>4, NFTsArrive DEF OperationTx, NoTx

\* Tokens that are minted
LEMMA SECPMintArrives ==
    ASSUME TypeOK, call \in Calls, call.kind = "SECPMint", FromCall(call), Built
    PROVE  OperationArrives
  <1> DEFINE utxos == Arranged(utxoset, call)
             fee == PayFee(utxos, call, now)
             ops == SECPMintOps(utxos, call, now)
             utxo == UtxoOf(utxos, call.ids[1])
             p == NewOutput("mint", utxo.out.asset, 0, call.change, 0, 1)
             q == NewOutput("transfer", utxo.out.asset, call.amount, call.to, call.locktime, call.toThreshold)
             op == NewOperation(utxo, <<call.ids[1]>>, GetSpenders(utxo.out, call.from, now), <<p, q>>)
  <1>1. call \in Call /\ utxos \in Seq(Utxo)
    BY CallIs
  <1>2. tx = BuildSECPMintTx(utxos, call, now) /\ tx \notin {Failed, Undefined}
    BY DEF FromCall, Built
  <1> HIDE DEF utxos
  <1>3. tx = OperationTx(fee, ops)
    BY <1>1, <1>2, SECPMintFits, BuiltForm
  <1>4. ops = <<op>>
    BY DEF SECPMintOps
  <1> HIDE DEF fee, ops
  <1>5. tx.ops = ops
    BY <1>3 DEF OperationTx, NoTx
  <1>6. /\ p.kind = "mint" /\ p.addresses = Ascending(call.change)
        /\ q.kind = "transfer" /\ q.addresses = Ascending(call.to) /\ q.amount = call.amount
    BY DEF NewOutput
  <1> HIDE DEF utxo, p, q
  <1>7. op.outs = <<p, q>>
    BY DEF NewOperation
  <1> HIDE DEF op
  <1>8. QED
    BY <1>6, <1>7, <1>5, <1>4 DEF OperationArrives

\* Each of the minters has an output.
MintersHave(states, c) ==
    \A k \in DOMAIN c.minters : \E i \in DOMAIN states :
        /\ states[i].kind # "transfer"
        /\ states[i].addresses = Ascending(c.minters[k].addresses)

\* The outputs of the minters, one for each
LEMMA MinterOutsHave ==
    ASSUME NEW c \in Call, NEW kind \in {"mint", "nft", "nftMint"}, NEW locktime \in Nat
    PROVE  /\ MintersHave(MinterOuts(c, kind, locktime), c)
           /\ Len(MinterOuts(c, kind, locktime)) = Len(c.minters)
           /\ MinterOuts(c, kind, locktime) \in Seq(Output)
           /\ Len(c.minters) \in Nat
  <1> DEFINE outs == MinterOuts(c, kind, locktime)
  <1>1. outs \in Seq(Output)
    BY MinterOutsType
  <1>2. DOMAIN c.minters = 1..Len(c.minters) /\ Len(c.minters) \in Nat
    BY LenProperties, CallType DEF MinterSets
  <1>3. DOMAIN outs = DOMAIN c.minters
    BY DEF MinterOuts
  <1>4. ASSUME NEW k \in DOMAIN c.minters
        PROVE  outs[k].kind # "transfer" /\ outs[k].addresses = Ascending(c.minters[k].addresses)
    BY DEF MinterOuts, NewOutput
  <1> HIDE DEF outs
  <1>5. QED
    BY <1>1, <1>2, <1>3, <1>4, LenProperties DEF outs, MintersHave

\* Those of a new asset come after what its InitialStates has.
LEMMA AddOutputsHave ==
    ASSUME NEW c \in Call, NEW states \in Seq(Output)
    PROVE  /\ MintersHave(AddOutputs(states, c), c)
           /\ Len(AddOutputs(states, c)) = Len(states) + Len(c.minters)
  <1> DEFINE kind == "mint"
             locktime == 0
             outs == MinterOuts(c, kind, locktime)
             all == AddOutputs(states, c)
  <1>1. all = states \o outs
    BY DEF AddOutputs, MinterOuts
  <1>2. kind \in {"mint", "nft", "nftMint"} /\ locktime \in Nat
    OBVIOUS
  <1> HIDE DEF kind, locktime
  <1>3. MintersHave(outs, c) /\ Len(outs) = Len(c.minters) /\ outs \in Seq(Output) /\ Len(c.minters) \in Nat
    BY <1>2, MinterOutsHave
  <1> HIDE DEF outs, all
  <1>4. /\ all \in Seq(Output) /\ Len(all) = Len(states) + Len(outs)
        /\ \A i \in 1..Len(all) : all[i] = IF i <= Len(states) THEN states[i] ELSE outs[i - Len(states)]
    <2> DEFINE s == states \o outs
    <2>1. s \in Seq(Output) /\ Len(s) = Len(states) + Len(outs)
      BY <1>3
    <2>2. \A i \in 1..Len(s) : s[i] = IF i <= Len(states) THEN states[i] ELSE outs[i - Len(states)]
      BY <1>3
    <2> HIDE DEF s
    <2>3. QED
      BY <2>1, <2>2, <1>1 DEF s
  <1>5. Len(states) \in Nat /\ DOMAIN all = 1..Len(all) /\ DOMAIN outs = 1..Len(outs) /\ Len(outs) \in Nat
    BY <1>3, <1>4, LenProperties
  <1>6. ASSUME NEW i \in DOMAIN outs PROVE Len(states) + i \in DOMAIN all /\ all[Len(states) + i] = outs[i]
    BY <1>4, <1>5
  <1>7. MintersHave(all, c)
    <2> SUFFICES ASSUME NEW k \in DOMAIN c.minters
                 PROVE  \E i \in DOMAIN all : /\ all[i].kind # "transfer"
                                              /\ all[i].addresses = Ascending(c.minters[k].addresses)
      BY DEF MintersHave
    <2>1. PICK i \in DOMAIN outs : outs[i].kind # "transfer" /\ outs[i].addresses = Ascending(c.minters[k].addresses)
      BY <1>3 DEF MintersHave
    <2>2. QED
      BY <1>6, <2>1
  <1>8. QED
    BY <1>3, <1>4, <1>7 DEF all

\* A new asset
LEMMA CreateAssetArrives ==
    ASSUME TypeOK, call \in Calls, call.kind = "CreateAsset", FromCall(call), Built
    PROVE  AssetArrives
  <1> DEFINE utxos == Arranged(utxoset, call)
             fee == PayFee(utxos, call, now)
  <1>1. call \in Call /\ utxos \in Seq(Utxo)
    BY CallIs
  <1>2. PICK states \in Seq(Output) : tx = BuildCreateAssetTx(utxos, states, call, now) /\ (~call.again => states = Holdings)
    BY DEF FromCall, AssetMade
  <1>3. tx \notin {Failed, Undefined}
    BY DEF Built
  <1> HIDE DEF utxos
  <1>4. tx = AssetTx(fee, AddOutputs(states, call))
    BY <1>1, <1>2, <1>3, CreateAssetFits, BuiltForm
  <1> HIDE DEF fee
  <1>5. tx.states = AddOutputs(states, call)
    BY <1>4 DEF AssetTx, NoTx
  <1>6. /\ MintersHave(tx.states, call) /\ Len(tx.states) = Len(states) + Len(call.minters)
        /\ Len(states) \in Nat /\ Len(call.minters) \in Nat
    BY <1>1, <1>5, AddOutputsHave, LenProperties, CallType DEF MinterSets
  <1>7. QED
    BY <1>6, <1>2 DEF MintersHave, AssetArrives

\* A new asset of NFTs
LEMMA CreateNFTAssetArrives ==
    ASSUME TypeOK, call \in Calls, call.kind = "CreateNFTAsset", FromCall(call), Built
    PROVE  AssetArrives
  <1> DEFINE utxos == Arranged(utxoset, call)
             fee == PayFee(utxos, call, now)
             kind == "nftMint"
             locktime == call.locktime
             outs == MinterOuts(call, kind, locktime)
  <1>1. call \in Call /\ utxos \in Seq(Utxo)
    BY CallIs
  <1>2. tx = BuildCreateNFTAssetTx(utxos, call, now) /\ tx \notin {Failed, Undefined}
    BY DEF FromCall, Built
  <1> HIDE DEF utxos
  <1>3. tx = AssetTx(fee, outs)
    BY <1>1, <1>2, CreateNFTAssetFits, BuiltForm
  <1>4. kind \in {"mint", "nft", "nftMint"} /\ locktime \in Nat
    BY <1>1, CallType
  <1> HIDE DEF fee, kind, locktime
  <1>5. MintersHave(outs, call) /\ Len(outs) = Len(call.minters) /\ Len(call.minters) \in Nat
    BY <1>1, <1>4, MinterOutsHave
  <1> HIDE DEF outs
  <1>6. QED
    BY <1>5, <1>3 DEF MintersHave, AssetArrives, AssetTx, NoTx

\* Whatever is built, what is asked for arrives.
LEMMA ArrivalHolds ==
    ASSUME TypeOK, IdsDistinct, BuiltAsCalled
    PROVE  WhatIsAskedArrives
  <1> SUFFICES ASSUME Built PROVE MoveArrives /\ ImportArrives /\ OperationArrives /\ AssetArrives
    BY DEF WhatIsAskedArrives
  <1>1. call \in Calls /\ FromCall(call) /\ call.kind \in Kinds
    BY CallsAre DEF BuiltAsCalled, Built
  <1>2. MoveArrives
    BY <1>1, NotAsked, BaseArrives, ExportArrives, EvmExportArrives, EvmUtxoExportArrives
  <1>3. OperationArrives
    BY <1>1, NotAsked, CreateNFTMintArrives, NFTTransferArrives, SECPMintArrives
  <1>4. AssetArrives
    BY <1>1, NotAsked, CreateAssetArrives, CreateNFTAssetArrives
  <1>5. QED
    BY <1>2, <1>3, <1>4, <1>1, NotAsked, ImportArrivesX, EvmImportArrives

-----------------------------------------------------------------------------
\* What is made can be spent, and what meets its threshold is signed.

\* Each address once, and in order
Strict(addresses) == \A i, j \in DOMAIN addresses : i < j => addresses[i] < addresses[j]

\* Addresses that do not repeat are in their order.
LEMMA AscendingIs ==
    ASSUME NEW addresses \in Seq(Nat)
    PROVE  /\ Len(Ascending(addresses)) = Len(addresses)
           /\ ~Repeats(addresses) => Strict(Ascending(addresses))
  <1> DEFINE n == Len(addresses)
             Sorted(q) == \A i, j \in DOMAIN addresses : i < j => addresses[q[i]] <= addresses[q[j]]
             p == CHOOSE q \in Bijection(DOMAIN addresses, DOMAIN addresses) : Sorted(q)
             s == Ascending(addresses)
  <1>1. n \in Nat /\ DOMAIN addresses = 1..n /\ addresses \in [1..n -> Nat]
    BY LenProperties
  <1> HIDE DEF n
  <1>2. IsFiniteSet(1..n) /\ Cardinality(1..n) = n
    BY <1>1, FS_Interval
  <1>3. PICK t \in Bijection(1..n, 1..n) : Rises(t, addresses)
    BY <1>1, <1>2, SortExists
  <1>4. Sorted(t)
    BY <1>1, <1>3 DEF Rises, Bijection, Injection
  <1>5. p \in Bijection(1..n, 1..n) /\ Sorted(p)
    <2> HIDE DEF Sorted
    <2>1. QED
      BY <1>1, <1>3, <1>4
  <1>6. p \in [1..n -> 1..n] /\ \A i, j \in 1..n : p[i] = p[j] => i = j
    <2> HIDE DEF p
    <2>1. QED
      BY <1>5 DEF Bijection, Injection, IsInjective
  <1>7. s = [i \in 1..n |-> addresses[p[i]]]
    BY <1>1 DEF Ascending
  <1>8. \A i, j \in 1..n : i < j => addresses[p[i]] <= addresses[p[j]]
    BY <1>1, <1>5
  <1> HIDE DEF p, s, Sorted
  <1>9. s \in [1..n -> Nat] /\ DOMAIN s = 1..n
    BY <1>1, <1>6, <1>7
  <1>10. ~Repeats(addresses) => Strict(s)
    <2> SUFFICES ASSUME ~Repeats(addresses), NEW i \in 1..n, NEW j \in 1..n, i < j PROVE s[i] < s[j]
      BY <1>9 DEF Strict
    <2>1. p[i] # p[j] /\ p[i] \in 1..n /\ p[j] \in 1..n
      BY <1>6
    <2>2. QED
      BY <1>8, <1>1, <2>1, <1>7, <1>9 DEF Repeats
  <1>11. QED
    BY <1>10, <1>1, <1>9, SeqDef, LenProperties DEF n, s

\* An output for somebody, of something, can be spent.
LEMMA NewSpendable ==
    ASSUME NEW kind, NEW asset, NEW amount, NEW addresses \in Seq(Nat), NEW locktime, NEW threshold \in Nat,
           ~NobodyIn(addresses, threshold), kind = "transfer" => amount > 0
    PROVE  SpendableOut(NewOutput(kind, asset, amount, addresses, locktime, threshold))
  <1> DEFINE out == NewOutput(kind, asset, amount, addresses, locktime, threshold)
  <1>1. out.kind = kind /\ out.amount = amount /\ out.addresses = Ascending(addresses)
        /\ out.threshold = IF threshold = 0 THEN 1 ELSE threshold
    BY DEF NewOutput
  <1>2. addresses # <<>> /\ ~(threshold > Len(addresses)) /\ ~Repeats(addresses)
    BY DEF NobodyIn
  <1>3. Len(addresses) \in Nat /\ Len(addresses) # 0
    BY <1>2, LenProperties, EmptySeq
  <1>4. Len(out.addresses) = Len(addresses) /\ Strict(out.addresses)
    BY <1>1, <1>2, AscendingIs
  <1> HIDE DEF out
  <1>5. QED
    BY <1>4, <1>1, <1>2, <1>3 DEF out, SpendableOut, Strict

\* Change for somebody can be spent.
LEMMA ChangeSpendable ==
    ASSUME NEW out, NEW change \in Seq(Nat), ~NobodyIn(change, 1), ToChange(out, change)
    PROVE  SpendableOut(out)
  BY LenProperties, EmptySeq, AscendingIs DEF NobodyIn, ToChange, SpendableOut, Strict

\* Who meets the threshold of an output signs for it: as many as are asked for.
LEMMA Signed ==
    ASSUME NEW out \in Output, SpendableOut(out), NEW addresses \in Seq(Nat), ~Repeats(addresses), now \in Nat,
           MeetsThreshold(out, addresses, now)
    PROVE  SignsFor(out, GetSpenders(out, addresses, now))
  <1> DEFINE q == QualifiedFor(out, addresses)
             n == Len(q)
             t == out.threshold
             m == IF n < t THEN n ELSE t
             sigs == SubSeq(q, 1, t)
  <1>1. t \in Nat /\ out.locktime \in Nat /\ t >= 1
    BY DEF Output, SpendableOut
  <1>2. q \in Seq(Sig) /\ InOrder(out, q)
    BY QualifiedType, QualifiedInOrder
  <1> HIDE DEF q
  <1>3. n \in Nat /\ DOMAIN q = 1..n /\ \A i \in 1..n : q[i] \in Sig
    BY <1>2, LenProperties
  <1>4. GetSpenders(out, addresses, now) = IF now <= out.locktime THEN <<>> ELSE SubSeq(q, 1, m)
    BY DEF GetSpenders, q
  <1>5. Len(GetSpenders(out, addresses, now)) >= t
    BY DEF MeetsThreshold
  <1>6. ~(now <= out.locktime)
    <2> SUFFICES ASSUME now <= out.locktime PROVE FALSE
      OBVIOUS
    <2>1. Len(GetSpenders(out, addresses, now)) = 0
      BY <1>4, EmptySeq
    <2> HIDE DEF t
    <2>2. QED
      BY <1>1, <1>5, <2>1
  <1>7. GetSpenders(out, addresses, now) = SubSeq(q, 1, m)
    BY <1>4, <1>6
  <1>8. m \in Nat /\ m <= n /\ m <= t
    BY <1>1, <1>3
  <1>9. Len(SubSeq(q, 1, m)) = m
    <2> HIDE DEF m
    <2>1. QED
      BY <1>8, <1>3, SubSeqProperties
  <1>10. m = t /\ t <= n
    BY <1>5, <1>7, <1>9, <1>1, <1>8
  <1>11. GetSpenders(out, addresses, now) = sigs
    BY <1>7, <1>10
  <1>12. Len(sigs) = t /\ sigs \in Seq(Sig) /\ \A i \in 1..t : sigs[i] = q[i]
    <2>1. \A i \in 1..t : q[i] \in Sig
      BY <1>1, <1>3, <1>10
    <2> HIDE DEF t
    <2>2. QED
      BY <1>1, <2>1, SubSeqProperties
  <1>13. DOMAIN sigs = 1..t /\ 1..t \subseteq DOMAIN q
    BY <1>1, <1>3, <1>10, <1>12, LenProperties
  <1> HIDE DEF sigs, t
  <1>14. out.locktime <= now
    BY <1>1, <1>6
  <1>15. SignsFor(out, sigs)
    BY <1>12, <1>14, <1>2, <1>13 DEF SignsFor, InOrder, t
  <1>16. QED
    BY <1>11, <1>15

\* An output that is not locked is signed for by its own addresses.
LEMMA SignedOwn ==
    ASSUME NEW u \in Utxo, SpendableOut(u.out), u.out.kind = "transfer", now \in Nat, u.out.locktime < now
    PROVE  SignsFor(u.out, GetSpenders(u.out, u.out.addresses, now))
  <1> DEFINE addresses == u.out.addresses
             n == Len(addresses)
             c == [from |-> addresses]
  <1>1. u.out \in Output /\ addresses \in Seq(Nat) /\ u.out.threshold \in Nat
    BY DEF Utxo, Output
  <1>2. n \in Nat /\ DOMAIN addresses = 1..n /\ \A i \in 1..n : addresses[i] \in Nat
    BY <1>1, LenProperties
  <1>3. Strict(addresses) /\ u.out.threshold <= n
    BY DEF SpendableOut, Strict
  <1>4. ~Repeats(addresses)
    <2> SUFFICES ASSUME NEW i \in 1..n, NEW j \in 1..n, i # j, addresses[i] = addresses[j] PROVE FALSE
      BY <1>2 DEF Repeats
    <2>1. i < j \/ j < i
      OBVIOUS
    <2> HIDE DEF addresses
    <2>2. QED
      BY <1>2, <1>3, <2>1 DEF Strict
  <1> HIDE DEF addresses, n
  <1>5. Cardinality(ToSet(addresses)) = n
    <2> DEFINE T == ToSet(addresses)
               D == 1..n
    <2>1. T = {addresses[i] : i \in D}
      BY <1>2 DEF ToSet
    <2>2. addresses \in [D -> T]
      BY <1>1, <1>2, <2>1, LenProperties
    <2>3. addresses \in Bijection(D, T)
      <3>1. \A i, j \in D : addresses[i] = addresses[j] => i = j
        BY <1>2, <1>4 DEF Repeats
      <3>2. \A e \in T : \E i \in D : addresses[i] = e
        BY <2>1
      <3> HIDE DEF T, D
      <3>3. QED
        BY <2>2, <3>1, <3>2 DEF Bijection, Injection, IsInjective, Surjection
    <2>4. IsFiniteSet(D) /\ Cardinality(D) = n
      BY <1>2, FS_Interval
    <2> HIDE DEF T, D
    <2>5. QED
      BY <2>4, <2>3, FS_Bijection DEF T, ExistsBijection
  <1>6. c.from = addresses
    OBVIOUS
  <1> HIDE DEF c
  <1>7. CanSpend(c, now, u)
    BY <1>1, <1>2, <1>3, <1>5, <1>6 DEF CanSpend, addresses
  <1>8. QED
    BY <1>1, <1>4, <1>6, <1>7, Signed, CanSpendMeets DEF addresses

-----------------------------------------------------------------------------
\* What is selected can be spent, and is selected once.

\* An input for a UTXO of which the senders are enough
Picks(in, u, from, time) ==
    /\ in.id = u.id /\ in.sigs = GetSpenders(u.out, from, time)
    /\ u.out.kind = "transfer" /\ MeetsThreshold(u.out, from, time)

\* The inputs for some of the first UTXOs
ChosenUpTo(ins, utxos, n, from, time) ==
    /\ Unique(ins)
    /\ \A i \in DOMAIN ins : \E k \in 1..n : Picks(ins[i], utxos[k], from, time)

Chosen(ins, utxos, from, time) == ChosenUpTo(ins, utxos, Len(utxos), from, time)

\* One more UTXO is left out, or is one more input.
LEMMA ChosenStep ==
    ASSUME NEW utxos \in Seq(Utxo), Unique(utxos), NEW aad, aad.from \in Seq(Nat), NEW time, NEW n \in 1..Len(utxos), NEW done,
           done.ins \in Seq(Input), ChosenUpTo(done.ins, utxos, n - 1, aad.from, time)
    PROVE  ChosenUpTo(Consume(aad, time, done, utxos[n]).ins, utxos, n, aad.from, time)
  <1> DEFINE u == utxos[n]
             ins == done.ins
             from == aad.from
             in == NewInput(u, from, time)
             more == Append(ins, in)
             l == Len(ins)
  <1>1. Len(utxos) \in Nat /\ DOMAIN utxos = 1..Len(utxos) /\ u \in Utxo
    BY LenProperties
  <1>2. ChosenUpTo(ins, utxos, n - 1, from, time) /\ ins \in Seq(Input) /\ from \in Seq(Nat)
    OBVIOUS
  <1>3. in \in Input /\ in.id = u.id /\ in.sigs = GetSpenders(u.out, from, time)
    BY <1>1, NewInputType DEF NewInput
  <1>4. CASE Consume(aad, time, done, u) = done
    <2>1. \A k \in 1..(n - 1) : k \in 1..n
      BY <1>1
    <2>2. QED
      BY <1>2, <1>4, <2>1 DEF ChosenUpTo
  <1>5. CASE Consume(aad, time, done, u) # done
    <2>1. u.out.kind = "transfer" /\ MeetsThreshold(u.out, from, time)
          /\ Consume(aad, time, done, u).ins = more
      BY <1>5 DEF Consume
    <2> HIDE DEF in, u, from, ins
    <2>2. l \in Nat /\ DOMAIN ins = 1..l
      BY <1>2, LenProperties
    <2>3. more \in Seq(Input) /\ Len(more) = l + 1 /\ (\A i \in 1..l : more[i] = ins[i]) /\ more[l + 1] = in
      BY <1>2, <1>3, AppendProperties
    <2>4. DOMAIN more = 1..(l + 1)
      BY <2>3, LenProperties
    <2> HIDE DEF more, l
    <2>5. Picks(in, u, from, time)
      BY <1>3, <2>1 DEF Picks
    <2>6. \A i \in 1..l : \E k \in 1..(n - 1) : Picks(ins[i], utxos[k], from, time)
      BY <1>2, <2>2 DEF ChosenUpTo
    <2>7. \A i \in 1..(l + 1) : i \in 1..l \/ i = l + 1
      BY <2>2
    <2>8. \A i \in DOMAIN more : \E k \in 1..n : Picks(more[i], utxos[k], from, time)
      <3> SUFFICES ASSUME NEW i \in DOMAIN more PROVE \E k \in 1..n : Picks(more[i], utxos[k], from, time)
        OBVIOUS
      <3>1. CASE i \in 1..l
        <4>1. PICK k \in 1..(n - 1) : Picks(ins[i], utxos[k], from, time)
          BY <2>6, <3>1
        <4>2. k \in 1..n /\ more[i] = ins[i]
          BY <1>1, <2>3, <3>1
        <4>3. QED
          BY <4>1, <4>2
      <3>2. CASE i = l + 1
        <4>1. n \in 1..n
          BY <1>1
        <4>2. QED
          BY <2>3, <2>5, <3>2, <4>1 DEF u
      <3>3. QED
        BY <2>4, <2>7, <3>1, <3>2
    <2>9. ASSUME NEW i \in 1..l PROVE more[i].id # in.id
      <3>1. PICK k \in 1..(n - 1) : Picks(ins[i], utxos[k], from, time)
        BY <2>6
      <3>2. k \in DOMAIN utxos /\ n \in DOMAIN utxos /\ k # n
        BY <1>1
      <3>3. utxos[k].id # utxos[n].id
        BY <3>2 DEF Unique
      <3>4. QED
        BY <1>3, <2>3, <3>1, <3>3 DEF Picks, u
    <2>10. Unique(more)
      <3> SUFFICES ASSUME NEW i \in 1..(l + 1), NEW j \in 1..(l + 1), more[i].id = more[j].id PROVE i = j
        BY <2>4 DEF Unique
      <3>1. CASE i \in 1..l /\ j \in 1..l
        BY <1>2, <2>2, <2>3, <3>1 DEF ChosenUpTo, Unique
      <3>2. CASE i = l + 1 \/ j = l + 1
        BY <2>3, <2>7, <2>9, <3>2
      <3>3. QED
        BY <2>7, <3>1, <3>2
    <2>11. ChosenUpTo(more, utxos, n, from, time)
      BY <2>8, <2>10 DEF ChosenUpTo
    <2>12. QED
      BY <2>1, <2>11 DEF u, from
  <1>6. QED
    BY <1>4, <1>5

\* The inputs of a selection are for UTXOs that the senders can spend, one for each.
LEMMA SelectionChosen ==
    ASSUME NEW utxos \in Seq(Utxo), Unique(utxos), NEW aad, WellAsked(aad), NEW time, NEW locktime, NEW threshold,
           NEW got, got = GetMinimumSpendable(utxos, aad, time, locktime, threshold), got # Failed
    PROVE  Chosen(got.ins, utxos, aad.from, time)
  <1> DEFINE l == Len(utxos)
  <1>1. PICK h : Loop(utxos, aad, time, h)
    BY SelectLoop
  <1>2. h[0] = SelectStart(aad) /\ (\A n \in 1..l : h[n] = Consume(aad, time, h[n - 1], utxos[n]))
        /\ h[l] = Selected(utxos, aad, time)
    BY <1>1 DEF Loop
  <1>3. \A n \in 0..l : SelectInv(utxos, aad, h[n])
    BY <1>1, LoopFacts
  <1>4. l \in Nat
    BY LenProperties
  <1>5. got.ins = Selected(utxos, aad, time).ins
    BY DEF GetMinimumSpendable
  <1>6. aad.from \in Seq(Nat)
    BY DEF WellAsked
  <1> HIDE DEF l
  <1> DEFINE G == {n \in 0..l : ChosenUpTo(h[n].ins, utxos, n, aad.from, time)}
  <1>7. 0 \in G
    BY <1>2, <1>4 DEF SelectStart, ChosenUpTo, Unique
  <1>8. ASSUME NEW n \in 1..l, n - 1 \in G PROVE n \in G
    <2> DEFINE done == h[n - 1]
    <2>1. ChosenUpTo(done.ins, utxos, n - 1, aad.from, time) /\ SelectInv(utxos, aad, done)
      BY <1>3, <1>8
    <2>2. h[n] = Consume(aad, time, done, utxos[n])
      BY <1>2
    <2> HIDE DEF done
    <2>3. ChosenUpTo(Consume(aad, time, done, utxos[n]).ins, utxos, n, aad.from, time)
      BY <1>6, <2>1, ChosenStep DEF SelectInv, l
    <2>4. QED
      BY <2>2, <2>3, <1>4
  <1>9. 0..l \subseteq G
    <2> HIDE DEF G
    <2>1. QED
      BY <1>4, <1>7, <1>8, CountInduction
  <1>10. QED
    BY <1>2, <1>5, <1>4, <1>9 DEF Chosen, l

\* One ask, or two, is well asked.
LEMMA OneChosen ==
    ASSUME NEW utxos \in Seq(Utxo), Unique(utxos), NEW time, NEW asset \in Asset, NEW amount \in Nat, NEW burn \in Nat,
           NEW to \in Seq(Nat), NEW from \in Seq(Nat), NEW change \in Seq(Nat), NEW locktime, NEW threshold,
           NEW got, got = GetMinimumSpendable(utxos, Aad(<<Ask(asset, amount, burn)>>, to, from, change),
                                              time, locktime, threshold),
           got # Failed
    PROVE  Chosen(got.ins, utxos, from, time)
  <1> DEFINE aad == Aad(<<Ask(asset, amount, burn)>>, to, from, change)
  <1>1. WellAsked(aad)
    BY OneAsk DEF AsksOne
  <1>2. aad.from = from
    BY DEF Aad
  <1>3. got = GetMinimumSpendable(utxos, aad, time, locktime, threshold)
    OBVIOUS
  <1> HIDE DEF aad
  <1>4. QED
    BY <1>1, <1>2, <1>3, SelectionChosen

\* Those for two.
LEMMA TwoChosen ==
    ASSUME NEW utxos \in Seq(Utxo), Unique(utxos), NEW time, NEW asset \in Asset, NEW amount \in Nat, NEW feeAsset \in Asset,
           NEW fee \in Nat, asset # feeAsset,
           NEW to \in Seq(Nat), NEW from \in Seq(Nat), NEW change \in Seq(Nat), NEW locktime, NEW threshold,
           NEW got, got = GetMinimumSpendable(utxos, Aad(<<Ask(asset, amount, 0), Ask(feeAsset, 0, fee)>>, to, from, change),
                                              time, locktime, threshold),
           got # Failed
    PROVE  Chosen(got.ins, utxos, from, time)
  <1> DEFINE aad == Aad(<<Ask(asset, amount, 0), Ask(feeAsset, 0, fee)>>, to, from, change)
  <1>1. WellAsked(aad)
    BY TwoAsks DEF AsksTwo
  <1>2. aad.from = from
    BY DEF Aad
  <1>3. got = GetMinimumSpendable(utxos, aad, time, locktime, threshold)
    OBVIOUS
  <1> HIDE DEF aad
  <1>4. QED
    BY <1>1, <1>2, <1>3, SelectionChosen

\* The inputs for an amount and a fee.
LEMMA SelectForChosen ==
    ASSUME NEW utxos \in Seq(Utxo), Unique(utxos), NEW c \in Call, NEW time, SelectFor(utxos, c, time) # Failed
    PROVE  Chosen(SelectFor(utxos, c, time).ins, utxos, c.from, time)
  <1> DEFINE asset == c.asset
             amount == c.amount
             feeAsset == c.feeAsset
             fee == c.fee
             to == c.to
             from == c.from
             change == c.change
             locktime == c.locktime
             got == SelectFor(utxos, c, time)
             one == 1
             zero == 0
  <1>1. /\ asset \in Asset /\ feeAsset \in Asset /\ amount \in Nat /\ fee \in Nat /\ to \in Seq(Nat)
        /\ change \in Seq(Nat) /\ from \in Seq(Nat) /\ zero \in Nat
    BY CallType
  <1>2. got = GetMinimumSpendable(utxos, Aad(AmountAndFee(c), to, from, change), time, locktime, one)
    BY DEF SelectFor
  <1>3. AmountAndFee(c) =
           IF asset = feeAsset THEN <<Ask(asset, amount, fee)>>
           ELSE IF fee > 0 THEN <<Ask(asset, amount, 0), Ask(feeAsset, 0, fee)>> ELSE <<Ask(asset, amount, zero)>>
    <2> DEFINE p == Ask(asset, amount, 0)
               q == Ask(feeAsset, 0, fee)
    <2>1. AmountAndFee(c) = IF asset = feeAsset THEN <<Ask(asset, amount, fee)>>
                            ELSE <<p>> \o (IF fee > 0 THEN <<q>> ELSE <<>>)
      BY DEF AmountAndFee, FeeCheck
    <2> HIDE DEF p, q
    <2>2. QED
      BY <2>1, PairIs DEF p, q
  <1>4. got # Failed
    OBVIOUS
  <1> HIDE DEF asset, amount, feeAsset, fee, to, from, change, locktime, got, one, zero
  <1>5. Chosen(got.ins, utxos, from, time)
    BY <1>2, <1>3, <1>1, <1>4, OneChosen, TwoChosen
  <1>6. QED
    BY <1>5 DEF got, from

\* The inputs for a fee.
LEMMA FeeChosen ==
    ASSUME NEW utxos \in Seq(Utxo), Unique(utxos), NEW c \in Call, NEW time, PayFee(utxos, c, time) # Failed
    PROVE  Chosen(PayFee(utxos, c, time).ins, utxos, c.from, time)
  <1> DEFINE asset == c.feeAsset
             fee == c.fee
             from == c.from
             change == c.change
             got == PayFee(utxos, c, time)
             to == <<>>
             one == 1
             zero == 0
  <1>1. /\ asset \in Asset /\ fee \in Nat /\ to \in Seq(Nat)
        /\ change \in Seq(Nat) /\ from \in Seq(Nat) /\ zero \in Nat
    BY CallType, EmptySeq
  <1>2. CASE ~FeeCheck(fee)
    <2>1. DOMAIN got.ins = {}
      BY <1>2 DEF PayFee
    <2> HIDE DEF got
    <2>2. QED
      BY <2>1 DEF got, Chosen, ChosenUpTo, Unique
  <1>3. CASE FeeCheck(fee)
    <2>1. got = GetMinimumSpendable(utxos, Aad(<<Ask(asset, zero, fee)>>, to, from, change), time, zero, one)
      BY <1>3 DEF PayFee
    <2>2. got # Failed
      OBVIOUS
    <2> HIDE DEF asset, fee, to, from, change, got, one, zero
    <2>3. QED
      BY <1>1, <2>1, <2>2, OneChosen DEF got, from
  <1>4. QED
    BY <1>2, <1>3

\* The inputs for the rest of a fee.
LEMMA RestChosen ==
    ASSUME NEW utxos \in Seq(Utxo), Unique(utxos), NEW atomics \in Seq(Utxo), NEW c \in Call, NEW time,
           FeeCheck(FeeRemaining(c, atomics)), RestFor(utxos, atomics, c, time) # Failed
    PROVE  Chosen(RestFor(utxos, atomics, c, time).ins, utxos, c.from, time)
  <1> DEFINE asset == c.feeAsset
             rest == FeeRemaining(c, atomics)
             to == c.to
             from == c.from
             change == c.change
             locktime == c.locktime
             got == RestFor(utxos, atomics, c, time)
             one == 1
             zero == 0
  <1>1. /\ asset \in Asset /\ c.fee \in Nat /\ to \in Seq(Nat)
        /\ change \in Seq(Nat) /\ from \in Seq(Nat) /\ zero \in Nat
    BY CallType
  <1>2. rest \in Nat
    BY <1>1, FeePaidIs, HeldIs DEF FeeRemaining
  <1>3. got = GetMinimumSpendable(utxos, Aad(<<Ask(asset, zero, rest)>>, to, from, change), time, locktime, one)
        /\ got # Failed
    BY DEF RestFor
  <1> HIDE DEF asset, rest, to, from, change, locktime, got, one, zero
  <1>4. QED
    BY <1>1, <1>2, <1>3, OneChosen DEF got, from

-----------------------------------------------------------------------------
\* What makes a transaction valid.

\* Two sequences of entries without a common id have no id twice.
LEMMA UniqueJoin ==
    ASSUME NEW S, NEW s \in Seq(S), NEW t \in Seq(S), Unique(s), Unique(t), Ids(s) \cap Ids(t) = {}
    PROVE  Unique(s \o t)
  <1>1. /\ s \o t \in Seq(S) /\ Len(s \o t) = Len(s) + Len(t)
        /\ \A i \in 1..(Len(s) + Len(t)) : (s \o t)[i] = IF i <= Len(s) THEN s[i] ELSE t[i - Len(s)]
    BY ConcatProperties
  <1>2. /\ Len(s) \in Nat /\ Len(t) \in Nat
        /\ DOMAIN s = 1..Len(s) /\ DOMAIN t = 1..Len(t) /\ DOMAIN (s \o t) = 1..(Len(s) + Len(t))
    BY <1>1, LenProperties
  <1> SUFFICES ASSUME NEW i \in 1..(Len(s) + Len(t)), NEW j \in 1..(Len(s) + Len(t)),
                      (s \o t)[i].id = (s \o t)[j].id
               PROVE  i = j
    BY <1>2 DEF Unique
  <1>3. \A k \in 1..(Len(s) + Len(t)) :
            \/ k \in DOMAIN s /\ (s \o t)[k] = s[k] /\ s[k].id \in Ids(s)
            \/ k - Len(s) \in DOMAIN t /\ (s \o t)[k] = t[k - Len(s)] /\ t[k - Len(s)].id \in Ids(t)
    <2> SUFFICES ASSUME NEW k \in 1..(Len(s) + Len(t))
                 PROVE  \/ k \in DOMAIN s /\ (s \o t)[k] = s[k] /\ s[k].id \in Ids(s)
                        \/ k - Len(s) \in DOMAIN t /\ (s \o t)[k] = t[k - Len(s)] /\ t[k - Len(s)].id \in Ids(t)
      OBVIOUS
    <2>1. CASE k <= Len(s)
      BY <1>1, <1>2, <2>1 DEF Ids
    <2>2. CASE ~(k <= Len(s))
      BY <1>2, <2>2, <1>1 DEF Ids
    <2>3. QED
      BY <2>1, <2>2
  <1>4. CASE i \in DOMAIN s /\ (s \o t)[i] = s[i] /\ s[i].id \in Ids(s)
    BY <1>3, <1>4 DEF Unique
  <1>5. CASE i - Len(s) \in DOMAIN t /\ (s \o t)[i] = t[i - Len(s)] /\ t[i - Len(s)].id \in Ids(t)
    BY <1>3, <1>5, <1>2 DEF Unique
  <1>6. QED
    BY <1>3, <1>4, <1>5

\* Entries with the signatures for UTXOs of a place, all of them tokens or none
Opens(entries, place, token) ==
    \A e \in ToSet(entries) : \E u \in ToSet(place) :
        u.id = e.id /\ SignsFor(u.out, e.sigs) /\ (u.out.kind = "transfer" <=> token)

\* A UTXO is found by its id.
LEMMA Placed ==
    ASSUME TypeOK, IdsDistinct, NEW u \in ToSet(x) \cup ToSet(Source(call))
    PROVE  UtxoOf(x \o Source(call), u.id) = u
  <1> DEFINE source == Source(call)
             v == UtxoOf(x \o source, u.id)
  <1>1. x \in Seq(Utxo) /\ source \in Seq(Utxo) /\ Unique(x) /\ Unique(source) /\ Ids(x) \cap Ids(source) = {}
    BY DEF TypeOK, IdsDistinct, Source
  <1> HIDE DEF source
  <1>2. u \in ToSet(x) \cup ToSet(source)
    BY DEF source
  <1>3. v \in ToSet(x) \cup ToSet(source) /\ v.id = u.id
    BY <1>2, <1>1, OfConcat DEF UtxoOf
  <1> HIDE DEF v
  <1>4. v = u
    BY <1>1, <1>2, <1>3 DEF ToSet, Unique, Ids
  <1>5. QED
    BY <1>4 DEF v, source

\* What else is asked of a transaction
Sound(t) ==
    /\ Consumed(t) \o t.debited # <<>>
    /\ t.owners # <<>> => t.owners = [k \in DOMAIN t.imports |-> t.imports[k].id]
    /\ \A out \in ToSet(t.outs) : SpendableOut(out)
    /\ \A out \in ToSet(t.exported) : SpendableOut(out)
    /\ \A out \in ToSet(t.states) : SpendableOut(out)
    /\ \A out \in ToSet(OpOuts(t)) : SpendableOut(out)
    /\ \A e \in ToSet(t.credited \o t.debited) : e.amount > 0
    /\ \A e \in ToSet(t.debited) : e.nonce = nonce /\ e.amount <= account[e.asset]
    /\ \A a \in Asset : InTotal(t, a) >= OutTotal(t, a)

\* All that is consumed is there, once, and signed for.
LEMMA AllSigned ==
    ASSUME TypeOK, IdsDistinct, NEW t \in Tx,
           Opens(t.ins, x, TRUE), Unique(t.ins),
           Opens(t.imports, Source(call), TRUE), Unique(t.imports),
           Opens(OpEntries(t), x, FALSE), Unique(OpEntries(t))
    PROVE  /\ Unique(Consumed(t))
           /\ Ids(t.imports) \subseteq Ids(Source(call))
           /\ Ids(Consumed(t)) \ Ids(t.imports) \subseteq Ids(x)
           /\ \A i \in DOMAIN Consumed(t) :
                  SignsFor(UtxoOf(x \o Source(call), Consumed(t)[i].id).out, Consumed(t)[i].sigs)
           /\ \A i \in DOMAIN t.ops : \A id \in ToSet(t.ops[i].ids) :
                  UtxoOf(x \o Source(call), id).out.kind # "transfer"
  <1> DEFINE ins == t.ins
             imports == t.imports
             both == ins \o imports
             ops == OpEntries(t)
             all == both \o ops
             source == Source(call)
  <1>1. ins \in Seq(Input) /\ imports \in Seq(Input)
    BY DEF Tx
  <1>2. ops \in Seq(Entry) /\ Ids(ops) = OpIds(t)
    BY OpEntriesAre
  <1>3. Consumed(t) = all
    BY DEF Consumed, OpEntries
  <1>4. Opens(ins, x, TRUE) /\ Unique(ins) /\ Opens(imports, source, TRUE) /\ Unique(imports)
        /\ Opens(ops, x, FALSE) /\ Unique(ops)
    OBVIOUS
  <1>5. \A u \in ToSet(x) \cup ToSet(source) : UtxoOf(x \o source, u.id) = u
    BY Placed
  <1>6. Ids(x) \cap Ids(source) = {} /\ Unique(x)
    BY DEF Source, IdsDistinct
  <1> HIDE DEF ins, imports, ops, source
  <1>7. \A s : \A i \in Ids(s) : \E e \in ToSet(s) : e.id = i
    BY DEF ToSet, Ids
  <1>8. Ids(ins) \subseteq Ids(x) /\ Ids(imports) \subseteq Ids(source) /\ Ids(ops) \subseteq Ids(x)
    BY <1>4, <1>7 DEF Opens, ToSet, Ids
  <1>9. Ids(ins) \cap Ids(ops) = {}
    <2> SUFFICES ASSUME NEW i \in Ids(ins), i \in Ids(ops) PROVE FALSE
      OBVIOUS
    <2>1. PICK u \in ToSet(x) : u.id = i /\ u.out.kind = "transfer"
      BY <1>4, <1>7 DEF Opens
    <2>2. PICK v \in ToSet(x) : v.id = i /\ v.out.kind # "transfer"
      BY <1>4, <1>7 DEF Opens
    <2>3. QED
      BY <2>1, <2>2, <1>6 DEF Unique, ToSet
  <1>10. both \in Seq(Input) /\ ToSet(both) \subseteq ToSet(ins) \cup ToSet(imports)
         /\ Ids(both) = Ids(ins) \cup Ids(imports) /\ Unique(both)
    BY <1>6, <1>8, <1>1, <1>4, JoinedSet, UniqueParts, UniqueJoin
  <1>11. both \in Seq(Entry)
    <2> HIDE DEF both
    <2>1. QED
      BY <1>10, MapSeq, LenProperties DEF Entry
  <1> HIDE DEF both
  <1>12. ToSet(all) \subseteq ToSet(both) \cup ToSet(ops) /\ Ids(all) = Ids(both) \cup Ids(ops) /\ Unique(all)
    <2>1. Ids(both) \cap Ids(ops) = {}
      BY <1>6, <1>8, <1>9, <1>10
    <2>2. QED
      BY <1>2, <1>4, <1>10, <1>11, <2>1, JoinedSet, UniqueParts, UniqueJoin
  <1> HIDE DEF all
  <1>13. ASSUME NEW i \in DOMAIN all PROVE SignsFor(UtxoOf(x \o source, all[i].id).out, all[i].sigs)
    BY <1>10, <1>12, <1>4, <1>5 DEF ToSet, Opens
  <1>14. ASSUME NEW i \in DOMAIN t.ops, NEW id \in ToSet(t.ops[i].ids) PROVE UtxoOf(x \o source, id).out.kind # "transfer"
    BY <1>2, <1>4, <1>7, <1>5 DEF OpIds, Opens
  <1>15. QED
    BY <1>3, <1>8, <1>10, <1>12, <1>13, <1>14 DEF imports, source

\* Valid is what is sound and signed for.
LEMMA ValidFrom ==
    ASSUME TypeOK, IdsDistinct, NEW t \in Tx, Sound(t),
           Opens(t.ins, x, TRUE), Unique(t.ins),
           Opens(t.imports, Source(call), TRUE), Unique(t.imports),
           Opens(OpEntries(t), x, FALSE), Unique(OpEntries(t))
    PROVE  Valid(t)
  <1> DEFINE all == Consumed(t)
             OutOf(id) == UtxoOf(x \o Source(call), id).out
             outs == t.outs
             exported == t.exported
             states == t.states
             made == OpOuts(t)
  <1>1. /\ Unique(all)
        /\ Ids(t.imports) \subseteq Ids(Source(call))
        /\ Ids(all) \ Ids(t.imports) \subseteq Ids(x)
        /\ \A i \in DOMAIN all : SignsFor(OutOf(all[i].id), all[i].sigs)
        /\ \A i \in DOMAIN t.ops : \A id \in ToSet(t.ops[i].ids) : OutOf(id).kind # "transfer"
    BY AllSigned
  <1> HIDE DEF all, OutOf
  <1>2. outs \in Seq(Output) /\ exported \in Seq(Output) /\ states \in Seq(Output) /\ made \in Seq(Output)
    BY OpEntriesAre DEF Tx
  <1>3. \A out \in ToSet(outs) \cup ToSet(exported) \cup ToSet(states) \cup ToSet(made) : SpendableOut(out)
    BY DEF Sound
  <1>4. t.outs \o t.exported \o t.states \o OpOuts(t) = ((outs \o exported) \o states) \o made
    OBVIOUS
  <1> HIDE DEF outs, exported, states, made
  <1>5. ToSet(((outs \o exported) \o states) \o made)
            \subseteq ToSet(outs) \cup ToSet(exported) \cup ToSet(states) \cup ToSet(made)
    <2> DEFINE p == outs \o exported
    <2>1. p \in Seq(Output) /\ ToSet(p) \subseteq ToSet(outs) \cup ToSet(exported)
      BY <1>2, JoinedSet
    <2> HIDE DEF p
    <2> DEFINE q == p \o states
    <2>2. q \in Seq(Output) /\ ToSet(q) \subseteq ToSet(p) \cup ToSet(states)
      BY <1>2, <2>1, JoinedSet
    <2> HIDE DEF q
    <2>3. ToSet(q \o made) \subseteq ToSet(q) \cup ToSet(made)
      BY <1>2, <2>2, JoinedSet
    <2>4. QED
      BY <2>1, <2>2, <2>3 DEF p, q
  <1>6. \A out \in ToSet(t.outs \o t.exported \o t.states \o OpOuts(t)) : SpendableOut(out)
    BY <1>3, <1>4, <1>5
  <1>7. QED
    BY <1>1, <1>6 DEF Valid, Sound, all, OutOf, Unique

-----------------------------------------------------------------------------
\* Who may spend signs: for what is selected, imported, and operated on.

Ascends(utxos) == \A j, k \in DOMAIN utxos : j < k => utxos[j].id < utxos[k].id

\* What the chains let exist is all there is; what is exported are tokens, and
\* newer ones have greater ids.
UtxosSound ==
    /\ \A u \in (ToSet(x) \cup ToSet(toX)) \cup ToSet(toC) : SpendableOut(u.out)
    /\ \A u \in ToSet(toX) \cup ToSet(toC) : u.out.kind = "transfer"
    /\ Ascends(toC)

\* The selected inputs are signed for.
LEMMA ChosenOpens ==
    ASSUME TypeOK, UtxosSound, NEW utxos \in Seq(Utxo), ToSet(utxos) = ToSet(x), NEW from \in Seq(Nat), ~Repeats(from),
           NEW ins, Chosen(ins, utxos, from, now)
    PROVE  Opens(ins, x, TRUE) /\ Unique(ins)
  <1>1. Len(utxos) \in Nat /\ DOMAIN utxos = 1..Len(utxos) /\ \A k \in 1..Len(utxos) : utxos[k] \in Utxo
    BY LenProperties
  <1>2. now \in Nat
    BY DEF TypeOK
  <1>3. Unique(ins) /\ \A i \in DOMAIN ins : \E k \in 1..Len(utxos) : Picks(ins[i], utxos[k], from, now)
    BY DEF Chosen, ChosenUpTo
  <1>4. ASSUME NEW i \in DOMAIN ins
        PROVE  \E u \in ToSet(x) : u.id = ins[i].id /\ SignsFor(u.out, ins[i].sigs) /\ u.out.kind = "transfer"
    <2>1. PICK k \in 1..Len(utxos) : Picks(ins[i], utxos[k], from, now)
      BY <1>3
    <2> DEFINE u == utxos[k]
    <2>2. u \in ToSet(x) /\ u \in Utxo /\ Picks(ins[i], u, from, now)
      BY <1>1, <2>1 DEF ToSet
    <2> HIDE DEF u
    <2>3. QED
      BY <2>2, <1>2, Signed DEF UtxosSound, Utxo, Picks
  <1>5. QED
    BY <1>3, <1>4 DEF Opens, ToSet

\* What is imported, and is not locked, is signed for.
LEMMA ImportsOpen ==
    ASSUME now \in Nat, NEW place, NEW atomics \in Seq(Utxo), ToSet(atomics) = ToSet(place),
           \A u \in ToSet(place) : SpendableOut(u.out) /\ u.out.kind = "transfer" /\ u.out.locktime < now
    PROVE  Opens(ImportInputs(atomics, now), place, TRUE)
  <1> DEFINE ins == ImportInputs(atomics, now)
  <1>1. Len(atomics) \in Nat /\ DOMAIN atomics = 1..Len(atomics) /\ \A k \in 1..Len(atomics) : atomics[k] \in Utxo
    BY LenProperties
  <1>2. ASSUME NEW k \in DOMAIN atomics
        PROVE  \E u \in ToSet(place) : u.id = ins[k].id /\ SignsFor(u.out, ins[k].sigs) /\ u.out.kind = "transfer"
    <2> DEFINE u == atomics[k]
               addresses == u.out.addresses
    <2>1. u \in Utxo /\ u \in ToSet(place)
      BY <1>1 DEF ToSet
    <2>2. ins[k] = NewInput(u, addresses, now)
      BY DEF ImportInputs, ImportInput
    <2>3. addresses \in Seq(Nat)
      BY <2>1 DEF Utxo, Output
    <2> HIDE DEF u, ins
    <2>4. QED
      BY <2>1, <2>2, SignedOwn DEF NewInput
  <1>3. DOMAIN ins = DOMAIN atomics
    BY DEF ImportInputs
  <1> HIDE DEF ins
  <1>4. QED
    BY <1>2, <1>3 DEF ins, Opens, ToSet

\* An operation on one UTXO, that is no token, by senders who are enough
Operates(op, from, time) ==
    /\ Len(op.ids) = 1
    /\ \E u \in ToSet(x) :
           /\ u.id = op.ids[1] /\ u.out.kind # "transfer"
           /\ op.sigs = GetSpenders(u.out, from, time) /\ MeetsThreshold(u.out, from, time)

\* Operations on one UTXO each consume these.
LEMMA SingleOps ==
    ASSUME NEW t \in Tx, \A k \in DOMAIN t.ops : Len(t.ops[k].ids) = 1
    PROVE  /\ Len(OpEntries(t)) = Len(t.ops) /\ OpEntries(t) \in Seq(Entry)
           /\ Len(t.ops) \in Nat /\ DOMAIN t.ops = 1..Len(t.ops) /\ DOMAIN OpEntries(t) = 1..Len(t.ops)
           /\ \A k \in 1..Len(t.ops) : OpEntries(t)[k].id = t.ops[k].ids[1] /\ OpEntries(t)[k].sigs = t.ops[k].sigs
  <1> DEFINE n == Len(t.ops)
             Row(k) == [i \in DOMAIN t.ops[k].ids |-> [id |-> t.ops[k].ids[i], sigs |-> t.ops[k].sigs]]
             rows == [k \in DOMAIN t.ops |-> Row(k)]
  <1>1. n \in Nat /\ DOMAIN t.ops = 1..n /\ \A k \in 1..n : t.ops[k] \in Operation
    BY LenProperties DEF Tx
  <1> HIDE DEF n
  <1>2. ASSUME NEW k \in 1..n
        PROVE  Row(k) \in Seq(Entry) /\ Len(Row(k)) = 1 /\ Row(k)[1].id = t.ops[k].ids[1] /\ Row(k)[1].sigs = t.ops[k].sigs
    <2> DEFINE ids == t.ops[k].ids
               sigs == t.ops[k].sigs
               row == Row(k)
    <2>1. ids \in Seq(Nat) /\ sigs \in Seq(Sig) /\ Len(ids) = 1
      BY <1>1 DEF Operation
    <2>2. row = [i \in DOMAIN ids |-> [id |-> ids[i], sigs |-> sigs]]
      OBVIOUS
    <2> HIDE DEF ids, sigs, row
    <2>3. DOMAIN ids = 1..1 /\ \A i \in 1..1 : ids[i] \in Nat
      BY <2>1, LenProperties
    <2>4. row \in Seq(Entry) /\ Len(row) = 1
      BY <2>1, <2>2, <2>3, MapSeq DEF Entry
    <2>5. QED
      BY <2>4, <2>2, <2>3 DEF row, ids, sigs
  <1> HIDE DEF Row
  <1>3. DOMAIN rows = 1..n /\ rows = [k \in 1..n |-> rows[k]] /\ \A k \in 1..n : rows[k] = Row(k)
    BY <1>1
  <1>4. OpEntries(t) = FlattenSeq(rows)
    BY DEF OpEntries, Row
  <1> HIDE DEF rows
  <1>5. rows \in Seq(Seq(Entry)) /\ Len(rows) = n
    BY <1>1, <1>2, <1>3, MapSeq
  <1>6. Len(FlattenSeq(rows)) = n /\ \A k \in 1..n : FlattenSeq(rows)[k] = rows[k][1]
    <2>1. \A k \in 1..Len(rows) : Len(rows[k]) = 1
      BY <1>2, <1>3, <1>5
    <2>2. QED
      BY <1>5, <2>1, FlatSingles
  <1>7. FlattenSeq(rows) \in Seq(Entry)
    BY <1>5, FlatType
  <1>8. DOMAIN FlattenSeq(rows) = 1..n
    BY <1>6, <1>7, LenProperties
  <1>9. QED
    BY <1>1, <1>2, <1>3, <1>4, <1>6, <1>7, <1>8 DEF n

\* Operations are signed for.
LEMMA OpsOpen ==
    ASSUME TypeOK, UtxosSound, NEW t \in Tx, NEW from \in Seq(Nat), ~Repeats(from),
           \A k \in DOMAIN t.ops : Operates(t.ops[k], from, now),
           \A j, k \in DOMAIN t.ops : t.ops[j].ids[1] = t.ops[k].ids[1] => j = k
    PROVE  Opens(OpEntries(t), x, FALSE) /\ Unique(OpEntries(t))
  <1> DEFINE n == Len(t.ops)
             ops == OpEntries(t)
  <1>1. /\ DOMAIN t.ops = 1..n /\ DOMAIN ops = 1..n
        /\ \A k \in 1..n : ops[k].id = t.ops[k].ids[1] /\ ops[k].sigs = t.ops[k].sigs
    BY SingleOps DEF Operates
  <1>2. now \in Nat /\ \A u \in ToSet(x) : u \in Utxo
    BY LenProperties DEF TypeOK, ToSet
  <1> HIDE DEF n, ops
  <1>3. ASSUME NEW k \in 1..n
        PROVE  \E u \in ToSet(x) : u.id = ops[k].id /\ SignsFor(u.out, ops[k].sigs) /\ u.out.kind # "transfer"
    BY <1>1, <1>2, Signed DEF Operates, UtxosSound, Utxo
  <1>4. QED
    BY <1>1, <1>3 DEF ops, Opens, ToSet, Unique

-----------------------------------------------------------------------------
\* What the transactions of the X-chain have in common.

\* What has an input, an import, an operation or takes from the account takes something.
LEMMA TakesSomething ==
    ASSUME NEW t \in Tx, t.ins # <<>> \/ t.imports # <<>> \/ OpIds(t) # {} \/ t.debited # <<>>
    PROVE  Consumed(t) \o t.debited # <<>>
  <1> DEFINE all == Consumed(t)
             debited == t.debited
  <1>1. t.ins \in Seq(Input) /\ t.imports \in Seq(Input) /\ debited \in Seq(Debit)
    BY DEF Tx
  <1>2. \A s \in Seq(Input) : s # <<>> => Ids(s) # {}
    <2> TAKE s \in Seq(Input)
    <2> HAVE s # <<>>
    <2>1. 1 \in DOMAIN s
      BY LenProperties, EmptySeq
    <2>2. QED
      BY <2>1 DEF Ids
  <1>3. Ids(all) # {} \/ debited # <<>>
    BY <1>1, <1>2, ConsumedIs
  <1>4. all = (t.ins \o t.imports) \o OpEntries(t)
    BY DEF Consumed, OpEntries
  <1>5. all \in Seq(Entry)
    <2> DEFINE ins == t.ins
               imports == t.imports
               ops == OpEntries(t)
               both == ins \o imports
    <2>1. ops \in Seq(Entry)
      BY OpEntriesAre
    <2>2. both \in Seq(Input)
      BY <1>1, JoinedSet
    <2> HIDE DEF both
    <2>3. both \in Seq(Entry)
      BY <2>2, MapSeq, LenProperties DEF Entry
    <2> HIDE DEF ops
    <2>4. QED
      BY <2>1, <2>3, <1>4, JoinedSet DEF both, ops
  <1> HIDE DEF all, debited
  <1>6. Len(all) \in Nat /\ DOMAIN all = 1..Len(all) /\ Len(debited) \in Nat /\ (Len(debited) = 0 => debited = <<>>)
    BY <1>1, <1>5, LenProperties, EmptySeq
  <1>7. Len(all \o debited) = Len(all) + Len(debited)
    <2> DEFINE S == Entry \cup Debit
    <2>1. all \in Seq(S) /\ debited \in Seq(S)
      <3>1. /\ all = [k \in 1..Len(all) |-> all[k]] /\ debited = [k \in 1..Len(debited) |-> debited[k]]
            /\ DOMAIN debited = 1..Len(debited)
            /\ (\A k \in 1..Len(all) : all[k] \in S) /\ (\A k \in 1..Len(debited) : debited[k] \in S)
        BY <1>1, <1>5, LenProperties
      <3> HIDE DEF S
      <3>2. QED
        BY <1>6, <3>1, MapSeq
    <2> HIDE DEF S
    <2>2. QED
      BY <2>1, ConcatProperties
  <1>8. QED
    BY <1>6, <1>7, <1>3, EmptySeq DEF all, debited, Ids

\* A transaction takes at least what it gives.
LEMMA Balanced ==
    ASSUME Inv, Built, call.kind # "EvmUtxoExport"
    PROVE  \A a \in Asset : InTotal(tx, a) >= OutTotal(tx, a)
  <1> TAKE a \in Asset
  <1>1. tx \in Tx /\ call \in Call /\ InTotal(tx, a) = OutTotal(tx, a) + Burns(call, tx, a)
    BY CallsAre DEF Inv, TxFits, Fits
  <1>2. Burns(call, tx, a) \in Nat
    BY <1>1, BurnsNat
  <1>3. OutTotal(tx, a) \in Nat
    BY <1>1, PartsAre DEF OutTotal
  <1> HIDE DEF Inv
  <1>4. QED
    BY <1>1, <1>2, <1>3

AllSpendable(t) ==
    /\ \A out \in ToSet(t.outs) : SpendableOut(out)
    /\ \A out \in ToSet(t.exported) : SpendableOut(out)
    /\ \A out \in ToSet(t.states) : SpendableOut(out)
    /\ \A out \in ToSet(OpOuts(t)) : SpendableOut(out)

\* A transaction that stays on the X-chain, or exports from it
OnX(t) == t.imports = <<>> /\ t.credited = <<>> /\ t.debited = <<>> /\ t.owners = <<>>

\* Nothing opens anything.
LEMMA NothingOpens == \A place, token : Opens(<<>>, place, token) /\ Unique(<<>>) /\ ToSet(<<>>) = {}
  BY DEF ToSet, Opens, Unique

\* What takes selected UTXOs and operates, and makes what can be spent, is valid.
LEMMA ValidOnX ==
    ASSUME Inv, UtxosSound, Built, call \in Calls, call.kind # "EvmUtxoExport", OnX(tx),
           NEW utxos \in Seq(Utxo), ToSet(utxos) = ToSet(x), ~Repeats(call.from), Chosen(tx.ins, utxos, call.from, now),
           Opens(OpEntries(tx), x, FALSE), Unique(OpEntries(tx)),
           tx.ins # <<>> \/ OpIds(tx) # {}, AllSpendable(tx)
    PROVE  Valid(tx)
  <1>1. tx \in Tx /\ TypeOK /\ IdsDistinct /\ call \in Call
    BY CallsAre DEF Inv, TxFits, Fits
  <1>2. tx.imports = <<>> /\ tx.credited = <<>> /\ tx.debited = <<>> /\ tx.owners = <<>>
    BY DEF OnX
  <1>3. Sound(tx)
    BY <1>1, <1>2, TakesSomething, ConcatEmptySeq, EmptySeq, NothingOpens, Balanced DEF Sound, AllSpendable
  <1>4. QED
    BY <1>1, <1>3, <1>2, ValidFrom, NothingOpens, ChosenOpens, CallType

\* What pays a fee or sends an amount takes something.
LEMMA PaysTakes ==
    ASSUME NEW c \in Call, NEW utxos, NEW got, Pays(c, utxos, got),
           \/ c.fee > 0
           \/ \E out \in Output : got.outs = <<out>> /\ out.amount > 0
    PROVE  got.ins # <<>>
  <1> SUFFICES ASSUME got.ins = <<>> PROVE FALSE
    OBVIOUS
  <1>1. c.fee \in Nat
    BY CallType
  <1>2. \A a : AmountIn(got.outs, a) \in Nat /\ AmountIn(got.change, a) \in Nat
    BY AmountInNat DEF Pays
  <1>3. \A a : 0 = AmountIn(got.outs, a) + AmountIn(got.change, a) + (IF a = c.feeAsset THEN c.fee ELSE 0)
    BY AmountEmpty DEF Pays
  <1>4. CASE c.fee > 0
    <2> DEFINE a == c.feeAsset
    <2>1. 0 = AmountIn(got.outs, a) + AmountIn(got.change, a) + c.fee
      BY <1>3
    <2>2. QED
      BY <1>1, <1>2, <1>4, <2>1
  <1>5. CASE \E out \in Output : got.outs = <<out>> /\ out.amount > 0
    <2>1. PICK out \in Output : got.outs = <<out>> /\ out.amount > 0
      BY <1>5
    <2> DEFINE a == out.asset
    <2>2. AmountIn(<<out>>, a) = out.amount /\ out.amount \in Nat
      BY OutputAmounts, AmountSingle
    <2>3. 0 = out.amount + AmountIn(got.change, a) + (IF a = c.feeAsset THEN c.fee ELSE 0)
      BY <1>3, <2>1, <2>2
    <2> HIDE DEF a
    <2>4. QED
      BY <1>1, <1>2, <2>1, <2>2, <2>3
  <1>6. QED
    BY <1>4, <1>5

\* The outputs and the change of a selection can be spent.
LEMMA DeliversSpendable ==
    ASSUME NEW got, NEW asset, NEW amount, NEW to \in Seq(Nat), NEW change \in Seq(Nat), NEW locktime,
           Delivers(got, NewOutput("transfer", asset, amount, to, locktime, 1), amount, change),
           to # <<>>, ~Repeats(to), ~NobodyIn(change, 1)
    PROVE  /\ \A out \in ToSet(got.outs) : SpendableOut(out)
           /\ \A out \in ToSet(got.change) : SpendableOut(out)
  <1> DEFINE out == NewOutput("transfer", asset, amount, to, locktime, 1)
             one == 1
  <1>1. amount > 0 => SpendableOut(out)
    BY NewSpendable, LenProperties, EmptySeq DEF NobodyIn
  <1>2. got.outs = IF amount > 0 THEN <<out>> ELSE <<>>
    BY DEF Delivers
  <1> HIDE DEF out
  <1>3. QED
    BY <1>1, <1>2, ChangeSpendable DEF ToSet, Delivers

\* So can the change of a fee.
LEMMA ChangeOnly ==
    ASSUME NEW got, NEW change \in Seq(Nat), OnlyChange(got, change), ~NobodyIn(change, 1),
           got.outs \in Seq(Output), got.change \in Seq(Output)
    PROVE  \A out \in ToSet(got.outs \o got.change) : SpendableOut(out)
  BY ChangeSpendable, ConcatEmptySeq DEF OnlyChange, ToSet

-----------------------------------------------------------------------------
\* What is built is valid, one kind of call at a time.

\* What is not excepted of a call
LEMMA Usual ==
    ASSUME Inv, call \in Calls, ~Excepted
    PROVE  /\ call \in Call /\ utxoset = x /\ ~Repeats(call.from) /\ call.kind # "EvmUtxoExport"
           /\ ~NobodyIn(call.to, call.toThreshold) /\ ~NobodyIn(call.change, 1)
           /\ call.to # <<>> /\ ~Repeats(call.to)
           /\ \A minter \in ToSet(call.minters) : ~NobodyIn(minter.addresses, minter.threshold)
           /\ call.kind = "CreateAsset" => \A out \in ToSet(initial) : SpendableOut(out)
           /\ call.kind \in {"SECPMint", "EvmExport"} => call.amount > 0
           /\ ~WrongIds /\ ~ConsumesNothing /\ ~WrongImport /\ ~WrongAccount
  BY CallsAre, CallType DEF Excepted, AsksForNothing, NobodyIn

\* The UTXOs that an X-chain call is built from
LEMMA FromAll ==
    ASSUME Inv, call \in Calls, utxoset = x
    PROVE  /\ Arranged(utxoset, call) \in Seq(Utxo) /\ Unique(Arranged(utxoset, call))
           /\ ToSet(Arranged(utxoset, call)) = ToSet(x)
  BY ArrangedIs DEF Inv, TypeOK, IdsDistinct

\* Without operations there is nothing to operate on, and nothing made.
LEMMA NoOps ==
    ASSUME NEW t \in Tx, t.ops = <<>>
    PROVE  OpIds(t) = {} /\ OpEntries(t) = <<>> /\ ToSet(OpOuts(t)) = {}
  <1>1. ToSet(OpOuts(t)) = {}
    <2> DEFINE ss == [k \in DOMAIN t.ops |-> t.ops[k].outs]
    <2>1. DOMAIN ss = {}
      OBVIOUS
    <2>2. ss \in Seq(Seq(Output))
      OBVIOUS
    <2>3. OpOuts(t) = FlattenSeq(ss)
      BY DEF OpOuts
    <2> HIDE DEF ss
    <2>4. ToSet(FlattenSeq(ss)) = UNION {ToSet(ss[k]) : k \in DOMAIN ss}
      BY <2>2, FlatType
    <2>5. QED
      BY <2>1, <2>3, <2>4
  <1>2. QED
    BY <1>1, OpEntriesAre DEF OpIds

\* What takes selected UTXOs, and makes what can be spent, is valid.
LEMMA ValidWithoutOps ==
    ASSUME Inv, UtxosSound, Built, call \in Calls, ~Excepted, OnX(tx), tx.ops = <<>>, tx.ins # <<>>,
           Chosen(tx.ins, Arranged(utxoset, call), call.from, now),
           \A out \in ToSet(tx.outs) : SpendableOut(out),
           \A out \in ToSet(tx.exported) : SpendableOut(out),
           \A out \in ToSet(tx.states) : SpendableOut(out)
    PROVE  Valid(tx)
  <1> DEFINE utxos == Arranged(utxoset, call)
  <1>1. utxoset = x /\ ~Repeats(call.from) /\ call.kind # "EvmUtxoExport"
    BY Usual
  <1>2. utxos \in Seq(Utxo) /\ ToSet(utxos) = ToSet(x)
    BY <1>1, FromAll
  <1>3. OpIds(tx) = {} /\ OpEntries(tx) = <<>> /\ ToSet(OpOuts(tx)) = {}
    BY NoOps DEF Inv, TxFits, Fits
  <1>4. Opens(OpEntries(tx), x, FALSE) /\ Unique(OpEntries(tx))
    BY <1>3, NothingOpens
  <1>5. AllSpendable(tx)
    BY <1>3 DEF AllSpendable
  <1>6. Chosen(tx.ins, utxos, call.from, now)
    OBVIOUS
  <1> HIDE DEF utxos
  <1>7. QED
    BY <1>1, <1>2, <1>4, <1>5, <1>6, ValidOnX

\* Two sequences of outputs that can be spent are one.
LEMMA BothSpendable ==
    ASSUME NEW s \in Seq(Output), NEW t \in Seq(Output),
           \A out \in ToSet(s) : SpendableOut(out), \A out \in ToSet(t) : SpendableOut(out)
    PROVE  \A out \in ToSet(s \o t) : SpendableOut(out)
  BY JoinedSet

\* An output that is sent
LEMMA SentType ==
    ASSUME NEW asset \in Asset, NEW amount \in Nat, NEW to \in Seq(Nat), NEW locktime \in Nat
    PROVE  /\ NewOutput("transfer", asset, amount, to, locktime, 1) \in Output
           /\ NewOutput("transfer", asset, amount, to, locktime, 1).amount = amount
  <1> DEFINE kind == "transfer"
             one == 1
  <1>1. kind \in {"transfer", "mint", "nft", "nftMint"} /\ one \in Nat /\ (kind # "transfer" => amount = 0)
    OBVIOUS
  <1> HIDE DEF kind, one
  <1>2. QED
    BY <1>1, NewOutputType DEF kind, one

\* A transfer
LEMMA BaseAccepted ==
    ASSUME Inv, UtxosSound, call \in Calls, call.kind = "Base", FromCall(call), Built, ~Excepted
    PROVE  Valid(tx)
  <1> DEFINE utxos == Arranged(utxoset, call)
             got == SelectFor(utxos, call, now)
             out == NewOutput("transfer", call.asset, call.amount, call.to, call.locktime, 1)
  <1>1. call \in Call /\ utxoset = x /\ call.to # <<>> /\ ~Repeats(call.to) /\ ~NobodyIn(call.change, 1)
    BY Usual
  <1>2. utxos \in Seq(Utxo) /\ Unique(utxos)
    BY <1>1, FromAll
  <1>3. tx = BuildBaseTx(utxos, call, now) /\ tx \notin {Failed, Undefined}
    BY DEF FromCall, Built
  <1>4. call.amount \in Nat /\ call.to \in Seq(Nat) /\ call.change \in Seq(Nat) /\ call.asset \in Asset
        /\ call.locktime \in Nat
    BY <1>1, CallType
  <1> HIDE DEF utxos
  <1>5. got # Failed /\ tx = SendingTx(got)
    BY <1>1, <1>2, <1>3, BaseFits, BuiltForm
  <1>6. call.amount > 0
    BY <1>3, <1>4 DEF BuildBaseTx
  <1>7. Delivers(got, out, call.amount, call.change) /\ Pays(call, utxos, got) /\ Chosen(got.ins, utxos, call.from, now)
    BY <1>1, <1>2, <1>5, SelectForDelivers, SelectPays, SelectForChosen
  <1> HIDE DEF got
  <1>8. /\ \A o \in ToSet(got.outs) : SpendableOut(o)
        /\ \A o \in ToSet(got.change) : SpendableOut(o)
    BY <1>1, <1>4, <1>7, DeliversSpendable
  <1>9. out \in Output /\ out.amount = call.amount
    BY <1>4, SentType
  <1> HIDE DEF out
  <1>10. got.outs = <<out>> /\ got.outs \in Seq(Output) /\ got.change \in Seq(Output)
    BY <1>6, <1>7 DEF Delivers, Pays
  <1>11. got.ins # <<>>
    BY <1>1, <1>6, <1>7, <1>9, <1>10, PaysTakes
  <1>12. tx.ins = got.ins /\ tx.outs = got.outs \o got.change /\ tx.exported = <<>> /\ tx.states = <<>>
         /\ tx.ops = <<>> /\ OnX(tx)
    BY <1>5 DEF SendingTx, NoTx, OnX
  <1>13. Chosen(tx.ins, Arranged(utxoset, call), call.from, now) /\ tx.ins # <<>>
    BY <1>7, <1>11, <1>12 DEF utxos
  <1>14. QED
    BY <1>12, <1>13, <1>8, <1>10, ValidWithoutOps, BothSpendable, NothingOpens

\* An export
LEMMA ExportAccepted ==
    ASSUME Inv, UtxosSound, call \in Calls, call.kind = "Export", FromCall(call), Built, ~Excepted
    PROVE  Valid(tx)
  <1> DEFINE utxos == Arranged(utxoset, call)
             got == SelectFor(utxos, call, now)
             out == NewOutput("transfer", call.asset, call.amount, call.to, call.locktime, 1)
  <1>1. call \in Call /\ utxoset = x /\ call.to # <<>> /\ ~Repeats(call.to) /\ ~NobodyIn(call.change, 1)
    BY Usual
  <1>2. utxos \in Seq(Utxo) /\ Unique(utxos)
    BY <1>1, FromAll
  <1>3. tx = BuildExportTx(utxos, call, now) /\ tx \notin {Failed, Undefined}
    BY DEF FromCall, Built
  <1>4. call.amount \in Nat /\ call.to \in Seq(Nat) /\ call.change \in Seq(Nat) /\ call.asset \in Asset
        /\ call.locktime \in Nat
    BY <1>1, CallType
  <1> HIDE DEF utxos
  <1>5. got # Failed /\ tx = ExportingTx(got)
    BY <1>1, <1>2, <1>3, ExportFits, BuiltForm
  <1>6. call.amount > 0
    BY <1>3, <1>4 DEF BuildExportTx
  <1>7. Delivers(got, out, call.amount, call.change) /\ Pays(call, utxos, got) /\ Chosen(got.ins, utxos, call.from, now)
    BY <1>1, <1>2, <1>5, SelectForDelivers, SelectPays, SelectForChosen
  <1> HIDE DEF got
  <1>8. /\ \A o \in ToSet(got.outs) : SpendableOut(o)
        /\ \A o \in ToSet(got.change) : SpendableOut(o)
    BY <1>1, <1>4, <1>7, DeliversSpendable
  <1>9. out \in Output /\ out.amount = call.amount
    BY <1>4, SentType
  <1> HIDE DEF out
  <1>10. got.ins # <<>>
    BY <1>1, <1>6, <1>7, <1>9, PaysTakes DEF Delivers
  <1>11. tx.ins = got.ins /\ tx.outs = got.change /\ tx.exported = got.outs /\ tx.states = <<>>
         /\ tx.ops = <<>> /\ OnX(tx)
    BY <1>5 DEF ExportingTx, NoTx, OnX
  <1>12. QED
    BY <1>11, <1>8, <1>7, <1>10, ValidWithoutOps, NothingOpens DEF utxos

\* The outputs for minters that can sign can be spent.
LEMMA MintersSpendable ==
    ASSUME NEW c \in Call, NEW kind \in {"mint", "nft", "nftMint"}, NEW locktime \in Nat,
           \A minter \in ToSet(c.minters) : ~NobodyIn(minter.addresses, minter.threshold)
    PROVE  \A out \in ToSet(MinterOuts(c, kind, locktime)) : SpendableOut(out)
  <1> DEFINE minters == c.minters
             outs == MinterOuts(c, kind, locktime)
  <1>1. \A k \in DOMAIN minters : minters[k].addresses \in Seq(Nat) /\ minters[k].threshold \in Nat
    <2>1. Len(minters) \in Nat /\ DOMAIN minters = 1..Len(minters)
          /\ \A k \in 1..Len(minters) : minters[k] \in [addresses : Seq(Nat), threshold : Nat]
      BY LenProperties, CallType DEF MinterSets
    <2> HIDE DEF minters
    <2>2. QED
      BY <2>1
  <1>2. DOMAIN outs = DOMAIN minters
        /\ \A k \in DOMAIN minters : outs[k] = NewOutput(kind, c.asset, 0, minters[k].addresses, locktime, minters[k].threshold)
    BY DEF MinterOuts
  <1>3. \A k \in DOMAIN minters : ~NobodyIn(minters[k].addresses, minters[k].threshold)
    BY DEF ToSet
  <1> DEFINE asset == c.asset
             none == 0
  <1> HIDE DEF minters, outs, asset, none
  <1>4. \A k \in DOMAIN minters : SpendableOut(outs[k])
    <2> TAKE k \in DOMAIN minters
    <2> DEFINE addresses == minters[k].addresses
               threshold == minters[k].threshold
    <2>1. addresses \in Seq(Nat) /\ threshold \in Nat /\ ~NobodyIn(addresses, threshold) /\ kind # "transfer"
      BY <1>1, <1>3
    <2>2. outs[k] = NewOutput(kind, asset, none, addresses, locktime, threshold)
      BY <1>2 DEF asset, none
    <2> HIDE DEF addresses, threshold
    <2>3. QED
      BY <2>2, <2>1, NewSpendable
  <1>5. QED
    BY <1>2, <1>4 DEF outs, ToSet

\* A fee of more than nothing takes something.
LEMMA FeeTakes ==
    ASSUME NEW c \in Call, NEW utxos, NEW got, Pays(c, utxos, got), c.fee > 0
    PROVE  got.ins # <<>>
  BY PaysTakes

\* The inputs and the outputs of a fee
LEMMA FeeAccepted ==
    ASSUME Inv, call \in Calls, ~Excepted,
           NEW utxos, utxos = Arranged(utxoset, call), NEW got, got = PayFee(utxos, call, now), got # Failed
    PROVE  /\ Pays(call, utxos, got) /\ Chosen(got.ins, utxos, call.from, now)
           /\ \A out \in ToSet(got.outs \o got.change) : SpendableOut(out)
  <1>1. call \in Call /\ utxoset = x /\ ~NobodyIn(call.change, 1)
    BY Usual
  <1>2. Pays(call, utxos, got) /\ OnlyChange(got, call.change) /\ Chosen(got.ins, utxos, call.from, now)
    BY <1>1, FeePays, FeeDelivers, FeeChosen, FromAll
  <1>3. QED
    BY <1>2, <1>1, ChangeOnly, CallType DEF Pays

\* A transaction with a new asset
LEMMA AssetAccepted ==
    ASSUME Inv, UtxosSound, Built, call \in Calls, call.kind \in {"CreateAsset", "CreateNFTAsset"}, ~Excepted,
           NEW fee, fee = PayFee(Arranged(utxoset, call), call, now), fee # Failed,
           NEW states, tx = AssetTx(fee, states), \A out \in ToSet(states) : SpendableOut(out)
    PROVE  Valid(tx)
  <1> DEFINE utxos == Arranged(utxoset, call)
  <1>1. call \in Call /\ ~ConsumesNothing
    BY Usual
  <1>2. call.fee > 0
    BY <1>1, CallType DEF ConsumesNothing
  <1>3. /\ Pays(call, utxos, fee) /\ Chosen(fee.ins, utxos, call.from, now)
        /\ \A out \in ToSet(fee.outs \o fee.change) : SpendableOut(out)
    BY FeeAccepted
  <1> HIDE DEF utxos
  <1>4. tx.ins = fee.ins /\ tx.outs = fee.outs \o fee.change /\ tx.exported = <<>> /\ tx.states = states
         /\ tx.ops = <<>> /\ OnX(tx)
    BY DEF AssetTx, NoTx, OnX
  <1>5. Chosen(tx.ins, Arranged(utxoset, call), call.from, now) /\ tx.ins # <<>>
    BY <1>3, <1>4, <1>1, <1>2, FeeTakes DEF utxos
  <1>6. QED
    BY <1>4, <1>5, <1>3, ValidWithoutOps, NothingOpens

\* A new asset
LEMMA CreateAssetAccepted ==
    ASSUME Inv, UtxosSound, call \in Calls, call.kind = "CreateAsset", FromCall(call), Built, ~Excepted
    PROVE  Valid(tx)
  <1> DEFINE utxos == Arranged(utxoset, call)
             fee == PayFee(utxos, call, now)
  <1>1. call \in Call /\ utxoset = x /\ \A out \in ToSet(initial) : SpendableOut(out)
    BY Usual
  <1>2. utxos \in Seq(Utxo)
    BY <1>1, FromAll
  <1>3. AssetMade(call, utxos) /\ tx \notin {Failed, Undefined}
    BY DEF FromCall, Built
  <1>4. PICK states \in Seq(Output) :
            tx = BuildCreateAssetTx(utxos, states, call, now) /\ (tx # Failed => initial = AddOutputs(states, call))
    BY <1>3 DEF AssetMade
  <1> HIDE DEF utxos
  <1>5. fee # Failed /\ tx = AssetTx(fee, AddOutputs(states, call))
    BY <1>1, <1>2, <1>3, <1>4, CreateAssetFits, BuiltForm
  <1>6. tx = AssetTx(fee, initial)
    BY <1>3, <1>4, <1>5
  <1>7. fee = PayFee(Arranged(utxoset, call), call, now)
    BY DEF utxos
  <1> HIDE DEF fee
  <1>8. QED
    BY <1>1, <1>5, <1>6, <1>7, AssetAccepted

\* A new asset of NFTs
LEMMA CreateNFTAssetAccepted ==
    ASSUME Inv, UtxosSound, call \in Calls, call.kind = "CreateNFTAsset", FromCall(call), Built, ~Excepted
    PROVE  Valid(tx)
  <1> DEFINE utxos == Arranged(utxoset, call)
             fee == PayFee(utxos, call, now)
             states == MinterOuts(call, "nftMint", call.locktime)
             kind == "nftMint"
  <1>1. call \in Call /\ utxoset = x /\ \A minter \in ToSet(call.minters) : ~NobodyIn(minter.addresses, minter.threshold)
    BY Usual
  <1>2. utxos \in Seq(Utxo)
    BY <1>1, FromAll
  <1>3. tx = BuildCreateNFTAssetTx(utxos, call, now) /\ tx \notin {Failed, Undefined}
    BY DEF FromCall, Built
  <1> HIDE DEF utxos
  <1>4. fee # Failed /\ tx = AssetTx(fee, states)
    BY <1>1, <1>2, <1>3, CreateNFTAssetFits, BuiltForm
  <1>5. \A out \in ToSet(states) : SpendableOut(out)
    <2>1. kind \in {"mint", "nft", "nftMint"} /\ call.locktime \in Nat
      BY <1>1, CallType
    <2> HIDE DEF kind
    <2>2. QED
      BY <1>1, <2>1, MintersSpendable DEF kind
  <1>6. fee = PayFee(Arranged(utxoset, call), call, now)
    BY DEF utxos
  <1> HIDE DEF fee, states
  <1>7. QED
    BY <1>4, <1>5, <1>6, AssetAccepted

\* A call names UTXOs of others, or that are no tokens, which its senders can spend.
LEMMA Named ==
    ASSUME Inv, call \in Calls, ~Excepted, NEW id \in ToSet(call.ids), NEW utxos, utxos = Arranged(utxoset, call),
           Has(utxos, id)
    PROVE  /\ UtxoOf(utxos, id) \in ToSet(x) /\ UtxoOf(utxos, id).id = id /\ UtxoOf(utxos, id) \in Utxo
           /\ UtxoOf(utxos, id).out.kind # "transfer" /\ MeetsThreshold(UtxoOf(utxos, id).out, call.from, now)
  <1>1. utxoset = x /\ ~WrongIds
    BY Usual
  <1>2. utxos \in Seq(Utxo) /\ ToSet(utxos) = ToSet(x)
    BY <1>1, FromAll
  <1> DEFINE u == UtxoOf(utxos, id)
  <1>3. u \in ToSet(x) /\ u.id = id /\ u \in Utxo
    BY <1>2, Found
  <1> HIDE DEF u
  <1>4. QED
    BY <1>3, <1>1 DEF u, WrongIds

\* An operation that is signed for, and makes what can be spent
Performs(op) == Operates(op, call.from, now) /\ \A out \in ToSet(op.outs) : SpendableOut(out)

\* A transaction with operations
LEMMA OperationAccepted ==
    ASSUME Inv, UtxosSound, Built, call \in Calls, ~Excepted,
           NEW fee, fee = PayFee(Arranged(utxoset, call), call, now), fee # Failed,
           NEW ops, tx = OperationTx(fee, ops), \A k \in DOMAIN ops : Performs(ops[k]),
           \A j, k \in DOMAIN ops : ops[j].ids[1] = ops[k].ids[1] => j = k,
           call.fee > 0 \/ 1 \in DOMAIN ops
    PROVE  Valid(tx)
  <1> DEFINE utxos == Arranged(utxoset, call)
  <1>1. call \in Call /\ utxoset = x /\ ~Repeats(call.from) /\ call.kind # "EvmUtxoExport"
    BY Usual
  <1>2. utxos \in Seq(Utxo) /\ ToSet(utxos) = ToSet(x)
    BY <1>1, FromAll
  <1>3. tx \in Tx /\ TypeOK /\ call.from \in Seq(Nat)
    BY <1>1, CallType DEF Inv, TxFits, Fits
  <1>4. /\ Pays(call, utxos, fee) /\ Chosen(fee.ins, utxos, call.from, now)
        /\ \A out \in ToSet(fee.outs \o fee.change) : SpendableOut(out)
    BY FeeAccepted
  <1> HIDE DEF utxos
  <1>5. tx.ins = fee.ins /\ tx.outs = fee.outs \o fee.change /\ tx.exported = <<>> /\ tx.states = <<>>
        /\ tx.ops = ops /\ OnX(tx)
    BY DEF OperationTx, NoTx, OnX
  <1>6. Opens(OpEntries(tx), x, FALSE) /\ Unique(OpEntries(tx))
    <2>1. \A j, k \in DOMAIN tx.ops : tx.ops[j].ids[1] = tx.ops[k].ids[1] => j = k
      BY <1>5
    <2>2. QED
      BY <1>1, <1>3, <2>1, <1>5, OpsOpen DEF Performs
  <1>7. \A out \in ToSet(OpOuts(tx)) : SpendableOut(out)
    <2> DEFINE ss == [k \in DOMAIN ops |-> ops[k].outs]
    <2>1. OpOuts(tx) = FlattenSeq(ss)
      BY <1>5 DEF OpOuts
    <2>2. ss \in Seq(Seq(Output))
      <3>1. Len(ops) \in Nat /\ DOMAIN ops = 1..Len(ops) /\ \A k \in 1..Len(ops) : ops[k] \in Operation
        BY <1>3, <1>5, LenProperties DEF Tx
      <3>2. DOMAIN ss = 1..Len(ops) /\ ss = [k \in 1..Len(ops) |-> ss[k]] /\ \A k \in 1..Len(ops) : ss[k] \in Seq(Output)
        BY <3>1 DEF Operation
      <3> HIDE DEF ss
      <3>3. QED
        BY <3>1, <3>2, MapSeq
    <2>3. DOMAIN ss = DOMAIN ops /\ \A k \in DOMAIN ops : ss[k] = ops[k].outs
      OBVIOUS
    <2> HIDE DEF ss
    <2>4. \A k \in DOMAIN ss : \A out \in ToSet(ss[k]) : SpendableOut(out)
      BY <2>3 DEF Performs
    <2>5. QED
      BY <2>1, <2>4, <2>2, FlatType
  <1>8. tx.ins # <<>> \/ OpIds(tx) # {}
    <2>1. CASE call.fee > 0
      BY <1>1, <1>4, <1>5, <2>1, FeeTakes
    <2>2. CASE 1 \in DOMAIN ops
      <3> DEFINE ids == ops[1].ids
      <3>1. ids \in Seq(Nat) /\ Len(ids) = 1
        <4>1. \A k \in DOMAIN tx.ops : tx.ops[k] \in Operation
          BY <1>3, LenProperties DEF Tx
        <4>2. QED
          BY <1>5, <2>2, <4>1 DEF Operation, Performs, Operates
      <3> HIDE DEF ids
      <3>2. ids[1] \in OpIds(tx)
        BY <1>5, <2>2, <3>1, LenProperties DEF OpIds, ids, ToSet
      <3>3. QED
        BY <3>2
    <2>3. QED
      BY <2>1, <2>2
  <1>9. AllSpendable(tx)
    BY <1>5, <1>4, <1>7, NothingOpens DEF AllSpendable
  <1>10. Chosen(tx.ins, utxos, call.from, now)
    BY <1>4, <1>5
  <1>11. QED
    BY <1>1, <1>2, <1>5, <1>6, <1>8, <1>9, <1>10, ValidOnX

\* The output of an NFT can be spent.
LEMMA NftSpendable ==
    ASSUME Inv, call \in Calls, ~Excepted, NEW utxo
    PROVE  \A out \in ToSet(NftOut(call, utxo)) : SpendableOut(out)
  <1> DEFINE kind == "nft"
             none == 0
             asset == utxo.out.asset
             out == NewOutput(kind, asset, none, call.to, call.locktime, call.toThreshold)
  <1>1. call \in Call /\ ~NobodyIn(call.to, call.toThreshold)
    BY Usual
  <1>2. call.to \in Seq(Nat) /\ call.toThreshold \in Nat /\ kind # "transfer"
    BY <1>1, CallType
  <1>3. NftOut(call, utxo) = <<out>>
    BY DEF NftOut
  <1> HIDE DEF kind, none, asset
  <1>4. SpendableOut(out)
    BY <1>1, <1>2, NewSpendable
  <1> HIDE DEF out
  <1>5. QED
    BY <1>3, <1>4 DEF ToSet

\* NFTs that are sent
LEMMA NFTTransferAccepted ==
    ASSUME Inv, UtxosSound, call \in Calls, call.kind = "NFTTransfer", FromCall(call), Built, ~Excepted
    PROVE  Valid(tx)
  <1> DEFINE utxos == Arranged(utxoset, call)
             fee == PayFee(utxos, call, now)
             ops == NFTTransferOps(utxos, call, now)
             ids == call.ids
  <1>1. call \in Call /\ utxoset = x /\ ~WrongIds /\ ~ConsumesNothing
    BY Usual
  <1>2. utxos \in Seq(Utxo)
    BY <1>1, FromAll
  <1>3. tx = BuildNFTTransferTx(utxos, call, now) /\ tx \notin {Failed, Undefined}
    BY DEF FromCall, Built
  <1>4. utxos = Arranged(utxoset, call)
    OBVIOUS
  <1> HIDE DEF utxos
  <1>5. tx = OperationTx(fee, ops) /\ fee # Failed /\ \A k \in DOMAIN ids : Has(utxos, ids[k])
    BY <1>1, <1>2, <1>3, NFTTransferFits, BuiltForm
  <1>6. fee = PayFee(Arranged(utxoset, call), call, now)
    BY <1>4
  <1> HIDE DEF fee
  <1>7. DOMAIN ops = DOMAIN ids
        /\ \A k \in DOMAIN ids :
              /\ ops[k].ids = <<ids[k]>>
              /\ ops[k].sigs = GetSpenders(UtxoOf(utxos, ids[k]).out, call.from, now)
              /\ ops[k].outs = NftOut(call, UtxoOf(utxos, ids[k]))
    BY DEF NFTTransferOps, NewOperation
  <1> HIDE DEF ops
  <1>8. ASSUME NEW k \in DOMAIN ids PROVE Performs(ops[k])
    <2>1. ids[k] \in ToSet(call.ids)
      BY DEF ToSet
    <2> DEFINE u == UtxoOf(utxos, ids[k])
    <2>2. u \in ToSet(x) /\ u.id = ids[k] /\ u.out.kind # "transfer" /\ MeetsThreshold(u.out, call.from, now)
      BY <1>4, <1>5, <2>1, Named
    <2> HIDE DEF u
    <2>3. QED
      BY <2>2, <1>7, NftSpendable DEF Performs, Operates, u
  <1>9. \A j, k \in DOMAIN ops : ops[j].ids[1] = ops[k].ids[1] => j = k
    BY <1>1, <1>7 DEF WrongIds, Repeats
  <1>10. call.fee > 0 \/ 1 \in DOMAIN ops
    <2>1. call.fee \in Nat /\ ids \in Seq(Nat)
      BY <1>1, CallType
    <2>2. call.fee # 0 \/ ids # <<>>
      BY <1>1 DEF ConsumesNothing
    <2> HIDE DEF ids
    <2>3. QED
      BY <1>7, <2>1, <2>2, LenProperties, EmptySeq
  <1>11. QED
    BY <1>5, <1>6, <1>9, <1>10, <1>7, <1>8, OperationAccepted

\* NFTs that are minted, all by one operation
LEMMA CreateNFTMintAccepted ==
    ASSUME Inv, UtxosSound, call \in Calls, call.kind = "CreateNFTMint", FromCall(call), Built, ~Excepted
    PROVE  Valid(tx)
  <1> DEFINE utxos == Arranged(utxoset, call)
             fee == PayFee(utxos, call, now)
             ops == NFTMintOps(utxos, call, now)
             ids == call.ids
             sigs == AllSpenders(utxos, call, now)
  <1>1. call \in Call /\ utxoset = x /\ ~WrongIds /\ ~ConsumesNothing
    BY Usual
  <1>2. utxos \in Seq(Utxo)
    BY <1>1, FromAll
  <1>3. tx = BuildCreateNFTMintTx(utxos, call, now) /\ tx \notin {Failed, Undefined}
    BY DEF FromCall, Built
  <1>4. utxos = Arranged(utxoset, call)
    OBVIOUS
  <1> HIDE DEF utxos
  <1>5. tx = OperationTx(fee, ops) /\ fee # Failed /\ \A k \in DOMAIN ids : Has(utxos, ids[k])
    BY <1>1, <1>2, <1>3, CreateNFTMintFits, BuiltForm
  <1>6. fee = PayFee(Arranged(utxoset, call), call, now)
    BY <1>4
  <1> HIDE DEF fee
  <1>7. ids \in Seq(Nat) /\ Len(ids) \in Nat /\ DOMAIN ids = 1..Len(ids) /\ call.fee \in Nat
    BY <1>1, CallType, LenProperties
  <1>8. DOMAIN ids \subseteq {1}
    <2>1. ~(Len(ids) > 1)
      BY <1>1 DEF WrongIds
    <2> HIDE DEF ids
    <2>2. QED
      BY <1>7, <2>1
  <1>9. DOMAIN ops = DOMAIN ids
        /\ \A k \in DOMAIN ids :
              ops[k].ids = ids /\ ops[k].sigs = sigs /\ ops[k].outs = NftOut(call, UtxoOf(utxos, ids[k]))
    BY DEF NFTMintOps, NewOperation
  <1>10. 1 \in DOMAIN ids => sigs = GetSpenders(UtxoOf(utxos, ids[1]).out, call.from, now) /\ Len(ids) = 1
    <2> HAVE 1 \in DOMAIN ids
    <2> DEFINE Of(k) == GetSpenders(UtxoOf(utxos, ids[k]).out, call.from, now)
               ss == [k \in DOMAIN ids |-> Of(k)]
    <2>1. sigs = FlattenSeq(ss)
      BY DEF AllSpenders
    <2> HIDE DEF Of, sigs, ids
    <2>2. DOMAIN ids = 1..1 /\ Len(ids) = 1
      BY <1>7, <1>8
    <2>3. DOMAIN ss = 1..1 /\ ss[1] = Of(1) /\ ss = [k \in 1..1 |-> ss[k]]
      BY <2>2
    <2> DEFINE S == {Of(1)}
    <2>4. \A k \in 1..1 : ss[k] \in S
      BY <2>3
    <2> HIDE DEF ss, S
    <2>5. QED
      BY <2>1, <2>2, <2>3, <2>4, FlatOne, MapSeq DEF Of
  <1> HIDE DEF ops, sigs, ids
  <1>11. ASSUME NEW k \in DOMAIN ids PROVE Performs(ops[k])
    <2>1. k = 1 /\ 1 \in DOMAIN ids /\ ids[1] \in ToSet(call.ids)
      BY <1>8 DEF ToSet, ids
    <2> DEFINE u == UtxoOf(utxos, ids[1])
    <2>2. u \in ToSet(x) /\ u.id = ids[1] /\ u.out.kind # "transfer" /\ MeetsThreshold(u.out, call.from, now)
      BY <1>4, <1>5, <2>1, Named
    <2>3. ops[1].ids = ids /\ ops[1].sigs = GetSpenders(u.out, call.from, now) /\ ops[1].outs = NftOut(call, u) /\ Len(ids) = 1
      BY <1>9, <1>10, <2>1
    <2> HIDE DEF u
    <2>4. QED
      BY <2>1, <2>2, <2>3, NftSpendable DEF Performs, Operates
  <1>12. call.fee > 0 \/ 1 \in DOMAIN ops
    BY <1>1, <1>7, <1>9, EmptySeq DEF ConsumesNothing, ids
  <1>13. QED
    BY <1>5, <1>6, <1>12, <1>8, <1>9, <1>11, OperationAccepted

\* Tokens that are minted
LEMMA SECPMintAccepted ==
    ASSUME Inv, UtxosSound, call \in Calls, call.kind = "SECPMint", FromCall(call), Built, ~Excepted
    PROVE  Valid(tx)
  <1> DEFINE utxos == Arranged(utxoset, call)
             fee == PayFee(utxos, call, now)
             ops == SECPMintOps(utxos, call, now)
             id == call.ids[1]
             u == UtxoOf(utxos, id)
             asset == u.out.asset
             p == NewOutput("mint", asset, 0, call.change, 0, 1)
             q == NewOutput("transfer", asset, call.amount, call.to, call.locktime, call.toThreshold)
             op == NewOperation(u, <<id>>, GetSpenders(u.out, call.from, now), <<p, q>>)
  <1>1. /\ call \in Call /\ utxoset = x /\ ~NobodyIn(call.to, call.toThreshold) /\ ~NobodyIn(call.change, 1)
        /\ call.amount > 0
    BY Usual
  <1>2. utxos \in Seq(Utxo)
    BY <1>1, FromAll
  <1>3. tx = BuildSECPMintTx(utxos, call, now) /\ tx \notin {Failed, Undefined}
    BY DEF FromCall, Built
  <1>4. utxos = Arranged(utxoset, call)
    OBVIOUS
  <1> HIDE DEF utxos
  <1>5. tx = OperationTx(fee, ops) /\ fee # Failed /\ Has(utxos, id)
    BY <1>1, <1>2, <1>3, SECPMintFits, BuiltForm
  <1>6. fee = PayFee(Arranged(utxoset, call), call, now)
    BY <1>4
  <1> HIDE DEF fee
  <1>7. ops = <<op>>
    BY DEF SECPMintOps
  <1> HIDE DEF ops
  <1>8. id \in ToSet(call.ids)
    BY <1>1, CallType, CallsAssumption, LenProperties DEF ToSet
  <1>9. u \in ToSet(x) /\ u.id = id /\ u.out.kind # "transfer" /\ MeetsThreshold(u.out, call.from, now)
    BY <1>4, <1>5, <1>8, Named
  <1>10. SpendableOut(p) /\ SpendableOut(q)
    <2> DEFINE mint == "mint"
               transfer == "transfer"
               none == 0
               one == 1
    <2>1. call.change \in Seq(Nat) /\ call.to \in Seq(Nat) /\ call.toThreshold \in Nat /\ one \in Nat /\ mint # "transfer"
      BY <1>1, CallType
    <2>2. ~NobodyIn(call.change, one)
      BY <1>1
    <2> HIDE DEF asset, mint, transfer, none, one
    <2>3. SpendableOut(NewOutput(mint, asset, none, call.change, none, one))
      BY <2>1, <2>2, NewSpendable
    <2>4. SpendableOut(NewOutput(transfer, asset, call.amount, call.to, call.locktime, call.toThreshold))
      BY <1>1, <2>1, NewSpendable
    <2>5. QED
      BY <2>3, <2>4 DEF mint, transfer, none, one
  <1> HIDE DEF u, id, p, q
  <1>11. op.ids = <<id>> /\ op.sigs = GetSpenders(u.out, call.from, now) /\ op.outs = <<p, q>>
    BY DEF NewOperation
  <1> HIDE DEF op
  <1>12. DOMAIN ops = {1} /\ ops[1] = op
    BY <1>7
  <1>13. (\A k \in DOMAIN ops : Performs(ops[k])) /\ \A j, k \in DOMAIN ops : ops[j].ids[1] = ops[k].ids[1] => j = k
    BY <1>12, <1>9, <1>11, <1>10 DEF Performs, Operates, ToSet
  <1>14. QED
    BY <1>5, <1>6, <1>12, <1>13, OperationAccepted

\* What is imported opens, where it comes from.
LEMMA ImportedOpen ==
    ASSUME Inv, UtxosSound, call \in Calls, call.kind \in {"Import", "EvmImport"}, ~Excepted,
           NEW atomics, atomics = Arranged(Source(call), call), Source(call) # <<>>
    PROVE  /\ atomics \in Seq(Utxo) /\ Unique(atomics)
           /\ Opens(ImportInputs(atomics, now), Source(call), TRUE) /\ Unique(ImportInputs(atomics, now))
           /\ ImportInputs(atomics, now) # <<>>
  <1> DEFINE place == Source(call)
             ins == ImportInputs(atomics, now)
  <1>1. toX \in Seq(Utxo) /\ toC \in Seq(Utxo) /\ now \in Nat /\ Unique(toX) /\ Unique(toC)
    BY DEF Inv, TypeOK, IdsDistinct
  <1>2. place \in Seq(Utxo) /\ Unique(place) /\ place = IF call.kind = "EvmImport" THEN toC ELSE toX
    BY <1>1 DEF Source
  <1>3. \A u \in ToSet(place) : SpendableOut(u.out) /\ u.out.kind = "transfer"
    BY <1>2 DEF UtxosSound
  <1>4. \A u \in ToSet(place) : ~(u.out.locktime >= now)
    BY <1>2, Usual DEF WrongImport
  <1> HIDE DEF place
  <1>5. atomics \in Seq(Utxo) /\ ToSet(atomics) = ToSet(place) /\ Unique(atomics)
    BY <1>2, ArrangedIs DEF place
  <1>6. \A u \in ToSet(place) : SpendableOut(u.out) /\ u.out.kind = "transfer" /\ u.out.locktime < now
    <2> TAKE u \in ToSet(place)
    <2>1. u \in Utxo
      BY <1>2, LenProperties DEF ToSet
    <2>2. QED
      BY <1>1, <1>3, <1>4, <2>1 DEF Utxo, Output
  <1>7. ins # <<>>
    <2>1. 1 \in DOMAIN ins
      BY <1>2, ArrangedAt, EmptySeq DEF ImportInputs, place
    <2>2. DOMAIN <<>> = {}
      OBVIOUS
    <2> HIDE DEF ins
    <2>3. QED
      BY <2>1, <2>2
  <1>8. QED
    BY <1>5, <1>7, <1>1, <1>6, ImportsOpen, ImportInputsAre DEF place

\* What an import makes can be spent.
LEMMA ImportedSpendable ==
    ASSUME Inv, call \in Calls, ~Excepted, NEW atomics \in Seq(Utxo)
    PROVE  \A out \in ToSet(ImportedOuts(call, atomics)) : SpendableOut(out)
  <1> DEFINE outs == ImportedOuts(call, atomics)
  <1>1. call \in Call /\ ~NobodyIn(call.to, call.toThreshold)
    BY Usual
  <1>2. call.to \in Seq(Nat) /\ call.toThreshold \in Nat
    BY <1>1, CallType
  <1>3. \A k \in DOMAIN outs : ImportedOne(outs[k], call)
    BY <1>1, ImportedOutsGo
  <1> HIDE DEF outs
  <1>4. ASSUME NEW k \in DOMAIN outs PROVE SpendableOut(outs[k])
    <2> DEFINE kind == "transfer"
    <2>1. PICK asset \in Asset, amount \in Nat :
              amount > 0 /\ outs[k] = NewOutput(kind, asset, amount, call.to, call.locktime, call.toThreshold)
      BY <1>3 DEF ImportedOne
    <2>2. kind = "transfer" => amount > 0
      BY <2>1
    <2> HIDE DEF kind
    <2>3. QED
      BY <2>1, <1>1, <1>2, <2>2, NewSpendable
  <1>5. QED
    BY <1>4 DEF outs, ToSet

\* An import to the X-chain is valid, whatever pays its fee.
LEMMA ValidImport ==
    ASSUME Inv, UtxosSound, Built, call \in Calls, call.kind = "Import", ~Excepted,
           tx.ops = <<>>, tx.owners = <<>>, tx.credited = <<>>, tx.debited = <<>>, tx.exported = <<>>, tx.states = <<>>,
           tx.imports # <<>>, Opens(tx.imports, Source(call), TRUE), Unique(tx.imports),
           Opens(tx.ins, x, TRUE), Unique(tx.ins),
           \A out \in ToSet(tx.outs) : SpendableOut(out)
    PROVE  Valid(tx)
  <1>1. tx \in Tx /\ TypeOK /\ IdsDistinct
    BY DEF Inv, TxFits, Fits
  <1>2. OpIds(tx) = {} /\ OpEntries(tx) = <<>> /\ ToSet(OpOuts(tx)) = {}
    BY <1>1, NoOps
  <1>3. Sound(tx)
    BY <1>1, <1>2, TakesSomething, ConcatEmptySeq, EmptySeq, NothingOpens, Balanced DEF Sound
  <1>4. QED
    BY <1>1, <1>3, <1>2, ValidFrom, NothingOpens

\* An import to the X-chain
LEMMA ImportAccepted ==
    ASSUME Inv, UtxosSound, call \in Calls, call.kind = "Import", FromCall(call), Built, ~Excepted
    PROVE  Valid(tx)
  <1> DEFINE utxos == Arranged(utxoset, call)
             atomics == Arranged(toX, call)
             unpaid == FeeCheck(FeeRemaining(call, atomics))
             got == RestFor(utxos, atomics, call, now)
  <1>1. call \in Call /\ utxoset = x /\ ~Repeats(call.from) /\ ~NobodyIn(call.change, 1)
    BY Usual
  <1>2. utxos \in Seq(Utxo) /\ Unique(utxos) /\ ToSet(utxos) = ToSet(x)
    BY <1>1, FromAll
  <1>3. tx = (IF toX = <<>> THEN Failed ELSE BuildImportTx(utxos, atomics, call, now)) /\ tx \notin {Failed, Undefined}
    BY DEF FromCall, Built
  <1>4. /\ atomics \in Seq(Utxo)
        /\ Opens(ImportInputs(atomics, now), Source(call), TRUE) /\ Unique(ImportInputs(atomics, now))
        /\ ImportInputs(atomics, now) # <<>>
    BY <1>3, ImportedOpen DEF Source
  <1>5. call.from \in Seq(Nat) /\ call.change \in Seq(Nat) /\ TypeOK
    BY <1>1, CallType DEF Inv
  <1> HIDE DEF utxos, atomics
  <1>6. /\ tx = IF unpaid THEN UnpaidImportTx(atomics, now, got) ELSE PaidImportTx(atomics, call, now)
        /\ ~(unpaid /\ got = Failed)
    BY <1>1, <1>2, <1>3, <1>4, ImportFits, BuiltForm
  <1>7. CASE ~unpaid
    BY <1>6, <1>7, <1>4, ImportedSpendable, NothingOpens, ValidImport DEF PaidImportTx, NoTx
  <1>8. CASE unpaid
    <2>1. tx = UnpaidImportTx(atomics, now, got) /\ got # Failed
      BY <1>6, <1>8
    <2>2. /\ OnlyChange(got, call.change) /\ Chosen(got.ins, utxos, call.from, now)
          /\ got.outs \in Seq(Output) /\ got.change \in Seq(Output)
      BY <1>1, <1>2, <1>4, <1>8, <2>1, RestDelivers, RestChosen DEF Settled
    <2> HIDE DEF got
    <2>3. /\ tx.ops = <<>> /\ tx.owners = <<>> /\ tx.credited = <<>> /\ tx.debited = <<>> /\ tx.exported = <<>>
          /\ tx.states = <<>> /\ tx.ins = got.ins
          /\ tx.imports = ImportInputs(atomics, now) /\ tx.outs = got.outs \o got.change
      BY <2>1 DEF UnpaidImportTx, NoTx
    <2>4. \A out \in ToSet(tx.outs) : SpendableOut(out)
      BY <1>1, <1>5, <2>2, <2>3, ChangeOnly
    <2>5. Opens(tx.ins, x, TRUE) /\ Unique(tx.ins)
      BY <1>1, <1>2, <1>5, <2>2, <2>3, ChosenOpens
    <2>6. QED
      BY <2>3, <2>4, <2>5, <1>4, ValidImport
  <1>9. QED
    BY <1>7, <1>8

\* Inputs in the order of their UTXOs keep that order.
LEMMA InOrderStays ==
    ASSUME NEW ins \in Seq(Input), \A j, k \in DOMAIN ins : j < k => ins[j].id < ins[k].id
    PROVE  DOMAIN ById(ins) = DOMAIN ins /\ \A k \in DOMAIN ins : ById(ins)[k].id = ins[k].id
  <1> DEFINE n == Len(ins)
             D == 1..n
             Sorted(s) == \A i, j \in DOMAIN ins : i < j => s[i].id < s[j].id
             z == ById(ins)
             p == [i \in D |-> CHOOSE k \in D : ins[k] = z[i]]
  <1>1. n \in Nat /\ DOMAIN ins = D /\ \A k \in D : ins[k].id \in Nat
    <2>1. n \in Nat /\ DOMAIN ins = D /\ \A k \in D : ins[k] \in Input
      BY LenProperties
    <2>2. QED
      BY <2>1 DEF Input
  <1>2. z \in [DOMAIN ins -> ToSet(ins)] /\ Sorted(z)
    <2>1. z = CHOOSE s \in [DOMAIN ins -> ToSet(ins)] : Sorted(s)
      BY DEF ById
    <2>2. ins \in [DOMAIN ins -> ToSet(ins)]
      BY LenProperties DEF ToSet
    <2>3. Sorted(ins)
      OBVIOUS
    <2> HIDE DEF Sorted, z
    <2>4. QED
      BY <2>1, <2>2, <2>3
  <1> HIDE DEF z, n
  <1>3. \A i \in D : p[i] \in D /\ ins[p[i]] = z[i]
    <2> TAKE i \in D
    <2>1. QED
      BY <1>1, <1>2 DEF ToSet
  <1>4. p \in [D -> D]
    BY <1>3
  <1> HIDE DEF p
  <1>5. ASSUME NEW j \in D, NEW k \in D, j < k PROVE p[j] < p[k]
    <2>1. p[j] \in D /\ p[k] \in D /\ ins[p[j]].id < ins[p[k]].id
      <3>1. z[j].id < z[k].id
        BY <1>1, <1>2, <1>5
      <3>2. QED
        BY <3>1, <1>3
    <2>2. SUFFICES ASSUME p[k] <= p[j] PROVE FALSE
      BY <1>1, <2>1
    <2>3. CASE p[k] = p[j]
      BY <1>1, <2>1, <2>3
    <2>4. CASE p[k] < p[j]
      BY <1>1, <2>1, <2>4
    <2>5. QED
      BY <1>1, <2>1, <2>2, <2>3, <2>4
  <1>6. QED
    BY <1>1, <1>2, <1>3, <1>4, <1>5, RisingStays DEF z

\* Where there is a UTXO of an asset, there is some of it.
LEMMA SomeOf ==
    ASSUME NEW utxos \in Seq(Utxo), NEW k \in DOMAIN utxos, utxos[k].out.amount > 0
    PROVE  AmountOf(utxos, utxos[k].out.asset) > 0
  <1> DEFINE a == utxos[k].out.asset
             n == Len(utxos)
             held == Held(utxos, a)
             rest == (1..n) \ {k}
  <1>1. /\ n \in Nat /\ DOMAIN utxos = 1..n /\ IsFiniteSet(1..n)
        /\ \A i \in 1..n : held[i] \in Nat
        /\ AmountOf(utxos, a) = SumFunctionOnSet(held, 1..n)
    BY HeldIs
  <1>2. held[k] = utxos[k].out.amount
    BY DEF Held
  <1> HIDE DEF n, held, a
  <1>3. IsFiniteSet(rest) /\ \A i \in rest : held[i] \in Nat
    BY <1>1, FS_Subset
  <1> HIDE DEF rest
  <1>4. SumFunctionOnSet(held, 1..n) = held[k] + SumFunctionOnSet(held, (1..n) \ {k})
    <2>1. \A i \in 1..n : held[i] \in Int
      BY <1>1
    <2>2. k \in 1..n
      BY <1>1
    <2> DEFINE S == 1..n
    <2> HIDE DEF S
    <2>3. QED
      BY <1>1, <2>1, <2>2, SumRemove DEF S
  <1>5. QED
    BY <1>1, <1>2, <1>4, <1>3, SumNat DEF a, rest

\* What an import credits is more than nothing, if it pays more than its fee.
LEMMA CreditsPositive ==
    ASSUME NEW c \in Call, c.feeAsset = AvaxAsset, NEW atomics \in Seq(Utxo), Unique(atomics), NEW time,
           \A k \in DOMAIN atomics : atomics[k].out.amount > 0,
           AmountOf(atomics, AvaxAsset) # c.fee,
           ValidateOuts(ById(ImportInputs(atomics, time)), ImportCredits(atomics, c), c.fee)
    PROVE  \A e \in ToSet(ImportCredits(atomics, c)) : e.amount > 0
  <1> DEFINE n == Len(atomics)
             found == {atomics[k].out.asset : k \in DOMAIN atomics}
             assets == SetToSeq(found)
             credits == ImportCredits(atomics, c)
             ins == ImportInputs(atomics, time)
             Sum(a) == SumFunctionOnSet(Kept(c, atomics, a), 1..n)
             paid_ == FeePaid(c, atomics, n)
  <1>1. credits = Credits(c, atomics, assets)
    BY DEF ImportCredits
  <1>2. \A a : CreditedFor(c, atomics, a) = Sum(a)
    BY CreditedForIs
  <1>3. \A a : Sum(a) = AmountOf(atomics, a) - (IF a = c.feeAsset THEN paid_ ELSE 0)
    BY KeptAll
  <1>4. paid_ = IF AmountOf(atomics, c.feeAsset) > c.fee THEN c.fee ELSE AmountOf(atomics, c.feeAsset)
    BY FeePaidIs
  <1>5. c.fee \in Nat /\ \A a : AmountOf(atomics, a) \in Nat
    BY CallType, HeldIs
  <1>6. AmountOf(atomics, AvaxAsset) > c.fee
    <2>1. AmountIn(ById(ins), AvaxAsset) - AmountIn(credits, AvaxAsset) >= c.fee
      BY DEF ValidateOuts
    <2>2. ins \in Seq(Input) /\ Unique(ins) /\ AmountIn(ins, AvaxAsset) = AmountOf(atomics, AvaxAsset)
      BY ImportInputsAre
    <2> HIDE DEF ins
    <2>3. AmountIn(ById(ins), AvaxAsset) = AmountOf(atomics, AvaxAsset)
      BY <2>2, ByIdAre
    <2>4. AmountIn(credits, AvaxAsset) = CreditedFor(c, atomics, AvaxAsset)
      BY <1>1, <1>2, CreditsAre
    <2>5. CreditedFor(c, atomics, AvaxAsset) \in Nat
      BY CreditedForIs
    <2> DEFINE all == AmountOf(atomics, AvaxAsset)
               left == CreditedFor(c, atomics, AvaxAsset)
    <2>6. all - left >= c.fee /\ left \in Nat /\ all \in Nat /\ all # c.fee
      BY <1>5, <2>1, <2>3, <2>4, <2>5
    <2> HIDE DEF all, left
    <2>7. QED
      BY <1>5, <2>6 DEF all
  <1>7. ASSUME NEW a \in found PROVE CreditedFor(c, atomics, a) > 0
    <2> DEFINE all == AmountOf(atomics, a)
    <2>1. PICK k \in DOMAIN atomics : atomics[k].out.asset = a
      OBVIOUS
    <2>2. all > 0
      BY <2>1, SomeOf
    <2>3. CreditedFor(c, atomics, a) = all - (IF a = c.feeAsset THEN paid_ ELSE 0)
      BY <1>2, <1>3
    <2>4. CASE a = c.feeAsset
      <3>1. paid_ = c.fee /\ all > c.fee
        BY <1>4, <1>6, <2>4
      <3> HIDE DEF paid_
      <3>2. all \in Nat
        BY <1>5
      <3> HIDE DEF all
      <3>3. QED
        BY <2>3, <2>4, <1>5, <3>1, <3>2
    <2>5. CASE a # c.feeAsset
      <3>1. all \in Nat
        BY <1>5
      <3> HIDE DEF all
      <3>2. QED
        BY <2>2, <2>3, <2>5, <3>1
    <2>6. QED
      BY <2>4, <2>5
  <1>8. \A k \in DOMAIN assets : assets[k] \in found
    <2>1. IsFiniteSet(found)
      <3> DEFINE h == [k \in DOMAIN atomics |-> atomics[k].out.asset]
                 R == DOMAIN atomics
      <3>1. h \in [R -> found] /\ \A e \in found : \E k \in R : h[k] = e
        OBVIOUS
      <3>2. IsFiniteSet(R)
        BY HeldIs
      <3> HIDE DEF h, R, found
      <3>3. QED
        BY <3>2, <3>1, FS_Surjection DEF Surjection
    <2> HIDE DEF found
    <2>2. assets \in Seq(found)
      BY <2>1, SetToSeqIs
    <2> HIDE DEF assets
    <2>3. QED
      BY <2>2, LenProperties
  <1> HIDE DEF found, assets, credits
  <1>9. QED
    BY <1>7, <1>8, <1>1 DEF credits, ToSet, Credits, CreditOf

\* An import to the C-chain
LEMMA EvmImportAccepted ==
    ASSUME Inv, UtxosSound, call \in Calls, call.kind = "EvmImport", FromCall(call), Built, ~Excepted
    PROVE  Valid(tx)
  <1> DEFINE atomics == Arranged(toC, call)
             ins == ImportInputs(atomics, now)
  <1>1. call \in Call /\ ~WrongImport /\ call.feeAsset = AvaxAsset
    BY Usual, CallsAssumption
  <1>2. tx = EvmApiImport(atomics, call, now) /\ tx \notin {Failed, Undefined}
    BY DEF FromCall, Built
  <1>3. Source(call) = toC /\ toC \in Seq(Utxo) /\ Unique(toC) /\ TypeOK /\ IdsDistinct /\ tx \in Tx
    BY DEF Source, Inv, TypeOK, IdsDistinct, TxFits, Fits
  <1>4. atomics # <<>> /\ tx = EvmBuildImportTx(atomics, call, now)
    BY <1>2 DEF EvmApiImport
  <1>5. Len(atomics) = Len(toC) /\ Len(toC) \in Nat /\ DOMAIN atomics = 1..Len(toC)
        /\ ToSet(atomics) = ToSet(toC) /\ atomics \in Seq(Utxo)
    BY <1>3, ArrangedAt, ArrangedIs
  <1>6. toC # <<>> /\ atomics = Arranged(Source(call), call)
    <2> HIDE DEF atomics
    <2>1. QED
      BY <1>3, <1>5, <1>4, EmptySeq DEF atomics
  <1>7. /\ Unique(atomics)
        /\ Opens(ins, Source(call), TRUE) /\ Unique(ins) /\ ins # <<>>
    BY <1>3, <1>6, ImportedOpen
  <1>8. \A j, k \in DOMAIN atomics : j < k => atomics[j].id < atomics[k].id
    <2>1. CASE ~call.newest
      BY <2>1 DEF Arranged, UtxosSound, Ascends
    <2>2. CASE call.newest
      <3>1. ~(Len(toC) > 1)
        BY <1>1, <2>2 DEF WrongImport
      <3> HIDE DEF atomics
      <3>2. QED
        BY <1>5, <3>1
    <2>3. QED
      BY <2>1, <2>2
  <1>9. \A k \in DOMAIN atomics : atomics[k].out.amount > 0
    <2>1. \A u \in ToSet(atomics) : u.out.amount > 0
      BY <1>5 DEF UtxosSound, SpendableOut
    <2> HIDE DEF atomics
    <2>2. QED
      BY <2>1 DEF ToSet
  <1>10. AmountOf(atomics, AvaxAsset) # call.fee
    BY <1>3, <1>1, AnyOrder DEF WrongImport
  <1> HIDE DEF atomics
  <1>11. tx = EvmImportTx(atomics, call, now)
         /\ ValidateOuts(ById(ImportInputs(atomics, now)), ImportCredits(atomics, call), call.fee)
    <2> DEFINE form == EvmImportTx(atomics, call, now)
               reason == ~ValidateOuts(ById(ImportInputs(atomics, now)), ImportCredits(atomics, call), call.fee)
               t == EvmBuildImportTx(atomics, call, now)
    <2>1. Outcome(t, form, reason)
      BY <1>1, <1>5, <1>7, EvmImportFits
    <2>2. t \notin {Failed, Undefined}
      BY <1>2, <1>4
    <2> HIDE DEF t, form, reason
    <2>3. QED
      BY <1>4, <2>1, <2>2, BuiltForm DEF t, form, reason
  <1>12. /\ tx.imports = ById(ins) /\ tx.credited = ImportCredits(atomics, call) /\ tx.debited = <<>>
         /\ tx.owners = [k \in DOMAIN atomics |-> atomics[k].id]
         /\ tx.ins = <<>> /\ tx.outs = <<>> /\ tx.exported = <<>> /\ tx.states = <<>> /\ tx.ops = <<>>
    BY <1>11 DEF EvmImportTx, NoTx
  <1>13. \A e \in ToSet(tx.credited) : e.amount > 0
    BY <1>1, <1>5, <1>7, <1>9, <1>10, <1>11, <1>12, CreditsPositive
  <1>14. DOMAIN ins = DOMAIN atomics /\ \A k \in DOMAIN atomics : ins[k].id = atomics[k].id
    BY DEF ImportInputs, ImportInput, NewInput
  <1>15. ins \in Seq(Input)
    BY <1>5, ImportInputsAre
  <1> HIDE DEF ins
  <1>16. tx.owners = [k \in DOMAIN tx.imports |-> tx.imports[k].id]
    BY <1>8, <1>14, <1>15, <1>12, InOrderStays
  <1>17. Opens(tx.imports, Source(call), TRUE) /\ Unique(tx.imports) /\ tx.imports # <<>>
    <2>1. ToSet(ById(ins)) = ToSet(ins) /\ Unique(ById(ins))
      BY <1>7, <1>15, ByIdAre
    <2>2. ById(ins) # <<>>
      BY <1>7, <1>15, <2>1, LenProperties, EmptySeq, NothingOpens DEF ToSet
    <2>3. QED
      BY <1>7, <1>12, <2>1, <2>2 DEF Opens
  <1>18. OpIds(tx) = {} /\ OpEntries(tx) = <<>> /\ ToSet(OpOuts(tx)) = {}
    BY <1>3, <1>12, NoOps
  <1>19. Sound(tx)
    <2>1. Consumed(tx) \o tx.debited # <<>>
      BY <1>3, <1>17, TakesSomething
    <2>2. tx.credited \o tx.debited = tx.credited
      BY <1>3, <1>12, ConcatEmptySeq DEF Tx
    <2>3. ToSet(tx.debited) = {} /\ ToSet(tx.outs) = {} /\ ToSet(tx.exported) = {} /\ ToSet(tx.states) = {}
      BY <1>12, NothingOpens
    <2>4. \A a \in Asset : InTotal(tx, a) >= OutTotal(tx, a)
      BY Balanced
    <2>5. QED
      BY <1>13, <1>16, <1>18, <2>1, <2>2, <2>3, <2>4 DEF Sound
  <1>20. QED
    BY <1>3, <1>17, <1>19, <1>12, <1>18, ValidFrom, NothingOpens

\* An export from the account
LEMMA EvmExportAccepted ==
    ASSUME Inv, UtxosSound, call \in Calls, call.kind = "EvmExport", FromCall(call), Built, ~Excepted
    PROVE  Valid(tx)
  <1> DEFINE kind == "transfer"
             out == NewOutput(kind, call.asset, call.amount, call.to, call.locktime, call.toThreshold)
  <1>1. /\ call \in Call /\ ~WrongAccount /\ call.feeAsset = AvaxAsset /\ call.amount > 0
        /\ ~NobodyIn(call.to, call.toThreshold)
    BY Usual, CallsAssumption
  <1>2. TypeOK /\ IdsDistinct /\ tx \in Tx
    BY DEF Inv, TxFits, Fits
  <1>3. tx = EvmExportTx(call)
    BY <1>1, EvmExportFits DEF FromCall
  <1>4. /\ tx.debited = EvmInputs(call) /\ tx.exported = <<out>> /\ tx.credited = <<>> /\ tx.owners = <<>>
        /\ tx.imports = <<>> /\ tx.ins = <<>> /\ tx.outs = <<>> /\ tx.states = <<>> /\ tx.ops = <<>>
    BY <1>3 DEF EvmExportTx, NoTx
  <1>5. \A e \in ToSet(tx.exported) : SpendableOut(e)
    <2>1. call.to \in Seq(Nat) /\ call.toThreshold \in Nat /\ (kind = "transfer" => call.amount > 0)
      BY <1>1, CallType
    <2> HIDE DEF kind
    <2>2. SpendableOut(out)
      BY <1>1, <2>1, NewSpendable
    <2> HIDE DEF out
    <2>3. QED
      BY <1>4, <2>2 DEF ToSet
  <1> HIDE DEF out
  <1>6. tx.debited # <<>> /\ tx.debited \in Seq(Debit)
    <2>1. tx.debited # <<>>
      BY <1>4 DEF EvmInputs
    <2>2. QED
      BY <1>2, <2>1 DEF Tx
  <1>7. \A e \in ToSet(tx.debited) : e.nonce = nonce /\ e.amount \in 1..account[e.asset] /\ e.asset \in Asset
    <2>1. \A e \in ToSet(tx.debited) : e \in Debit /\ e.amount \in 1..account[e.asset]
      BY <1>1, <1>6, LenProperties DEF WrongAccount, ToSet
    <2>2. \A e \in ToSet(tx.debited) : e.nonce = call.nonce
      BY <1>4 DEF ToSet, EvmInputs, EvmInput
    <2>3. QED
      BY <2>1, <2>2, <1>1 DEF Debit, WrongAccount
  <1>8. \A e \in ToSet(tx.debited) : e.amount > 0 /\ e.amount <= account[e.asset]
    BY <1>2, <1>7 DEF TypeOK
  <1>9. OpIds(tx) = {} /\ OpEntries(tx) = <<>> /\ ToSet(OpOuts(tx)) = {}
    BY <1>2, <1>4, NoOps
  <1>10. Sound(tx)
    <2>1. Consumed(tx) \o tx.debited # <<>>
      BY <1>2, <1>6, TakesSomething
    <2>2. tx.credited \o tx.debited = tx.debited
      BY <1>4, <1>6, ConcatEmptySeq
    <2>3. ToSet(tx.outs) = {} /\ ToSet(tx.states) = {}
      BY <1>4, NothingOpens
    <2>4. \A a \in Asset : InTotal(tx, a) >= OutTotal(tx, a)
      BY Balanced
    <2>5. QED
      BY <1>4, <1>5, <1>7, <1>8, <1>9, <2>1, <2>2, <2>3, <2>4 DEF Sound
  <1>11. QED
    BY <1>2, <1>10, <1>4, <1>9, ValidFrom, NothingOpens

\* What is built from the UTXOs as they are is accepted.
LEMMA AcceptanceHolds ==
    ASSUME Inv, BuiltAsCalled, UtxosSound
    PROVE  NodeAccepts
  <1> SUFFICES ASSUME Built, ~Excepted PROVE Valid(tx)
    BY DEF NodeAccepts
  <1>1. call \in Calls /\ FromCall(call)
    BY DEF BuiltAsCalled, Built
  <1>2. call.kind \in Kinds /\ call.kind # "EvmUtxoExport"
    BY <1>1, Usual, CallsAre
  <1>3. CASE call.kind = "Base" BY <1>1, <1>3, BaseAccepted
  <1>4. CASE call.kind = "Export" BY <1>1, <1>4, ExportAccepted
  <1>5. CASE call.kind = "SECPMint" BY <1>1, <1>5, SECPMintAccepted
  <1>6. CASE call.kind = "CreateNFTAsset" BY <1>1, <1>6, CreateNFTAssetAccepted
  <1>7. CASE call.kind = "CreateNFTMint" BY <1>1, <1>7, CreateNFTMintAccepted
  <1>8. CASE call.kind = "NFTTransfer" BY <1>1, <1>8, NFTTransferAccepted
  <1>9. CASE call.kind = "Import" BY <1>1, <1>9, ImportAccepted
  <1>10. CASE call.kind = "CreateAsset" BY <1>1, <1>10, CreateAssetAccepted
  <1>11. CASE call.kind = "EvmImport" BY <1>1, <1>11, EvmImportAccepted
  <1>12. CASE call.kind = "EvmExport" BY <1>1, <1>12, EvmExportAccepted
  <1>13. QED
    BY <1>2, <1>3, <1>4, <1>5, <1>6, <1>7, <1>8, <1>9, <1>10, <1>11, <1>12 DEF Kinds

-----------------------------------------------------------------------------
\* What there is can be spent, whatever is accepted.

\* Whatever outputs a valid transaction has can be spent.
LEMMA ValidOutputs ==
    ASSUME Inv, Built, Valid(tx)
    PROVE  /\ \A out \in ToSet(Made) : SpendableOut(out)
           /\ \A out \in ToSet(tx.exported) : SpendableOut(out)
  <1> DEFINE outs == tx.outs
             exported == tx.exported
             states == tx.states
             made == OpOuts(tx)
             p == outs \o exported
             q == p \o states
             r == outs \o states
  <1>1. outs \in Seq(Output) /\ exported \in Seq(Output) /\ states \in Seq(Output) /\ made \in Seq(Output)
    BY PartsAre, ValidIs
  <1>2. \A out \in ToSet(q \o made) : SpendableOut(out)
    BY DEF Valid
  <1>3. Made = r \o made
    BY DEF Made
  <1> HIDE DEF made, outs, exported, states
  <1>4. p \in Seq(Output) /\ ToSet(outs) \subseteq ToSet(p) /\ ToSet(exported) \subseteq ToSet(p)
    BY <1>1, JoinedSet
  <1>5. r \in Seq(Output) /\ ToSet(r) \subseteq ToSet(outs) \cup ToSet(states)
    BY <1>1, JoinedSet
  <1> HIDE DEF p, r
  <1>6. q \in Seq(Output) /\ ToSet(p) \subseteq ToSet(q) /\ ToSet(states) \subseteq ToSet(q)
    BY <1>1, <1>4, JoinedSet
  <1> HIDE DEF q
  <1>7. QED
    BY <1>2, <1>3, <1>4, <1>5, <1>6, <1>1, JoinedSet DEF exported

\* New UTXOs are of the outputs, the later the greater.
LEMMA NewSound ==
    ASSUME NEW outs \in Seq(Output), NEW k \in Nat, lastId \in Nat
    PROVE  /\ \A u \in ToSet(NewUtxos(outs, k)) : u.out \in ToSet(outs)
           /\ Ascends(NewUtxos(outs, k))
  <1> DEFINE new == NewUtxos(outs, k)
             n == Len(outs)
  <1>1. n \in Nat /\ DOMAIN outs = 1..n
    BY LenProperties
  <1>2. DOMAIN new = 1..n /\ \A i \in 1..n : new[i].id = lastId + k + i /\ new[i].out = outs[i]
    BY <1>1 DEF NewUtxos
  <1> HIDE DEF new, n
  <1>3. QED
    BY <1>1, <1>2 DEF new, ToSet, Ascends

\* Newer after older ones
LEMMA AscendsJoin ==
    ASSUME NEW s \in Seq(Utxo), NEW t \in Seq(Utxo), Ascends(s), Ascends(t),
           \A i \in Ids(s) : \A j \in Ids(t) : i < j
    PROVE  Ascends(s \o t)
  <1>1. /\ s \o t \in Seq(Utxo) /\ Len(s \o t) = Len(s) + Len(t)
        /\ \A i \in 1..(Len(s) + Len(t)) : (s \o t)[i] = IF i <= Len(s) THEN s[i] ELSE t[i - Len(s)]
    BY ConcatProperties
  <1>2. /\ Len(s) \in Nat /\ Len(t) \in Nat
        /\ DOMAIN s = 1..Len(s) /\ DOMAIN t = 1..Len(t) /\ DOMAIN (s \o t) = 1..(Len(s) + Len(t))
    BY <1>1, LenProperties
  <1> SUFFICES ASSUME NEW j \in 1..(Len(s) + Len(t)), NEW k \in 1..(Len(s) + Len(t)), j < k
               PROVE  (s \o t)[j].id < (s \o t)[k].id
    BY <1>2 DEF Ascends
  <1>3. CASE k <= Len(s)
    BY <1>2, <1>3, <1>1 DEF Ascends
  <1>4. CASE ~(k <= Len(s)) /\ j <= Len(s)
    <2>1. s[j].id \in Ids(s) /\ t[k - Len(s)].id \in Ids(t)
      BY <1>2, <1>4 DEF Ids
    <2>2. QED
      BY <2>1, <1>1, <1>4
  <1>5. CASE ~(j <= Len(s))
    BY <1>2, <1>5, <1>1 DEF Ascends
  <1>6. QED
    BY <1>2, <1>3, <1>4, <1>5

\* What is left is in the order it was in.
LEMMA WithoutAscends ==
    ASSUME NEW utxos \in Seq(Utxo), NEW gone, Ascends(utxos)
    PROVE  Ascends(Without(utxos, gone))
  <1> DEFINE p == Pieces(utxos, gone)
             Old(n, s) == \A i \in DOMAIN s : \E k \in 1..n : s[i] = utxos[k]
             Good(n, s) == Ascends(s) /\ Old(n, s)
             G == {q \in (0..Len(utxos)) \X Seq(Utxo) : Good(q[1], q[2])}
  <1>1. p \in Seq(Seq(Utxo)) /\ Len(p) = Len(utxos) /\ Without(utxos, gone) = FlattenSeq(p)
    BY PiecesAre
  <1>2. /\ Len(utxos) \in Nat /\ DOMAIN utxos = 1..Len(utxos)
        /\ \A k \in 1..Len(utxos) : utxos[k] \in Utxo
    BY LenProperties
  <1>3. <<0, <<>>>> \in G
    <2>1. <<>> \in Seq(Utxo) /\ 0 \in 0..Len(utxos)
      BY <1>2, EmptySeq
    <2>2. Good(0, <<>>)
      BY DEF Ascends
    <2> HIDE DEF Good
    <2>3. QED
      BY <2>1, <2>2
  <1>4. ASSUME NEW n \in 1..Len(p), NEW s \in Seq(Utxo), <<n - 1, s>> \in G
        PROVE  <<n, s \o p[n]>> \in G
    <2>1. Ascends(s) /\ Old(n - 1, s)
      BY <1>4
    <2>2. n \in Nat /\ n \in 0..Len(utxos) /\ n \in 1..Len(utxos) /\ n - 1 \in Nat /\ n \in DOMAIN utxos
      BY <1>1, <1>2
    <2>3. p[n] \in Seq(Utxo)
      BY <1>1, LenProperties
    <2>4. Ascends(s \o p[n]) /\ ToSet(s \o p[n]) = ToSet(s) \cup ToSet(p[n]) /\ s \o p[n] \in Seq(Utxo)
      <3>1. Ascends(p[n]) /\ Ids(p[n]) \subseteq {utxos[n].id}
        BY <2>2 DEF Pieces, Ascends, Ids
      <3>2. \A i \in Ids(s) : i < utxos[n].id
        <4> SUFFICES ASSUME NEW i \in DOMAIN s PROVE s[i].id < utxos[n].id
          BY DEF Ids
        <4>1. PICK k \in 1..(n - 1) : s[i] = utxos[k]
          BY <2>1
        <4>2. QED
          BY <2>2, <4>1, <1>2 DEF Ascends
      <3> HIDE DEF p
      <3>3. QED
        BY <2>1, <2>3, <3>1, <3>2, AscendsJoin, OfConcat
    <2>5. Old(n, s \o p[n])
      <3>1. \A u \in ToSet(p[n]) : u = utxos[n]
        BY <2>2 DEF Pieces, ToSet
      <3>2. \A u \in ToSet(s) : \E k \in 1..n : u = utxos[k]
        BY <2>1, <2>2 DEF ToSet
      <3>3. n \in 1..n
        BY <2>2
      <3> HIDE DEF p
      <3>4. QED
        BY <2>4, <3>1, <3>2, <3>3 DEF ToSet
    <2>6. Good(n, s \o p[n])
      BY <2>4, <2>5
    <2> HIDE DEF Good, p
    <2>7. QED
      BY <2>2, <2>4, <2>6
  <1>5. <<Len(p), FlattenSeq(p)>> \in G
    <2> HIDE DEF G, p
    <2>1. QED
      BY <1>1, <1>3, <1>4, FlatInduction
  <1>6. Ascends(FlattenSeq(p))
    <2>1. Good(Len(p), FlattenSeq(p))
      <3> HIDE DEF Good, p
      <3>1. QED
        BY <1>5
    <2>2. QED
      BY <2>1
  <1>7. QED
    <2> HIDE DEF p
    <2>1. QED
      BY <1>1, <1>6

\* The UTXOs of the beginning can be spent.
LEMMA InitSound == Init => UtxosSound
  <1> SUFFICES ASSUME Init PROVE UtxosSound
    OBVIOUS
  <1>1. QED
    BY GenesisAssumption DEF UtxosSound, ToSet, Ascends, Init

\* What is sent to another chain are tokens, as they were asked for.
LEMMA SentSound ==
    ASSUME Inv, BuiltAsCalled, Built, Valid(tx), NEW kind \in {"Export", "EvmExport"}
    PROVE  /\ SentTo(kind) \in Seq(Utxo) /\ Ascends(SentTo(kind))
           /\ \A u \in ToSet(SentTo(kind)) : SpendableOut(u.out) /\ u.out.kind = "transfer"
  <1> DEFINE exported == tx.exported
             new == NewUtxos(exported, Len(Made))
  <1>1. SentTo(kind) \in Seq(Utxo)
    BY NewIs
  <1>2. CASE call.kind = kind
    <2>1. SentTo(kind) = new
      BY <1>2 DEF SentTo
    <2>2. exported \in Seq(Output) /\ Len(Made) \in Nat /\ lastId \in Nat
      BY ValidIs, NewIs, PartsAre
    <2>3. \A u \in ToSet(new) : u.out \in ToSet(exported)
      BY <2>2, NewSound
    <2>4. Ascends(new)
      BY <2>2, NewSound
    <2>5. \A out \in ToSet(exported) : SpendableOut(out)
      BY ValidOutputs
    <2>6. \A out \in ToSet(exported) : out.kind = "transfer"
      <3>1. IsExported(exported)
        BY <1>2, ArrivalHolds DEF MoveArrives, WhatIsAskedArrives, Inv
      <3> HIDE DEF exported
      <3>2. QED
        BY <2>2, <3>1, LenProperties DEF ToSet, IsExported, IsAsked
    <2> HIDE DEF new, exported
    <2>7. QED
      BY <1>1, <2>1, <2>3, <2>4, <2>5, <2>6
  <1>3. CASE call.kind # kind
    BY <1>3, <1>1 DEF SentTo, Ascends, ToSet
  <1>4. QED
    BY <1>2, <1>3

\* What is accepted can be spent, and comes after what there was.
LEMMA AcceptSound ==
    ASSUME Inv, BuiltAsCalled, UtxosSound, Accept
    PROVE  UtxosSound'
  <1> DEFINE new == NewUtxos(Made, 0)
             leftX == Without(x, Gone)
             leftToX == Without(toX, Gone)
             leftToC == Without(toC, Gone)
             sentX == SentTo("EvmExport")
             sentC == SentTo("Export")
  <1>1. Built /\ Valid(tx) /\ x' = leftX \o new /\ toX' = leftToX \o sentX /\ toC' = leftToC \o sentC
    BY AcceptIs
  <1>2. x \in Seq(Utxo) /\ toX \in Seq(Utxo) /\ toC \in Seq(Utxo) /\ lastId \in Nat
    BY DEF Inv, TypeOK
  <1>3. leftX \in Seq(Utxo) /\ leftToX \in Seq(Utxo) /\ leftToC \in Seq(Utxo)
    BY <1>2, WithoutType
  <1>4. /\ ToSet(leftX) \subseteq ToSet(x) /\ ToSet(leftToX) \subseteq ToSet(toX) /\ ToSet(leftToC) \subseteq ToSet(toC)
        /\ Ids(leftToC) \subseteq Ids(toC)
    BY <1>2, WithoutType
  <1>5. new \in Seq(Utxo) /\ \A u \in ToSet(new) : SpendableOut(u.out)
    BY <1>1, <1>2, NewIs, NewSound, ValidOutputs
  <1>6. /\ sentX \in Seq(Utxo) /\ sentC \in Seq(Utxo) /\ Ascends(sentC)
        /\ \A u \in ToSet(sentX) \cup ToSet(sentC) : SpendableOut(u.out) /\ u.out.kind = "transfer"
    BY <1>1, SentSound
  <1>7. Ascends(leftToC)
    BY <1>2, WithoutAscends DEF UtxosSound
  <1>8. \A i \in Ids(leftToC) : \A j \in Ids(sentC) : i < j
    <2>1. Ids(toC) \subseteq Nat /\ \A i \in Ids(toC) : i <= lastId
      <3>1. \A k \in DOMAIN toC : toC[k] \in Utxo
        BY <1>2, LenProperties
      <3>2. QED
        BY <3>1, KnownIds DEF Ids, Utxo
    <2>2. QED
      BY <1>2, <1>4, <2>1, NewIdsAre DEF NewIds
  <1> HIDE DEF new, leftX, leftToX, leftToC, sentX, sentC
  <1>9. /\ ToSet(leftX \o new) = ToSet(leftX) \cup ToSet(new)
        /\ ToSet(leftToX \o sentX) = ToSet(leftToX) \cup ToSet(sentX)
        /\ ToSet(leftToC \o sentC) = ToSet(leftToC) \cup ToSet(sentC)
    BY <1>3, <1>5, <1>6, OfConcat
  <1>10. Ascends(toC)'
    BY <1>1, <1>3, <1>6, <1>7, <1>8, AscendsJoin DEF Ascends
  <1>11. QED
    BY <1>10, <1>1, <1>4, <1>5, <1>6, <1>9 DEF UtxosSound

\* Nothing but what is accepted moves a UTXO.
LEMMA OnlyAcceptMoves ==
    ASSUME [Next]_vars, ~Accept
    PROVE  x' = x /\ toX' = toX /\ toC' = toC
  <1>1. ASSUME UNCHANGED chain PROVE x' = x /\ toX' = toX /\ toC' = toC
    BY <1>1 DEF chain
  <1>2. CASE Base BY <1>1, <1>2 DEF Base, FromX, Build
  <1>3. CASE Export BY <1>1, <1>3 DEF Export, FromX, Build
  <1>4. CASE SECPMint BY <1>1, <1>4 DEF SECPMint, FromX, Build
  <1>5. CASE CreateNFTAsset BY <1>1, <1>5 DEF CreateNFTAsset, FromX, Build
  <1>6. CASE CreateNFTMint BY <1>1, <1>6 DEF CreateNFTMint, FromX, Build
  <1>7. CASE NFTTransfer BY <1>1, <1>7 DEF NFTTransfer, FromX, Build
  <1>8. CASE Import BY <1>1, <1>8 DEF Import, FromX, Build
  <1>9. CASE CreateAsset BY <1>1, <1>9 DEF CreateAsset, Build
  <1>10. CASE EvmImport BY <1>1, <1>10 DEF EvmImport, Build
  <1>11. CASE EvmExport BY <1>1, <1>11 DEF EvmExport, Build
  <1>12. CASE EvmUtxoExport BY <1>1, <1>12 DEF EvmUtxoExport, Build
  <1>13. CASE FetchUTXOs BY <1>1, <1>13 DEF FetchUTXOs
  <1>14. CASE Refuse BY <1>1, <1>14 DEF Refuse
  <1>15. CASE Tick BY <1>1, <1>15 DEF Tick
  <1>16. CASE UNCHANGED vars BY <1>16 DEF vars
  <1>17. QED
    BY <1>2, <1>3, <1>4, <1>5, <1>6, <1>7, <1>8, <1>9, <1>10, <1>11, <1>12, <1>13, <1>14, <1>15, <1>16 DEF Next

\* Every step keeps what there is spendable.
LEMMA SoundStays ==
    ASSUME Inv, BuiltAsCalled, UtxosSound, [Next]_vars
    PROVE  UtxosSound'
  BY AcceptSound, OnlyAcceptMoves DEF UtxosSound, Ascends

-----------------------------------------------------------------------------
\* What is built is of its call, in every state, and with it what a call promises.

BuiltInv == Inv /\ BuiltAsCalled

\* Every step keeps what is built, or builds what the call says.
THEOREM BuiltInvInductive == BuiltInv /\ [Next]_vars => BuiltInv'
  BY InvInductive, BuiltStays DEF BuiltInv

\* In every state the transaction is what the function of the call makes of the UTXOs.
THEOREM BuiltInvHolds == Spec => []BuiltInv
  <1>1. Init => BuiltInv
    BY InitInv, InitBuilt DEF BuiltInv
  <1>2. QED
    BY <1>1, BuiltInvInductive, PTL DEF Spec

(* A function of the builders fails only for want of tokens the senders can spend,
   or for what the call has no right to ask: what getMinimumSpendable and the
   checks of the callers throw for is a reason, whatever the order of the UTXOs. *)
THEOREM RefusalsAreJustified == Spec => []RefusalIsJustified
  <1>1. BuiltInv => RefusalIsJustified
    BY RefusalHolds DEF BuiltInv, Inv
  <1>2. QED
    BY <1>1, BuiltInvHolds, PTL

(* Whatever is built sends what was asked for to whom it was asked for, and gives
   the rest back as change: the selection merges and splits outputs, but never
   the one that is to arrive. *)
THEOREM AskedArrives == Spec => []WhatIsAskedArrives
  <1>1. BuiltInv => WhatIsAskedArrives
    BY ArrivalHolds DEF BuiltInv, Inv
  <1>2. QED
    BY <1>1, BuiltInvHolds, PTL

\* What there is can be spent, in every state, and what is built is of its call.
SoundInv == BuiltInv /\ UtxosSound

\* Every step keeps what there is spendable, and what is built of its call.
THEOREM SoundInvInductive == SoundInv /\ [Next]_vars => SoundInv'
  <1>1. BuiltInv /\ UtxosSound /\ [Next]_vars => UtxosSound'
    BY SoundStays DEF BuiltInv
  <1>2. QED
    BY <1>1, BuiltInvInductive DEF SoundInv

(* In every state each UTXO can be spent by as many of its addresses as are to
   sign: the chains let nothing else exist, and the shared memory holds tokens,
   on the way to the C-chain in the order of their ids. *)
THEOREM SoundInvHolds == Spec => []SoundInv
  <1>1. Init => SoundInv
    BY InitInv, InitBuilt, InitSound DEF SoundInv, BuiltInv
  <1>2. QED
    BY <1>1, SoundInvInductive, PTL DEF Spec

(* What is built from the UTXOs as they are is accepted by the chain, but for
   what the builders leave to the caller: the inputs exist and are taken once,
   with exactly the signatures that getSpenders gives for what they spend, in
   order; no output is empty or out of reach; and the owners are those of the inputs. *)
THEOREM BuiltIsAccepted == Spec => []NodeAccepts
  <1>1. SoundInv => NodeAccepts
    BY AcceptanceHolds DEF SoundInv, BuiltInv
  <1>2. QED
    BY <1>1, SoundInvHolds, PTL
=============================================================================
