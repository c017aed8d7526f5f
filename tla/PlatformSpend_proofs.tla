------------------------ MODULE PlatformSpend_proofs ------------------------
(***************************************************************************)
(* What PlatformSpend does, for all UTXOs, locks, requests and times.      *)
(*                                                                         *)
(* First its accounts: tokens under a lock return under it, a plain call   *)
(* burns what it was asked to, and no call burns more.  The argument rests *)
(* on what the last UTXO of an asset did: it alone can give change, so     *)
(* that change is less than its amount.                                    *)
(*                                                                         *)
(* Then what getMinimumSpendable promises its caller: which UTXOs it       *)
(* consumes and in which order, when it refuses, and that all it consumes  *)
(* is sent, change or burned as asked for.  The accounts are per           *)
(* accumulator; here they are added up over the UTXOs.                     *)
(***************************************************************************)
EXTENDS PlatformSpend, SumTheorems, SequenceTheorems

\* An accumulator: until the total is reached there is no change, then it is the
\* excess, and change that is not locked comes out of unlocked tokens.
Accounted(aa) ==
    /\ Requested(aa) > 0
    /\ aa.stakeableLockSpent <= aa.spent
    /\ ~aa.finished => aa.spent < Requested(aa) /\ aa.change = 0 /\ ~aa.stakeableLockChange
    /\ aa.finished => aa.spent = Requested(aa) + aa.change
    /\ ~aa.stakeableLockChange => aa.change <= aa.spent - aa.stakeableLockSpent

AllAccounted == \A a \in Wanted : Accounted(amounts[a])

\* The locked outputs of an asset: distinct UTXOs of it, visited already; locked
\* change comes from the last of them and is less than its amount.
LocksOf(a) ==
    /\ \A k \in 1..Len(lockedOutputs[a]) :
           utxos[lockedOutputs[a][k]].asset = a /\ lockedOutputs[a][k] \notin remaining
    /\ \A j, k \in 1..Len(lockedOutputs[a]) : lockedOutputs[a][j] = lockedOutputs[a][k] => j = k
    /\ a \notin Wanted => Len(lockedOutputs[a]) = 0
    /\ a \in Wanted /\ amounts[a].stakeableLockChange =>
           /\ Len(lockedOutputs[a]) > 0
           /\ utxos[lockedOutputs[a][Len(lockedOutputs[a])]].amount > amounts[a].change

LocksKnown == \A a \in Asset : LocksOf(a)

\* Exactly the inputs under a lock are among the locked outputs of their asset.
IsLockedOutput(i) ==
    \E k \in 1..Len(lockedOutputs[utxos[i].asset]) : lockedOutputs[utxos[i].asset][k] = i

InputsMatch == \A i \in UtxoId : i \in LockedConsumed <=> IsLockedOutput(i)

\* A plain call touches no lock that has not ended.
NothingLockedInPlain ==
    /\ \A i \in remaining : Consumable(utxos[i], lockMode)
    /\ lockMode = "Unlocked" =>
           \A a \in Wanted : amounts[a].stakeableLockSpent = 0 /\ ~amounts[a].stakeableLockChange

PhasesFit ==
    /\ phase \in {"building", "done"} => \A a \in Wanted : amounts[a].finished
    /\ phase # "building" => asset = NoAsset
    /\ phase = "done" => pending = {}
    /\ asset # NoAsset => asset \in Wanted /\ asset \notin pending /\ index <= Len(lockedOutputs[asset])

Built(a) == phase \in {"building", "done"} /\ a \notin pending /\ a # asset

\* The unlocked outputs are there for the assets that are through.
UnlockedProduced ==
    \A a \in Wanted :
        /\ Built(a) => /\ change[a] = UnlockedChange(a)
                       /\ sent[a] = IF UnlockedAmount(a) > 0 THEN UnlockedAmount(a) ELSE 0
        /\ ~Built(a) => sent[a] = 0

RelockedAt(a, k) ==
    /\ relocked[lockedOutputs[a][k]] = RelockedAmount(a, k)
    /\ relockedChange[lockedOutputs[a][k]] = IF k = Len(lockedOutputs[a]) THEN LockedChange(a) ELSE 0

NothingAt(i) == relocked[i] = 0 /\ relockedChange[i] = 0

\* The locked outputs are put back one after the other, and nothing else is.
LockedProduced ==
    /\ phase \notin {"building", "done"} => \A i \in UtxoId : NothingAt(i)
    /\ \A a \in Asset : \A k \in 1..Len(lockedOutputs[a]) :
           IF Built(a) \/ (a = asset /\ k <= index)
           THEN RelockedAt(a, k) ELSE NothingAt(lockedOutputs[a][k])
    /\ \A i \in UtxoId : ~IsLockedOutput(i) => NothingAt(i)

Selecting == AllAccounted /\ LocksKnown /\ InputsMatch /\ NothingLockedInPlain

Inv == TypeOK /\ Selecting /\ PhasesFit /\ UnlockedProduced /\ LockedProduced

-----------------------------------------------------------------------------
\* What the variables hold, and the accumulator.

LEMMA UtxoFacts ==
    ASSUME TypeOK, NEW i \in UtxoId
    PROVE  /\ utxos[i].asset \in Asset
           /\ utxos[i].amount \in Nat /\ utxos[i].amount > 0
           /\ utxos[i].kind \in {"transfer", "stakeable", "owner"}
           /\ utxos[i].stakeableLocktime \in Nat
           /\ utxos[i].spendable \in BOOLEAN
           /\ Locked(i) \in BOOLEAN
  BY DEF TypeOK, Utxo, Locked

LEMMA AmountFields ==
    ASSUME NEW aa \in AssetAmounts
    PROVE  /\ aa.amount \in Nat /\ aa.burn \in Nat /\ aa.spent \in Nat
           /\ aa.stakeableLockSpent \in Nat /\ aa.change \in Nat
           /\ aa.stakeableLockChange \in BOOLEAN /\ aa.finished \in BOOLEAN
  BY DEF AssetAmounts

LEMMA AmountFacts ==
    ASSUME TypeOK, NEW a \in Wanted
    PROVE  a \in Asset /\ amounts[a] \in AssetAmounts
  BY DEF TypeOK

LEMMA LockedOutputFacts ==
    ASSUME TypeOK, NEW a \in Asset
    PROVE  /\ lockedOutputs[a] \in Seq(UtxoId)
           /\ Len(lockedOutputs[a]) \in Nat
           /\ \A k \in 1..Len(lockedOutputs[a]) : lockedOutputs[a][k] \in UtxoId
  <1>1. lockedOutputs[a] \in Seq(UtxoId)
    BY DEF TypeOK
  <1>2. QED
    BY <1>1, LenProperties, ElementOfSeq

\* A new accumulator has spent nothing of a total that is not zero.
LEMMA NewAccounted ==
    ASSUME NEW amt \in Nat, NEW brn \in Nat, amt + brn > 0
    PROVE  /\ NewAssetAmount(amt, brn) \in AssetAmounts
           /\ Accounted(NewAssetAmount(amt, brn))
           /\ NewAssetAmount(amt, brn).stakeableLockSpent = 0
           /\ ~NewAssetAmount(amt, brn).stakeableLockChange
  BY DEF NewAssetAmount, AssetAmounts, Accounted, Requested

\* The amount that reaches the total exceeds the change it leaves.
LEMMA SpendAccounted ==
    ASSUME NEW aa \in AssetAmounts, Accounted(aa), ~aa.finished,
           NEW amt \in Nat, amt > 0, NEW locked \in BOOLEAN
    PROVE  /\ SpendAmount(aa, amt, locked) \in AssetAmounts
           /\ Accounted(SpendAmount(aa, amt, locked))
           /\ SpendAmount(aa, amt, locked).stakeableLockChange =>
                  locked /\ amt > SpendAmount(aa, amt, locked).change
           /\ ~locked => SpendAmount(aa, amt, locked).stakeableLockSpent = aa.stakeableLockSpent
  <1>1. /\ aa.amount \in Nat /\ aa.burn \in Nat /\ aa.spent \in Nat
        /\ aa.stakeableLockSpent \in Nat /\ aa.change \in Nat
        /\ aa.stakeableLockChange = FALSE /\ aa.change = 0
        /\ aa.spent < aa.amount + aa.burn /\ aa.stakeableLockSpent <= aa.spent
    BY AmountFields DEF Accounted, Requested
  <1> DEFINE total == aa.amount + aa.burn
             r == SpendAmount(aa, amt, locked)
  <1>2. /\ r.amount = aa.amount /\ r.burn = aa.burn /\ r.spent = aa.spent + amt
        /\ r.stakeableLockSpent = (IF locked THEN aa.stakeableLockSpent + amt ELSE aa.stakeableLockSpent)
        /\ r.change = (IF aa.spent + amt >= total THEN aa.spent + amt - total ELSE 0)
        /\ r.stakeableLockChange = (aa.spent + amt >= total /\ locked)
        /\ r.finished = (aa.spent + amt >= total)
    BY <1>1 DEF SpendAmount, SpendTowards, Requested
  <1>3. r \in AssetAmounts
    BY <1>1 DEF SpendAmount, SpendTowards, Requested, AssetAmounts
  <1> HIDE DEF r
  <1>4. Accounted(r)
    <2>1. r.amount + r.burn > 0 /\ r.stakeableLockSpent <= r.spent
      BY <1>1, <1>2
    <2>0. r.finished <=> aa.spent + amt >= total
      BY <1>2
    <2>2. ~r.finished => r.spent < r.amount + r.burn /\ r.change = 0 /\ ~r.stakeableLockChange
      <3>1. CASE ~(aa.spent + amt >= total)
        BY <3>1, <1>1, <1>2
      <3>2. QED
        BY <3>1, <2>0
    <2>3. r.finished => r.spent = r.amount + r.burn + r.change
      <3>1. CASE aa.spent + amt >= total
        BY <3>1, <1>1, <1>2
      <3>2. QED
        BY <3>1, <2>0
    <2>4. ~r.stakeableLockChange => r.change <= r.spent - r.stakeableLockSpent
      <3>1. CASE aa.spent + amt >= total /\ ~locked
        BY <3>1, <1>1, <1>2
      <3>2. CASE ~(aa.spent + amt >= total)
        <4>1. r.change = 0 /\ r.stakeableLockSpent <= r.spent
          BY <3>2, <1>1, <1>2, <2>1
        <4>2. r.spent \in Nat /\ r.stakeableLockSpent \in Nat
          BY <1>1, <1>2
        <4>3. QED
          BY <4>1, <4>2
      <3>3. QED
        BY <3>1, <3>2, <1>2
    <2>5. QED
      BY <2>1, <2>2, <2>3, <2>4 DEF Accounted, Requested
  <1>5. r.stakeableLockChange => locked /\ amt > r.change
    BY <1>1, <1>2
  <1>6. ~locked => r.stakeableLockSpent = aa.stakeableLockSpent
    BY <1>2
  <1>7. QED
    BY <1>3, <1>4, <1>5, <1>6 DEF r

-----------------------------------------------------------------------------
\* The initial states.

LEMMA InitInv == Init => Inv
  <1> SUFFICES ASSUME Init PROVE Inv
    OBVIOUS
  <1>1. /\ utxos \in [UtxoId -> Utxo] /\ lockMode \in {"Unlocked", "Stake"}
        /\ remaining = {i \in UtxoId : Consumable(utxos[i], lockMode)}
        /\ lockedOutputs = [a \in Asset |-> <<>>] /\ inputs = <<>>
        /\ phase = "selecting" /\ asset = NoAsset /\ pending = {} /\ index = 0
        /\ relocked = [i \in UtxoId |-> 0] /\ relockedChange = [i \in UtxoId |-> 0]
        /\ change = [a \in Asset |-> 0] /\ sent = [a \in Asset |-> 0]
    BY UtxoSetsAssumption, LockModesAssumption DEF Init
  <1>2. PICK r \in Requests : amounts = [a \in DOMAIN r |-> NewAssetAmount(r[a].amount, r[a].burn)]
    BY DEF Init
  <1>3. /\ Wanted = DOMAIN r /\ DOMAIN r \subseteq Asset
        /\ \A a \in Wanted : /\ amounts[a] = NewAssetAmount(r[a].amount, r[a].burn)
                            /\ r[a].amount \in Nat /\ r[a].burn \in Nat
                            /\ r[a].amount + r[a].burn > 0
    BY <1>2, RequestsAssumption DEF Wanted
  <1>4. \A a \in Wanted : amounts[a] \in AssetAmounts /\ Accounted(amounts[a])
    BY <1>3, NewAccounted
  <1>5. <<>> \in Seq(UtxoId) /\ <<>> \in Seq([utxo : UtxoId, locked : BOOLEAN]) /\ Len(<<>>) = 0
    BY EmptySeq
  <1>6. \A a \in Asset : lockedOutputs[a] = <<>> /\ Len(lockedOutputs[a]) = 0
    BY <1>1, <1>5
  <1>7. TypeOK
    <2>1. amounts \in [Wanted -> AssetAmounts]
      BY <1>2, <1>4 DEF Wanted
    <2>2. Wanted \subseteq Asset
      BY <1>3
    <2>3. /\ lockedOutputs \in [Asset -> Seq(UtxoId)] /\ inputs \in Seq([utxo : UtxoId, locked : BOOLEAN])
          /\ remaining \subseteq UtxoId
      BY <1>1, <1>5
    <2>4. QED
      BY <1>1, <2>1, <2>2, <2>3 DEF TypeOK
  <1>8. \A a \in Wanted : amounts[a].stakeableLockSpent = 0 /\ ~amounts[a].stakeableLockChange
    BY <1>3, NewAccounted
  <1>9. LocksKnown
    <2> SUFFICES ASSUME NEW a \in Asset PROVE LocksOf(a)
      BY DEF LocksKnown
    <2>1. \A k : k \notin 1..Len(lockedOutputs[a])
      BY <1>6
    <2>2. QED
      BY <2>1, <1>6, <1>8 DEF LocksOf
  <1>10. \A i \in UtxoId : ~IsLockedOutput(i)
    <2> SUFFICES ASSUME NEW i \in UtxoId PROVE ~IsLockedOutput(i)
      OBVIOUS
    <2>1. Len(lockedOutputs[utxos[i].asset]) = 0
      BY <1>6, <1>7, UtxoFacts
    <2>2. QED
      BY <2>1 DEF IsLockedOutput
  <1>11. LockedConsumed = {}
    BY <1>1, <1>5 DEF LockedConsumed
  <1>12. Selecting
    BY <1>1, <1>4, <1>8, <1>9, <1>10, <1>11
       DEF Selecting, AllAccounted, InputsMatch, NothingLockedInPlain
  <1>13. PhasesFit
    BY <1>1 DEF PhasesFit
  <1>14. UnlockedProduced
    BY <1>1, <1>3 DEF UnlockedProduced, Built
  <1>15. LockedProduced
    BY <1>1, <1>6, <1>10 DEF LockedProduced, NothingAt, Built
  <1>16. QED
    BY <1>7, <1>12, <1>13, <1>14, <1>15 DEF Inv

-----------------------------------------------------------------------------
\* Steps that leave the accumulators and the locked outputs alone.

LEMMA SameSelection ==
    ASSUME Inv, UNCHANGED <<input, amounts, lockedOutputs, inputs>>,
           remaining' \subseteq remaining
    PROVE  Selecting'
  <1>1. UNCHANGED <<utxos, lockMode, amounts, lockedOutputs, inputs>> /\ Wanted' = Wanted
    BY DEF input, Wanted
  <1>2. AllAccounted'
    BY <1>1 DEF Inv, Selecting, AllAccounted, Accounted, Requested
  <1>3. LocksKnown'
    BY <1>1 DEF Inv, Selecting, LocksKnown, LocksOf
  <1>4. InputsMatch'
    BY <1>1 DEF Inv, Selecting, InputsMatch, IsLockedOutput, LockedConsumed
  <1>5. NothingLockedInPlain'
    BY <1>1 DEF Inv, Selecting, NothingLockedInPlain, Consumable
  <1>6. QED
    BY <1>2, <1>3, <1>4, <1>5 DEF Selecting

\* The outputs that are there do not depend on what is still to be visited.
LEMMA SameProduction ==
    ASSUME Inv, UNCHANGED <<input, amounts, lockedOutputs, produced, asset, index>>,
           \A a \in Wanted : Built(a)' <=> Built(a),
           phase \in {"building", "done"} => phase' \in {"building", "done"}
    PROVE  UnlockedProduced' /\ LockedProduced'
  <1>1. /\ UNCHANGED <<utxos, lockMode, amounts, lockedOutputs, asset, index>> /\ Wanted' = Wanted
        /\ UNCHANGED <<relocked, relockedChange, change, sent>>
        /\ Wanted \subseteq Asset
    BY DEF input, produced, Wanted, Inv, TypeOK
  <1>2. UnlockedProduced'
    BY <1>1 DEF Inv, UnlockedProduced, UnlockedAmount, UnlockedChange
  <1>3. \A a, k : /\ RelockedAt(a, k)' <=> RelockedAt(a, k)
                  /\ NothingAt(k)' <=> NothingAt(k)
    BY <1>1 DEF RelockedAt, RelockedAmount, LockedChange, NothingAt
  <1>4. \A i \in UtxoId : IsLockedOutput(i)' <=> IsLockedOutput(i)
    BY <1>1 DEF IsLockedOutput
  <1>5. \A a \in Asset : a \notin Wanted => Len(lockedOutputs[a]) = 0
    BY DEF Inv, Selecting, LocksKnown, LocksOf
  <1>6. \A a \in Asset : \A k \in 1..Len(lockedOutputs[a]) : Built(a)' <=> Built(a)
    BY <1>5
  <1>7. LockedProduced'
    BY <1>1, <1>3, <1>4, <1>6 DEF Inv, LockedProduced, NothingAt
  <1>8. QED
    BY <1>2, <1>7

LEMMA StutterInv == Inv /\ UNCHANGED vars => Inv'
  <1> SUFFICES ASSUME Inv, UNCHANGED vars PROVE Inv'
    OBVIOUS
  <1>1. /\ UNCHANGED <<input, amounts, lockedOutputs, inputs, produced, asset, index>>
        /\ UNCHANGED <<phase, pending, remaining>>
    BY DEF vars, selection, cursor
  <1>2. TypeOK'
    BY <1>1 DEF Inv, TypeOK, input, produced, Wanted
  <1>3. PhasesFit'
    BY <1>1 DEF Inv, PhasesFit, Wanted
  <1>4. \A a \in Wanted : Built(a)' <=> Built(a)
    BY <1>1 DEF Built
  <1>5. Selecting' /\ UnlockedProduced' /\ LockedProduced'
    BY <1>1, <1>4, SameSelection, SameProduction
  <1>6. QED
    BY <1>2, <1>3, <1>5 DEF Inv

LEMMA SkipInv ==
    ASSUME Inv, NEW i \in UtxoId, SkipUtxo(i)
    PROVE  Inv'
  <1>1. /\ UNCHANGED <<input, amounts, lockedOutputs, inputs, produced, asset, index>>
        /\ UNCHANGED <<phase, pending>> /\ remaining' = remaining \ {i}
    BY DEF SkipUtxo, cursor
  <1>2. TypeOK'
    BY <1>1 DEF Inv, TypeOK, input, produced, Wanted
  <1>3. PhasesFit'
    BY <1>1 DEF Inv, PhasesFit, Wanted
  <1>4. \A a \in Wanted : Built(a)' <=> Built(a)
    BY <1>1 DEF Built
  <1>5. Selecting' /\ UnlockedProduced' /\ LockedProduced'
    BY <1>1, <1>4, SameSelection, SameProduction
  <1>6. QED
    BY <1>2, <1>3, <1>5 DEF Inv

LEMMA EndOfSelectionInv ==
    ASSUME Inv, Insufficient \/ Selected
    PROVE  Inv'
  <1>1. /\ UNCHANGED <<input, amounts, lockedOutputs, inputs, produced, asset, index>>
        /\ UNCHANGED remaining /\ phase = "selecting"
    BY DEF Insufficient, Selected, cursor, selection
  <1>2. \/ phase' = "insufficient" /\ pending' = pending
        \/ phase' = "building" /\ pending' = Wanted /\ CanComplete(amounts)
    BY DEF Insufficient, Selected, cursor
  <1>3. TypeOK'
    <2>1. pending' \subseteq Wanted /\ phase' \in {"selecting", "building", "done", "insufficient"}
      BY <1>2 DEF Inv, TypeOK
    <2>2. QED
      BY <1>1, <2>1 DEF Inv, TypeOK, input, produced, Wanted
  <1>4. PhasesFit'
    BY <1>1, <1>2 DEF Inv, PhasesFit, Wanted, CanComplete
  <1>5. \A a \in Wanted : Built(a)' <=> Built(a)
    BY <1>1, <1>2 DEF Built
  <1>6. Selecting' /\ UnlockedProduced' /\ LockedProduced'
    BY <1>1, <1>5, SameSelection, SameProduction
  <1>7. QED
    BY <1>3, <1>4, <1>6 DEF Inv

LEMMA ReturnInv ==
    ASSUME Inv, Return
    PROVE  Inv'
  <1>1. /\ UNCHANGED <<input, amounts, lockedOutputs, inputs, produced, asset, index>>
        /\ UNCHANGED <<remaining, pending>>
        /\ phase = "building" /\ phase' = "done" /\ asset = NoAsset /\ pending = {}
    BY DEF Return, cursor, selection
  <1>2. TypeOK'
    BY <1>1 DEF Inv, TypeOK, input, produced, Wanted
  <1>3. PhasesFit'
    BY <1>1 DEF Inv, PhasesFit, Wanted
  <1>4. \A a \in Wanted : Built(a)' <=> Built(a)
    BY <1>1 DEF Built
  <1>5. Selecting' /\ UnlockedProduced' /\ LockedProduced'
    BY <1>1, <1>4, SameSelection, SameProduction
  <1>6. QED
    BY <1>2, <1>3, <1>5 DEF Inv

\* The asset that is taken up was not built before, and is not yet.
LEMMA NextAssetInv ==
    ASSUME Inv, NEW a \in Asset, NextAsset(a)
    PROVE  Inv'
  <1>1. /\ UNCHANGED <<input, amounts, lockedOutputs, inputs>> /\ UNCHANGED remaining
        /\ UNCHANGED <<relocked, relockedChange, change, sent, phase>>
        /\ phase = "building" /\ asset = NoAsset /\ a \in pending
        /\ asset' = a /\ pending' = pending \ {a} /\ index' = 0
    BY DEF NextAsset, produced, selection
  <1>2. UNCHANGED <<utxos, lockMode>> /\ Wanted' = Wanted /\ pending \subseteq Wanted
    BY <1>1 DEF input, Wanted, Inv, TypeOK
  <1>3. TypeOK'
    BY <1>1, <1>2 DEF Inv, TypeOK
  <1>4. Len(lockedOutputs[a]) \in Nat
    BY LockedOutputFacts DEF Inv
  <1>5. PhasesFit'
    <2>1. 0 <= Len(lockedOutputs[a])
      BY <1>4
    <2>2. QED
      BY <1>1, <1>2, <2>1 DEF Inv, PhasesFit
  <1>6. \A b \in Asset : Built(b)' <=> Built(b)
    BY <1>1, NoAssetAssumption DEF Built
  <1>7. Selecting'
    BY <1>1, SameSelection
  <1>8. UnlockedProduced'
    BY <1>1, <1>2, <1>6 DEF Inv, TypeOK, UnlockedProduced, UnlockedAmount, UnlockedChange
  <1>9. LockedProduced'
    <2>1. \A b, k : /\ RelockedAt(b, k)' <=> RelockedAt(b, k)
                    /\ NothingAt(k)' <=> NothingAt(k)
      BY <1>1, <1>2 DEF RelockedAt, RelockedAmount, LockedChange, NothingAt
    <2>2. \A i \in UtxoId : IsLockedOutput(i)' <=> IsLockedOutput(i)
      BY <1>1, <1>2 DEF IsLockedOutput
    <2>3. \A b \in Asset : \A k \in 1..Len(lockedOutputs[b]) :
              /\ ~(b = asset' /\ k <= index')
              /\ ~(b = asset /\ k <= index)
      BY <1>1, NoAssetAssumption, LockedOutputFacts DEF Inv
    <2>4. QED
      BY <1>1, <1>6, <2>1, <2>2, <2>3 DEF Inv, LockedProduced
  <1>10. QED
    BY <1>3, <1>5, <1>7, <1>8, <1>9 DEF Inv

-----------------------------------------------------------------------------
\* The outputs of an asset.

\* The amounts of its outputs are natural numbers: change never exceeds what it
\* is taken from.
LEMMA OutputAmounts ==
    ASSUME Inv, NEW a \in Wanted
    PROVE  /\ LockedChange(a) \in Nat /\ UnlockedChange(a) \in Nat /\ UnlockedAmount(a) \in Int
           /\ \A k \in 1..Len(lockedOutputs[a]) :
                  /\ RelockedAmount(a, k) \in Nat /\ RelockedAmount(a, k) > 0
                  /\ RelockedAmount(a, k) + (IF k = Len(lockedOutputs[a]) THEN LockedChange(a) ELSE 0)
                         = utxos[lockedOutputs[a][k]].amount
  <1>1. a \in Asset /\ amounts[a] \in AssetAmounts
    BY AmountFacts DEF Inv
  <1>2. /\ amounts[a].change \in Nat /\ amounts[a].spent \in Nat /\ amounts[a].burn \in Nat
        /\ amounts[a].stakeableLockSpent \in Nat
    BY <1>1, AmountFields
  <1>3. LockedChange(a) \in Nat /\ UnlockedChange(a) \in Nat /\ UnlockedAmount(a) \in Int
    BY <1>2 DEF LockedChange, UnlockedChange, UnlockedAmount
  <1>4. ASSUME NEW k \in 1..Len(lockedOutputs[a])
        PROVE  /\ RelockedAmount(a, k) \in Nat /\ RelockedAmount(a, k) > 0
               /\ RelockedAmount(a, k) + (IF k = Len(lockedOutputs[a]) THEN LockedChange(a) ELSE 0)
                      = utxos[lockedOutputs[a][k]].amount
    <2> DEFINE amt == utxos[lockedOutputs[a][k]].amount
    <2>1. amt \in Nat /\ amt > 0
      BY <1>1, LockedOutputFacts, UtxoFacts DEF Inv
    <2>2. k = Len(lockedOutputs[a]) => LockedChange(a) < amt
      <3>1. CASE amounts[a].stakeableLockChange
        BY <3>1, <1>1, <1>2, <2>1 DEF LockedChange, Inv, Selecting, LocksKnown, LocksOf
      <3>2. CASE ~amounts[a].stakeableLockChange
        BY <3>2, <2>1 DEF LockedChange
      <3>3. QED
        BY <3>1, <3>2
    <2>3. RelockedAmount(a, k) = amt - (IF k = Len(lockedOutputs[a]) THEN LockedChange(a) ELSE 0)
      BY DEF RelockedAmount
    <2> HIDE DEF amt
    <2>4. /\ RelockedAmount(a, k) \in Nat /\ RelockedAmount(a, k) > 0
          /\ RelockedAmount(a, k) + (IF k = Len(lockedOutputs[a]) THEN LockedChange(a) ELSE 0) = amt
      <3>1. CASE k = Len(lockedOutputs[a])
        BY <3>1, <1>3, <2>1, <2>2, <2>3
      <3>2. CASE k # Len(lockedOutputs[a])
        BY <3>2, <1>3, <2>1, <2>3
      <3>3. QED
        BY <3>1, <3>2
    <2>5. QED
      BY <2>4 DEF amt
  <1>5. QED
    BY <1>3, <1>4

LEMMA RelockInv ==
    ASSUME Inv, RelockOutput
    PROVE  Inv'
  <1>k. PICK k : k = index + 1
    OBVIOUS
  <1>i. PICK i : i = lockedOutputs[asset][k]
    OBVIOUS
  <1> DEFINE giving == k = Len(lockedOutputs[asset]) /\ LockedChange(asset) > 0
  <1>1. /\ UNCHANGED <<input, amounts, lockedOutputs, inputs, remaining>>
        /\ UNCHANGED <<phase, asset, pending, change, sent>>
        /\ phase = "building" /\ asset # NoAsset /\ index < Len(lockedOutputs[asset])
        /\ relocked' = [relocked EXCEPT ![i] = RelockedAmount(asset, k)]
        /\ relockedChange' = IF giving THEN [relockedChange EXCEPT ![i] = LockedChange(asset)]
                             ELSE relockedChange
        /\ index' = k
    BY <1>k, <1>i DEF RelockOutput, selection
  <1>2. UNCHANGED <<utxos, lockMode>> /\ Wanted' = Wanted /\ index \in Nat
    BY <1>1 DEF input, Wanted, Inv, TypeOK
  <1>3. asset \in Wanted /\ asset \notin pending /\ asset \in Asset
    BY <1>1 DEF Inv, PhasesFit, TypeOK
  <1>4. /\ \A b \in Asset : /\ Len(lockedOutputs[b]) \in Nat
                            /\ \A j \in 1..Len(lockedOutputs[b]) : lockedOutputs[b][j] \in UtxoId
    BY LockedOutputFacts DEF Inv
  <1>5. k \in 1..Len(lockedOutputs[asset]) /\ i \in UtxoId
    BY <1>k, <1>i, <1>1, <1>2, <1>3, <1>4
  <1>6. /\ \A b \in Asset : \A j \in 1..Len(lockedOutputs[b]) : utxos[lockedOutputs[b][j]].asset = b
        /\ \A j \in 1..Len(lockedOutputs[asset]) : lockedOutputs[asset][j] = i => j = k
    BY <1>i, <1>3, <1>5 DEF Inv, Selecting, LocksKnown, LocksOf
  <1>7. /\ LockedChange(asset) \in Nat /\ RelockedAmount(asset, k) \in Nat
    BY <1>3, <1>5, OutputAmounts
  <1>8. relocked \in [UtxoId -> Nat] /\ relockedChange \in [UtxoId -> Nat]
    BY DEF Inv, TypeOK
  <1> HIDE DEF giving
  <1>9. TypeOK'
    <2>1. relocked' \in [UtxoId -> Nat]
      BY <1>1, <1>5, <1>7, <1>8
    <2>2. relockedChange' \in [UtxoId -> Nat]
      BY <1>1, <1>5, <1>7, <1>8
    <2>3. index' \in Nat
      BY <1>k, <1>1, <1>2
    <2>4. QED
      BY <1>1, <1>2, <2>1, <2>2, <2>3 DEF Inv, TypeOK
  <1>10. Selecting'
    BY <1>1, SameSelection
  <1>11. PhasesFit'
    BY <1>1, <1>2, <1>3, <1>4, <1>5 DEF Inv, PhasesFit
  <1>12. UnlockedProduced'
    BY <1>1, <1>2 DEF Inv, UnlockedProduced, UnlockedAmount, UnlockedChange, Built
  <1>13. LockedProduced'
    <2>1. \A j \in UtxoId : j # i => relocked'[j] = relocked[j] /\ relockedChange'[j] = relockedChange[j]
      BY <1>1, <1>8
    <2>2. \A b, j : RelockedAmount(b, j)' = RelockedAmount(b, j) /\ LockedChange(b)' = LockedChange(b)
      BY <1>1, <1>2 DEF RelockedAmount, LockedChange
    <2>3. ASSUME NEW b \in Asset, NEW j \in 1..Len(lockedOutputs[b]), ~(b = asset /\ j = k)
          PROVE  /\ RelockedAt(b, j)' <=> RelockedAt(b, j)
                 /\ NothingAt(lockedOutputs[b][j])' <=> NothingAt(lockedOutputs[b][j])
      <3>1. lockedOutputs[b][j] # i
        BY <2>3, <1>i, <1>3, <1>5, <1>6
      <3>2. lockedOutputs[b][j] \in UtxoId
        BY <1>4
      <3>3. QED
        BY <1>1, <2>1, <2>2, <3>1, <3>2 DEF RelockedAt, NothingAt
    <2>4. NothingAt(i)
      <3>1. ~Built(asset) /\ ~(k <= index)
        BY <1>k, <1>2 DEF Built
      <3>2. QED
        BY <3>1, <1>i, <1>3, <1>5 DEF Inv, LockedProduced
    <2>5. RelockedAt(asset, k)'
      <3>1. relocked'[i] = RelockedAmount(asset, k)
        BY <1>1, <1>5, <1>8
      <3>2. CASE giving
        <4>1. relockedChange'[i] = LockedChange(asset) /\ k = Len(lockedOutputs[asset])
          BY <3>2, <1>1, <1>5, <1>8 DEF giving
        <4>2. QED
          BY <3>1, <4>1, <1>1, <1>i, <2>2 DEF RelockedAt
      <3>3. CASE ~giving
        <4>1. relockedChange'[i] = 0
          BY <3>3, <1>1, <2>4 DEF NothingAt
        <4>2. k = Len(lockedOutputs[asset]) => LockedChange(asset) = 0
          BY <3>3, <1>7 DEF giving
        <4>3. QED
          BY <3>1, <4>1, <4>2, <1>1, <1>i, <2>2 DEF RelockedAt
      <3>4. QED
        BY <3>2, <3>3
    <2>6. ASSUME NEW b \in Asset, NEW j \in 1..Len(lockedOutputs[b])
          PROVE  IF Built(b)' \/ (b = asset' /\ j <= index')
                 THEN RelockedAt(b, j)' ELSE NothingAt(lockedOutputs[b][j])'
      <3>1. CASE b = asset /\ j = k
        <4>1. j <= index'
          BY <3>1, <1>k, <1>1, <1>2
        <4>2. QED
          BY <3>1, <4>1, <1>1, <2>5
      <3>2. CASE ~(b = asset /\ j = k)
        <4>1. Built(b)' <=> Built(b)
          BY <1>1 DEF Built
        <4>2. (b = asset' /\ j <= index') <=> (b = asset /\ j <= index)
          BY <3>2, <1>k, <1>1, <1>2, <1>4
        <4>3. QED
          BY <3>2, <4>1, <4>2, <2>3 DEF Inv, LockedProduced
      <3>3. QED
        BY <3>1, <3>2
    <2>7. ASSUME NEW j \in UtxoId, ~IsLockedOutput(j)'
          PROVE  NothingAt(j)'
      <3>1. ~IsLockedOutput(j)
        BY <2>7, <1>1, <1>2 DEF IsLockedOutput
      <3>2. j # i
        BY <3>1, <1>i, <1>3, <1>5, <1>6 DEF IsLockedOutput
      <3>3. NothingAt(j)
        BY <3>1 DEF Inv, LockedProduced
      <3>4. QED
        BY <3>2, <3>3, <2>1 DEF NothingAt
    <2>8. QED
      BY <2>6, <2>7, <1>1 DEF LockedProduced
  <1>14. QED
    BY <1>9, <1>10, <1>11, <1>12, <1>13 DEF Inv

LEMMA UnlockedInv ==
    ASSUME Inv, UnlockedOutputs
    PROVE  Inv'
  <1>a. PICK a : a = asset
    OBVIOUS
  <1>1. /\ UNCHANGED <<input, amounts, lockedOutputs, inputs, remaining>>
        /\ UNCHANGED <<phase, pending, index, relocked, relockedChange>>
        /\ phase = "building" /\ a # NoAsset /\ asset' = NoAsset
        /\ index = Len(lockedOutputs[a])
        /\ change' = [change EXCEPT ![a] = UnlockedChange(a)]
        /\ sent' = IF UnlockedAmount(a) > 0 THEN [sent EXCEPT ![a] = UnlockedAmount(a)] ELSE sent
    BY <1>a DEF UnlockedOutputs, selection
  <1>2. UNCHANGED <<utxos, lockMode>> /\ Wanted' = Wanted /\ Wanted \subseteq Asset
    BY <1>1 DEF input, Wanted, Inv, TypeOK
  <1>3. a \in Wanted /\ a \notin pending /\ a \in Asset
    BY <1>a, <1>1 DEF Inv, PhasesFit, TypeOK
  <1>4. UnlockedChange(a) \in Nat /\ UnlockedAmount(a) \in Int
    BY <1>3, OutputAmounts
  <1>5. change \in [Asset -> Nat] /\ sent \in [Asset -> Nat]
    BY DEF Inv, TypeOK
  <1>6. change' \in [Asset -> Nat] /\ sent' \in [Asset -> Nat]
    <2>1. UnlockedAmount(a) > 0 => UnlockedAmount(a) \in Nat
      BY <1>4
    <2>2. QED
      BY <2>1, <1>1, <1>3, <1>4, <1>5
  <1>7. TypeOK'
    BY <1>1, <1>2, <1>6 DEF Inv, TypeOK
  <1>8. Selecting'
    BY <1>1, SameSelection
  <1>9. PhasesFit'
    BY <1>1, <1>2 DEF Inv, PhasesFit
  <1>10. ~Built(a) /\ Built(a)' /\ \A b \in Asset : b # a => (Built(b)' <=> Built(b))
    BY <1>a, <1>1, <1>3, NoAssetAssumption DEF Built
  <1>11. UnlockedProduced'
    <2>1. \A b \in Wanted : UnlockedChange(b)' = UnlockedChange(b) /\ UnlockedAmount(b)' = UnlockedAmount(b)
      BY <1>1 DEF UnlockedChange, UnlockedAmount
    <2>2. sent[a] = 0
      BY <1>3, <1>10 DEF Inv, UnlockedProduced
    <2>3. change'[a] = UnlockedChange(a) /\ sent'[a] = IF UnlockedAmount(a) > 0 THEN UnlockedAmount(a) ELSE 0
      BY <1>1, <1>3, <1>5, <2>2
    <2>4. \A b \in Wanted : b # a => change'[b] = change[b] /\ sent'[b] = sent[b]
      BY <1>1, <1>2, <1>5
    <2>5. QED
      BY <1>2, <1>10, <2>1, <2>3, <2>4 DEF Inv, UnlockedProduced
  <1>12. LockedProduced'
    <2>1. \A b, k : /\ RelockedAt(b, k)' <=> RelockedAt(b, k)
                    /\ NothingAt(k)' <=> NothingAt(k)
      BY <1>1, <1>2 DEF RelockedAt, RelockedAmount, LockedChange, NothingAt
    <2>2. \A j \in UtxoId : IsLockedOutput(j)' <=> IsLockedOutput(j)
      BY <1>1, <1>2 DEF IsLockedOutput
    <2>3. ASSUME NEW b \in Asset, NEW k \in 1..Len(lockedOutputs[b])
          PROVE  IF Built(b)' \/ (b = asset' /\ k <= index')
                 THEN RelockedAt(b, k)' ELSE NothingAt(lockedOutputs[b][k])'
      <3>1. CASE b = a
        <4>1. k <= index
          BY <3>1, <1>1, <1>3, LockedOutputFacts DEF Inv
        <4>2. RelockedAt(b, k)
          BY <3>1, <4>1, <1>a DEF Inv, LockedProduced
        <4>3. QED
          BY <3>1, <4>2, <1>10, <2>1
      <3>2. CASE b # a
        <4>1. b # asset /\ b # asset' /\ (Built(b)' <=> Built(b))
          BY <3>2, <1>a, <1>1, <1>10, NoAssetAssumption
        <4>2. QED
          BY <4>1, <1>1, <2>1 DEF Inv, LockedProduced
      <3>3. QED
        BY <3>1, <3>2
    <2>4. QED
      BY <1>1, <2>1, <2>2, <2>3 DEF Inv, LockedProduced
  <1>13. QED
    BY <1>7, <1>8, <1>9, <1>11, <1>12 DEF Inv

-----------------------------------------------------------------------------
\* A UTXO is spent.

LEMMA LockedConsumedGrows ==
    ASSUME inputs \in Seq([utxo : UtxoId, locked : BOOLEAN]),
           NEW i \in UtxoId, NEW locked \in BOOLEAN,
           inputs' = Append(inputs, [utxo |-> i, locked |-> locked])
    PROVE  /\ inputs' \in Seq([utxo : UtxoId, locked : BOOLEAN])
           /\ LockedConsumed' = LockedConsumed \cup (IF locked THEN {i} ELSE {})
  <1> DEFINE r == [utxo |-> i, locked |-> locked]
  <1>1. r \in [utxo : UtxoId, locked : BOOLEAN]
    OBVIOUS
  <1>2. /\ inputs' \in Seq([utxo : UtxoId, locked : BOOLEAN])
        /\ Len(inputs) \in Nat /\ Len(inputs') = Len(inputs) + 1
        /\ inputs'[Len(inputs) + 1] = r
        /\ \A n \in 1..Len(inputs) : inputs'[n] = inputs[n]
    BY <1>1, AppendProperties, LenProperties
  <1>3. /\ 1..Len(inputs') = 1..Len(inputs) \cup {Len(inputs) + 1}
        /\ Len(inputs) + 1 \notin 1..Len(inputs)
    BY <1>2
  <1>4. r.utxo = i /\ r.locked = locked
    OBVIOUS
  <1> HIDE DEF r
  <1>5. ASSUME NEW u PROVE u \in LockedConsumed' <=> u \in LockedConsumed \/ (locked /\ u = i)
    BY <1>2, <1>3, <1>4 DEF LockedConsumed
  <1>6. QED
    BY <1>2, <1>5

LEMMA SpendInv ==
    ASSUME Inv, NEW i \in UtxoId, SpendUtxo(i)
    PROVE  Inv'
  <1>a. PICK a : a = utxos[i].asset
    OBVIOUS
  <1>l. PICK lk \in BOOLEAN : lk = Locked(i)
    BY UtxoFacts DEF Inv
  <1>n. PICK na : na = SpendAmount(amounts[a], utxos[i].amount, lk)
    OBVIOUS
  <1>1. /\ phase = "selecting" /\ i \in remaining
        /\ a \in Wanted /\ ~amounts[a].finished
        /\ amounts' = [amounts EXCEPT ![a] = na]
        /\ lockedOutputs' = IF lk THEN [lockedOutputs EXCEPT ![a] = Append(@, i)] ELSE lockedOutputs
        /\ inputs' = Append(inputs, [utxo |-> i, locked |-> lk])
        /\ remaining' = remaining \ {i}
        /\ UNCHANGED <<utxos, lockMode, phase, asset, pending, index>>
        /\ UNCHANGED <<relocked, relockedChange, change, sent>>
    BY <1>a, <1>l, <1>n DEF SpendUtxo, IsNext, MaySpend, Spendable, input, cursor, produced
  <1>2. /\ amounts \in [Wanted -> AssetAmounts] /\ Wanted \subseteq Asset /\ a \in Asset
        /\ lockedOutputs \in [Asset -> Seq(UtxoId)] /\ asset = NoAsset
    BY <1>1 DEF Inv, TypeOK, PhasesFit
  <1>3. /\ na \in AssetAmounts /\ Accounted(na)
        /\ na.stakeableLockChange => lk /\ utxos[i].amount > na.change
        /\ ~lk => na.stakeableLockSpent = amounts[a].stakeableLockSpent
    <2>1. amounts[a] \in AssetAmounts /\ Accounted(amounts[a])
      BY <1>1, <1>2 DEF Inv, Selecting, AllAccounted
    <2>2. utxos[i].amount \in Nat /\ utxos[i].amount > 0
      BY UtxoFacts DEF Inv
    <2>3. QED
      BY <1>1, <1>n, <2>1, <2>2, SpendAccounted
  <1>4. /\ Wanted' = Wanted /\ amounts' \in [Wanted -> AssetAmounts] /\ amounts'[a] = na
        /\ \A b \in Wanted : b # a => amounts'[b] = amounts[b]
    BY <1>1, <1>2, <1>3 DEF Wanted
  <1>5. /\ \A b \in Asset : b # a \/ ~lk => lockedOutputs'[b] = lockedOutputs[b]
        /\ lk => lockedOutputs'[a] = Append(lockedOutputs[a], i)
        /\ lockedOutputs' \in [Asset -> Seq(UtxoId)]
    <2>1. Append(lockedOutputs[a], i) \in Seq(UtxoId)
      BY <1>2, AppendProperties
    <2>2. QED
      BY <1>1, <1>2, <2>1
  <1>6. /\ Len(lockedOutputs[a]) \in Nat
        /\ lk => /\ Len(lockedOutputs'[a]) = Len(lockedOutputs[a]) + 1
                 /\ lockedOutputs'[a][Len(lockedOutputs[a]) + 1] = i
                 /\ \A k \in 1..Len(lockedOutputs[a]) : lockedOutputs'[a][k] = lockedOutputs[a][k]
    BY <1>2, <1>5, AppendProperties, LenProperties
  <1>7. lockMode = "Unlocked" => ~lk
    <2>1. lockMode = "Unlocked" /\ utxos[i].kind = "stakeable" => utxos[i].stakeableLocktime < AsOf
      BY <1>1 DEF Inv, Selecting, NothingLockedInPlain, Consumable
    <2>2. utxos[i].stakeableLocktime \in Nat
      BY UtxoFacts DEF Inv
    <2>3. lk => utxos[i].kind = "stakeable" /\ utxos[i].stakeableLocktime > AsOf
      BY <1>l DEF Locked
    <2>4. ~(utxos[i].stakeableLocktime > AsOf /\ utxos[i].stakeableLocktime < AsOf)
      BY <2>2, AsOfAssumption
    <2>5. QED
      BY <2>1, <2>3, <2>4
  <1>8. /\ inputs' \in Seq([utxo : UtxoId, locked : BOOLEAN])
        /\ LockedConsumed' = LockedConsumed \cup (IF lk THEN {i} ELSE {})
    BY <1>1, LockedConsumedGrows DEF Inv, TypeOK
  <1>9. TypeOK'
    BY <1>1, <1>2, <1>4, <1>5, <1>8 DEF Inv, TypeOK
  <1>10. AllAccounted'
    BY <1>3, <1>4 DEF Inv, Selecting, AllAccounted
  <1>11. \A b \in Asset : \A k \in 1..Len(lockedOutputs[b]) : lockedOutputs[b][k] # i
    BY <1>1 DEF Inv, Selecting, LocksKnown, LocksOf
  <1>12. LocksKnown'
    <2> SUFFICES ASSUME NEW b \in Asset PROVE LocksOf(b)'
      BY DEF LocksKnown
    <2>1. LocksOf(b)
      BY DEF Inv, Selecting, LocksKnown
    <2>2. CASE b # a
      <3>1. lockedOutputs'[b] = lockedOutputs[b] /\ (b \in Wanted => amounts'[b] = amounts[b])
        BY <2>2, <1>4, <1>5
      <3>2. QED
        BY <2>1, <3>1, <1>1, <1>4 DEF LocksOf
    <2>3. CASE b = a /\ ~lk
      <3>1. lockedOutputs'[b] = lockedOutputs[b] /\ ~amounts'[b].stakeableLockChange
        BY <2>3, <1>3, <1>4, <1>5
      <3>2. QED
        BY <2>1, <3>1, <1>1, <1>4 DEF LocksOf
    <2>4. CASE b = a /\ lk
      <3> DEFINE n == Len(lockedOutputs[a])
      <3>1. /\ n \in Nat /\ Len(lockedOutputs'[a]) = n + 1 /\ lockedOutputs'[a][n + 1] = i
            /\ \A k \in 1..n : lockedOutputs'[a][k] = lockedOutputs[a][k]
        BY <2>4, <1>6
      <3>2. \A k \in 1..n + 1 : k \in 1..n \/ k = n + 1
        BY <3>1
      <3> HIDE DEF n
      <3>3. \A k \in 1..n + 1 : utxos'[lockedOutputs'[a][k]].asset = a /\ lockedOutputs'[a][k] \notin remaining'
        BY <1>1, <1>a, <2>1, <2>4, <3>1, <3>2 DEF LocksOf, n
      <3>4. \A j, k \in 1..n + 1 : lockedOutputs'[a][j] = lockedOutputs'[a][k] => j = k
        BY <1>2, <1>11, <2>1, <2>4, <3>1, <3>2 DEF LocksOf, n
      <3>5. n + 1 > 0 /\ (amounts'[a].stakeableLockChange =>
                utxos'[lockedOutputs'[a][n + 1]].amount > amounts'[a].change)
        BY <1>1, <1>3, <1>4, <3>1
      <3>6. QED
        BY <1>1, <1>4, <2>4, <3>1, <3>3, <3>4, <3>5 DEF LocksOf
    <2>5. QED
      BY <2>2, <2>3, <2>4
  <1>13. InputsMatch'
    <2> SUFFICES ASSUME NEW j \in UtxoId PROVE j \in LockedConsumed' <=> IsLockedOutput(j)'
      BY DEF InputsMatch
    <2>1. j \in LockedConsumed <=> IsLockedOutput(j)
      BY DEF Inv, Selecting, InputsMatch
    <2>2. utxos[j].asset \in Asset /\ utxos' = utxos
      BY <1>1, UtxoFacts DEF Inv
    <2>3. CASE utxos[j].asset # a \/ ~lk
      <3>1. IsLockedOutput(j)' <=> IsLockedOutput(j)
        BY <2>2, <2>3, <1>5 DEF IsLockedOutput
      <3>2. j # i \/ ~lk
        BY <2>3, <1>a
      <3>3. QED
        BY <2>1, <3>1, <3>2, <1>8
    <2>4. CASE utxos[j].asset = a /\ lk
      <3>1. 1..Len(lockedOutputs'[a]) = 1..Len(lockedOutputs[a]) \cup {Len(lockedOutputs[a]) + 1}
        BY <2>4, <1>6
      <3>2. IsLockedOutput(j)' <=> IsLockedOutput(j) \/ j = i
        BY <2>2, <2>4, <3>1, <1>6 DEF IsLockedOutput
      <3>3. QED
        BY <2>1, <2>4, <3>2, <1>8
    <2>5. QED
      BY <2>3, <2>4
  <1>14. NothingLockedInPlain'
    <2>1. \A j \in remaining' : Consumable(utxos[j], lockMode)'
      BY <1>1 DEF Inv, Selecting, NothingLockedInPlain, Consumable
    <2>2. lockMode = "Unlocked" => na.stakeableLockSpent = 0 /\ ~na.stakeableLockChange
      BY <1>1, <1>3, <1>7 DEF Inv, Selecting, NothingLockedInPlain
    <2>3. QED
      BY <1>1, <1>4, <2>1, <2>2 DEF Inv, Selecting, NothingLockedInPlain, Consumable
  <1>15. PhasesFit'
    BY <1>1, <1>2 DEF PhasesFit
  <1>16. UnlockedProduced'
    BY <1>1, <1>4 DEF Inv, UnlockedProduced, Built
  <1>17. LockedProduced'
    <2>1. \A j \in UtxoId : NothingAt(j)'
      BY <1>1 DEF Inv, LockedProduced, NothingAt
    <2>2. \A b \in Asset : ~Built(b)' /\ b # asset'
      BY <1>1, <1>2, NoAssetAssumption DEF Built
    <2>3. \A b \in Asset : \A k \in 1..Len(lockedOutputs'[b]) : lockedOutputs'[b][k] \in UtxoId
      BY <1>5, ElementOfSeq
    <2>4. QED
      BY <2>1, <2>2, <2>3 DEF LockedProduced
  <1>18. QED
    BY <1>9, <1>10, <1>12, <1>13, <1>14, <1>15, <1>16, <1>17 DEF Inv, Selecting

-----------------------------------------------------------------------------
\* The invariant holds of the specification.

LEMMA NextInv == Inv /\ [Next]_vars => Inv'
  <1> SUFFICES ASSUME Inv, [Next]_vars PROVE Inv'
    OBVIOUS
  <1>1. CASE UNCHANGED vars
    BY <1>1, StutterInv
  <1>2. ASSUME NEW i \in UtxoId, SkipUtxo(i) PROVE Inv'
    BY <1>2, SkipInv
  <1>3. ASSUME NEW i \in UtxoId, SpendUtxo(i) PROVE Inv'
    BY <1>3, SpendInv
  <1>4. CASE Insufficient \/ Selected
    BY <1>4, EndOfSelectionInv
  <1>5. ASSUME NEW a \in Asset, NextAsset(a) PROVE Inv'
    BY <1>5, NextAssetInv
  <1>6. CASE RelockOutput
    BY <1>6, RelockInv
  <1>7. CASE UnlockedOutputs
    BY <1>7, UnlockedInv
  <1>8. CASE Return
    BY <1>8, ReturnInv
  <1>9. QED
    BY <1>1, <1>2, <1>3, <1>4, <1>5, <1>6, <1>7, <1>8 DEF Next

LEMMA AlwaysInv == Spec => []Inv
  BY InitInv, NextInv, PTL DEF Spec

\* What is left when the call has returned, asset by asset.
LEMMA Returned ==
    ASSUME Inv, phase = "done", NEW a \in Wanted
    PROVE  /\ a \in Asset /\ amounts[a] \in AssetAmounts
           /\ amounts[a].finished /\ Accounted(amounts[a])
           /\ change[a] = UnlockedChange(a)
           /\ sent[a] = IF UnlockedAmount(a) > 0 THEN UnlockedAmount(a) ELSE 0
           /\ UnlockedChange(a) \in Nat /\ UnlockedAmount(a) \in Int
           /\ Built(a)
  <1>1. a \in Asset /\ amounts[a] \in AssetAmounts
    BY AmountFacts DEF Inv
  <1>2. amounts[a].finished /\ Accounted(amounts[a])
    BY DEF Inv, PhasesFit, Selecting, AllAccounted
  <1>3. Built(a)
    BY <1>1, NoAssetAssumption DEF Inv, PhasesFit, Built
  <1>4. QED
    BY <1>1, <1>2, <1>3, OutputAmounts DEF Inv, UnlockedProduced

\* Every variable keeps its shape: no output ever has a negative amount.
THEOREM SpendTypeCorrect == Spec => []TypeOK
  <1>1. Inv => TypeOK
    BY DEF Inv
  <1>2. QED
    BY <1>1, AlwaysInv, PTL

\* Each UTXO under a lock is among the locked outputs, which are put back.
LEMMA InvRelocks == Inv => LockedTokensRelocked
  <1> SUFFICES ASSUME Inv, phase = "done", NEW i \in UtxoId
               PROVE  IF i \in LockedConsumed
                      THEN relocked[i] + relockedChange[i] = utxos[i].amount /\ relocked[i] > 0
                      ELSE relocked[i] = 0 /\ relockedChange[i] = 0
    BY DEF LockedTokensRelocked
  <1>1. i \in LockedConsumed <=> IsLockedOutput(i)
    BY DEF Inv, Selecting, InputsMatch
  <1>2. CASE ~IsLockedOutput(i)
    BY <1>1, <1>2 DEF Inv, LockedProduced, NothingAt
  <1>3. CASE IsLockedOutput(i)
    <2>1. PICK a \in Asset : a = utxos[i].asset
      BY UtxoFacts DEF Inv
    <2>2. PICK k \in 1..Len(lockedOutputs[a]) : lockedOutputs[a][k] = i
      BY <1>3, <2>1 DEF IsLockedOutput
    <2>3. a \in Wanted
      BY <2>1, <2>2, LockedOutputFacts DEF Inv, Selecting, LocksKnown, LocksOf
    <2>4. RelockedAt(a, k)
      BY <2>2, <2>3, Returned DEF Inv, LockedProduced
    <2>5. /\ RelockedAmount(a, k) > 0
          /\ RelockedAmount(a, k) + (IF k = Len(lockedOutputs[a]) THEN LockedChange(a) ELSE 0)
                 = utxos[i].amount
      BY <2>2, <2>3, OutputAmounts
    <2>6. QED
      BY <1>1, <1>3, <2>2, <2>4, <2>5 DEF RelockedAt
  <1>4. QED
    BY <1>2, <1>3

\* getMinimumSpendable puts all tokens it consumes under a lock back under that
\* lock, each in an output that is not empty, whatever the UTXOs and the request.
THEOREM LockedAlwaysRelocked == Spec => []LockedTokensRelocked
  BY InvRelocks, AlwaysInv, PTL

\* A call in Unlocked mode burns exactly the burn asked for and sends exactly the
\* amount.
THEOREM PlainCallBurnsExactly == Spec => []BurnsExactly
  <1>1. Inv => BurnsExactly
    <2> SUFFICES ASSUME Inv, phase = "done", lockMode = "Unlocked", NEW a \in Wanted
                 PROVE  Burned(a) = amounts[a].burn /\ sent[a] = amounts[a].amount
      BY DEF BurnsExactly
    <2> DEFINE aa == amounts[a]
    <2>1. /\ aa.amount \in Nat /\ aa.burn \in Nat /\ aa.spent \in Nat /\ aa.change \in Nat
          /\ aa.spent = aa.amount + aa.burn + aa.change
      BY Returned, AmountFields DEF Accounted, Requested
    <2>2. aa.stakeableLockSpent = 0 /\ ~aa.stakeableLockChange
      BY DEF Inv, Selecting, NothingLockedInPlain
    <2>3. UnlockedChange(a) = aa.change /\ UnlockedAmount(a) = aa.spent - aa.stakeableLockSpent - aa.burn - aa.change
      BY <2>2 DEF UnlockedChange, UnlockedAmount
    <2>4. change[a] = UnlockedChange(a) /\ sent[a] = IF UnlockedAmount(a) > 0 THEN UnlockedAmount(a) ELSE 0
      BY Returned
    <2>5. Burned(a) = aa.spent - aa.stakeableLockSpent - change[a] - sent[a]
      BY DEF Burned
    <2> HIDE DEF aa
    <2>6. UnlockedAmount(a) = aa.amount
      BY <2>1, <2>2, <2>3
    <2>7. sent[a] = aa.amount
      BY <2>1, <2>4, <2>6
    <2>8. Burned(a) = aa.burn
      BY <2>1, <2>2, <2>3, <2>4, <2>5, <2>7
    <2>9. QED
      BY <2>7, <2>8 DEF aa
  <1>2. QED
    BY <1>1, AlwaysInv, PTL

-----------------------------------------------------------------------------
\* The selection, and what it promises.
\* The k-th input: a UTXO the senders may spend, visited, consumed once, and when
\* its asset was still short; it is marked as locked if it is under a lock.
PickedWell(k) ==
    LET i == inputs[k].utxo
    IN /\ i \notin remaining
       /\ Spendable(i)
       /\ Consumable(utxos[i], lockMode)
       /\ inputs[k].locked = Locked(i)
       /\ \A n \in 1..(k - 1) : inputs[n].utxo # i
       /\ SpentEarlier(k, utxos[i].asset) < Requested(amounts[utxos[i].asset])

AllPickedWell == \A k \in 1..Len(inputs) : PickedWell(k)

\* A UTXO that could have been consumed is passed over only if its asset is
\* covered.
PassedOver ==
    \A i \in UtxoId \ (remaining \cup Consumed) :
        Consumable(utxos[i], lockMode) /\ Spendable(i) => amounts[utxos[i].asset].finished

\* The accumulators hold what the inputs add up to.
Counted ==
    \A a \in Wanted :
        /\ amounts[a].spent = TotalOf(Consumed, a)
        /\ amounts[a].stakeableLockSpent = TotalOf(LockedConsumed, a)

\* LongestLockFirst, already while UTXOs are selected.
LongestSoFar ==
    lockMode = "Stake" =>
        \A i \in Consumed : \A j \in UtxoId \ Consumed :
            /\ utxos[i].asset = utxos[j].asset
            /\ Spendable(j)
            /\ utxos[j].kind = "stakeable"
            => utxos[i].kind = "stakeable" /\ utxos[i].stakeableLocktime >= utxos[j].stakeableLocktime

\* A refusal comes after all UTXOs, and an asset that was not asked for has no
\* outputs.
EndsWell ==
    /\ phase = "insufficient" => remaining = {} /\ ~CanComplete(amounts)
    /\ \A a \in Asset \ Wanted : change[a] = 0 /\ sent[a] = 0

Selection == AllPickedWell /\ PassedOver /\ Counted /\ LongestSoFar /\ EndsWell

PInv == Inv /\ Selection

-----------------------------------------------------------------------------
\* TotalOf, with the UTXOs as a parameter.

Tally(us, S, a) ==
    SumFunctionOnSet([i \in UtxoId |-> us[i].amount], {i \in S : us[i].asset = a})

LEMMA TotalIsTally ==
    ASSUME NEW S, NEW a
    PROVE  TotalOf(S, a) = Tally(utxos, S, a)
  BY DEF TotalOf, Tally, AssetIds, AmountOf

LEMMA TallyNat ==
    ASSUME NEW us \in [UtxoId -> Utxo], NEW S \in SUBSET UtxoId, NEW a
    PROVE  Tally(us, S, a) \in Nat
  <1> DEFINE T == {i \in S : us[i].asset = a}
             f == [i \in UtxoId |-> us[i].amount]
  <1>1. IsFiniteSet(T)
    BY FS_Subset, UtxoIdAssumption
  <1>2. \A i \in T : f[i] \in Nat
    BY DEF Utxo
  <1> HIDE DEF T, f
  <1>3. SumFunctionOnSet(f, T) \in Nat
    BY <1>1, <1>2, SumNat
  <1>4. QED
    BY <1>3 DEF Tally, T, f

LEMMA TallyEmpty ==
    ASSUME NEW us, NEW S, NEW a, \A i \in S : us[i].asset # a
    PROVE  Tally(us, S, a) = 0
  <1>1. {i \in S : us[i].asset = a} = {}
    OBVIOUS
  <1>2. Tally(us, S, a) = SumFunctionOnSet([i \in UtxoId |-> us[i].amount], {})
    BY <1>1, Zenon DEF Tally
  <1>3. QED
    BY <1>2, SumEmpty

LEMMA TallyAdd ==
    ASSUME NEW us \in [UtxoId -> Utxo], NEW S \in SUBSET UtxoId, NEW i \in UtxoId \ S, NEW a
    PROVE  Tally(us, S \cup {i}, a) =
               Tally(us, S, a) + (IF us[i].asset = a THEN us[i].amount ELSE 0)
  <1> DEFINE f == [j \in UtxoId |-> us[j].amount]
             T == {j \in S : us[j].asset = a}
             U == {j \in S \cup {i} : us[j].asset = a}
  <1>1. Tally(us, S, a) = SumFunctionOnSet(f, T) /\ Tally(us, S \cup {i}, a) = SumFunctionOnSet(f, U)
    BY DEF Tally
  <1>2. Tally(us, S, a) \in Nat
    BY TallyNat
  <1>3. CASE us[i].asset = a
    <2>1. U = T \cup {i} /\ i \notin T
      BY <1>3
    <2>2. IsFiniteSet(T) /\ \A j \in T \cup {i} : f[j] \in Int
      <3>1. \A j \in UtxoId : f[j] \in Int
        BY DEF Utxo
      <3>2. T \cup {i} \subseteq UtxoId
        OBVIOUS
      <3>3. IsFiniteSet(T)
        BY <3>2, FS_Subset, UtxoIdAssumption
      <3> HIDE DEF f, T
      <3>4. QED
        BY <3>1, <3>2, <3>3
    <2>3. f[i] = us[i].amount /\ us[i].amount \in Int
      BY DEF Utxo
    <2>4. IsFiniteSet(T) /\ i \notin T
      BY <2>1, <2>2
    <2> HIDE DEF f, T, U
    <2>5. SumFunctionOnSet(f, T \cup {i}) = f[i] + SumFunctionOnSet(f, T)
      BY <2>2, <2>4, SumAdd
    <2>6. SumFunctionOnSet(f, U) = SumFunctionOnSet(f, T \cup {i})
      BY <2>1, Zenon
    <2>7. QED
      BY <1>1, <1>2, <1>3, <2>3, <2>5, <2>6
  <1>4. CASE us[i].asset # a
    <2>1. U = T
      BY <1>4
    <2> HIDE DEF f, T, U
    <2>2. SumFunctionOnSet(f, U) = SumFunctionOnSet(f, T)
      BY <2>1, Zenon
    <2>3. QED
      BY <1>1, <1>2, <1>4, <2>2
  <1>5. QED
    BY <1>3, <1>4

LEMMA TallyPart ==
    ASSUME NEW us \in [UtxoId -> Utxo], NEW T \in SUBSET UtxoId, NEW S, NEW a,
           \A i \in S : us[i].asset = a => i \in T
    PROVE  Tally(us, S, a) <= Tally(us, T, a)
  <1> DEFINE f == [j \in UtxoId |-> us[j].amount]
             P == {j \in S : us[j].asset = a}
             W == {j \in T : us[j].asset = a}
  <1>1. IsFiniteSet(W) /\ P \in SUBSET W /\ \A j \in W : f[j] \in Nat
    BY FS_Subset, UtxoIdAssumption DEF Utxo
  <1> HIDE DEF f, P, W
  <1>2. SumFunctionOnSet(f, P) <= SumFunctionOnSet(f, W)
    BY <1>1, SumPart
  <1>3. QED
    BY <1>2 DEF Tally, f, P, W

-----------------------------------------------------------------------------
\* The inputs.

LEMMA InputFacts ==
    ASSUME TypeOK
    PROVE  /\ Len(inputs) \in Nat
           /\ \A k \in 1..Len(inputs) : inputs[k].utxo \in UtxoId /\ inputs[k].locked \in BOOLEAN
           /\ Consumed \subseteq UtxoId /\ LockedConsumed \subseteq Consumed
  <1>1. inputs \in Seq([utxo : UtxoId, locked : BOOLEAN])
    BY DEF TypeOK
  <1>2. Len(inputs) \in Nat /\ \A k \in 1..Len(inputs) : inputs[k] \in [utxo : UtxoId, locked : BOOLEAN]
    BY <1>1, LenProperties, ElementOfSeq
  <1>3. QED
    BY <1>2 DEF Consumed, LockedConsumed

LEMMA InputAdded ==
    ASSUME TypeOK, NEW i \in UtxoId, NEW lk \in BOOLEAN,
           inputs' = Append(inputs, [utxo |-> i, locked |-> lk])
    PROVE  /\ Len(inputs') = Len(inputs) + 1
           /\ inputs'[Len(inputs) + 1].utxo = i /\ inputs'[Len(inputs) + 1].locked = lk
           /\ \A k \in 1..Len(inputs) : inputs'[k] = inputs[k]
           /\ Consumed' = Consumed \cup {i}
           /\ LockedConsumed' = LockedConsumed \cup (IF lk THEN {i} ELSE {})
  <1> DEFINE r == [utxo |-> i, locked |-> lk]
  <1>1. r \in [utxo : UtxoId, locked : BOOLEAN] /\ r.utxo = i /\ r.locked = lk
    OBVIOUS
  <1>2. inputs \in Seq([utxo : UtxoId, locked : BOOLEAN])
    BY DEF TypeOK
  <1>3. /\ Len(inputs) \in Nat /\ Len(inputs') = Len(inputs) + 1
        /\ inputs'[Len(inputs) + 1] = r
        /\ \A k \in 1..Len(inputs) : inputs'[k] = inputs[k]
    BY <1>1, <1>2, AppendProperties, LenProperties
  <1>4. 1..Len(inputs') = 1..Len(inputs) \cup {Len(inputs) + 1}
    BY <1>3
  <1>5. LockedConsumed' = LockedConsumed \cup (IF lk THEN {i} ELSE {})
    BY <1>2, LockedConsumedGrows
  <1> HIDE DEF r
  <1>6. ASSUME NEW u PROVE u \in Consumed' <=> u \in Consumed \/ u = i
    BY <1>1, <1>3, <1>4 DEF Consumed
  <1>7. QED
    BY <1>1, <1>3, <1>5, <1>6

-----------------------------------------------------------------------------
\* The initial states.

LEMMA InitPInv == Init => PInv
  <1> SUFFICES ASSUME Init PROVE PInv
    OBVIOUS
  <1>1. Inv
    BY InitInv
  <1>2. /\ remaining = {i \in UtxoId : Consumable(utxos[i], lockMode)}
        /\ inputs = <<>> /\ phase = "selecting"
        /\ change = [a \in Asset |-> 0] /\ sent = [a \in Asset |-> 0]
    BY DEF Init
  <1>3. Len(inputs) = 0
    BY <1>2, EmptySeq
  <1>4. Consumed = {} /\ LockedConsumed = {}
    BY <1>3 DEF Consumed, LockedConsumed
  <1>5. PICK r \in Requests : amounts = [a \in DOMAIN r |-> NewAssetAmount(r[a].amount, r[a].burn)]
    BY DEF Init
  <1>6. \A a \in Wanted : amounts[a].spent = 0 /\ amounts[a].stakeableLockSpent = 0
    BY <1>5 DEF Wanted, NewAssetAmount
  <1>7. AllPickedWell
    BY <1>3 DEF AllPickedWell
  <1>8. PassedOver
    BY <1>2 DEF PassedOver
  <1>9. Counted
    <2> SUFFICES ASSUME NEW a \in Wanted
                 PROVE  /\ amounts[a].spent = TotalOf(Consumed, a)
                        /\ amounts[a].stakeableLockSpent = TotalOf(LockedConsumed, a)
      BY DEF Counted
    <2>1. TotalOf({}, a) = 0
      BY TotalIsTally, TallyEmpty
    <2>2. TotalOf(Consumed, a) = 0 /\ TotalOf(LockedConsumed, a) = 0
      BY <1>4, <2>1, Zenon
    <2>3. QED
      BY <1>6, <2>2
  <1>10. LongestSoFar
    BY <1>4 DEF LongestSoFar
  <1>11. EndsWell
    BY <1>2 DEF EndsWell
  <1>12. QED
    BY <1>1, <1>7, <1>8, <1>9, <1>10, <1>11 DEF PInv, Selection

-----------------------------------------------------------------------------
\* After the selection neither the accumulators nor the inputs change.

LEMMA SameInputs ==
    ASSUME PInv, UNCHANGED <<input, amounts, inputs>>, remaining' \subseteq remaining,
           \A i \in remaining \ remaining' : Spendable(i) => amounts[utxos[i].asset].finished
    PROVE  AllPickedWell' /\ PassedOver' /\ Counted' /\ LongestSoFar'
  <1>1. UNCHANGED <<utxos, lockMode, amounts, inputs>> /\ Wanted' = Wanted
    BY DEF input, Wanted
  <1>2. Consumed' = Consumed /\ LockedConsumed' = LockedConsumed
    BY <1>1 DEF Consumed, LockedConsumed
  <1>3. \A i : (Spendable(i)' <=> Spendable(i)) /\ Locked(i)' = Locked(i)
    BY <1>1 DEF Spendable, Locked
  <1>4. \A i : Consumable(utxos[i], lockMode)' <=> Consumable(utxos[i], lockMode)
    BY <1>1 DEF Consumable
  <1>5. AllPickedWell'
    <2> SUFFICES ASSUME NEW k \in 1..Len(inputs) PROVE PickedWell(k)'
      BY <1>1 DEF AllPickedWell
    <2>1. PickedWell(k)
      BY DEF PInv, Selection, AllPickedWell
    <2>2. \A a : SpentEarlier(k, a)' = SpentEarlier(k, a)
      BY <1>1 DEF SpentEarlier, TotalOf, AmountOf, AssetIds
    <2>3. QED
      BY <1>1, <1>3, <1>4, <2>1, <2>2 DEF PickedWell, Requested
  <1>6. PassedOver'
    <2> SUFFICES ASSUME NEW i \in UtxoId \ (remaining' \cup Consumed'),
                        Consumable(utxos[i], lockMode), Spendable(i)
                 PROVE  amounts[utxos[i].asset].finished
      BY <1>1, <1>3, <1>4 DEF PassedOver
    <2>1. CASE i \in remaining
      BY <2>1
    <2>2. CASE i \notin remaining
      BY <1>2, <2>2 DEF PInv, Selection, PassedOver
    <2>3. QED
      BY <2>1, <2>2
  <1>7. Counted'
    <2>1. \A a : /\ TotalOf(Consumed, a)' = TotalOf(Consumed, a)
                 /\ TotalOf(LockedConsumed, a)' = TotalOf(LockedConsumed, a)
      BY <1>1, <1>2 DEF TotalOf, AmountOf, AssetIds
    <2>2. QED
      BY <1>1, <2>1 DEF PInv, Selection, Counted
  <1>8. LongestSoFar'
    BY <1>1, <1>2, <1>3 DEF PInv, Selection, LongestSoFar
  <1>9. QED
    BY <1>5, <1>6, <1>7, <1>8

LEMMA SkipPInv ==
    ASSUME PInv, NEW i \in UtxoId, SkipUtxo(i)
    PROVE  PInv'
  <1>1. /\ UNCHANGED <<input, amounts, inputs>> /\ remaining' = remaining \ {i}
        /\ UNCHANGED <<phase, change, sent>> /\ phase = "selecting"
        /\ Spendable(i) => amounts[utxos[i].asset].finished
    BY DEF SkipUtxo, produced
  <1>2. Inv'
    BY SkipInv DEF PInv
  <1>3. AllPickedWell' /\ PassedOver' /\ Counted' /\ LongestSoFar'
    BY <1>1, SameInputs
  <1>4. EndsWell'
    BY <1>1 DEF PInv, Selection, EndsWell, Wanted
  <1>5. QED
    BY <1>2, <1>3, <1>4 DEF PInv, Selection

\* The steps after the selection, and those that do nothing.
LEMMA BuildPInv ==
    ASSUME PInv, Inv', UNCHANGED <<input, amounts, inputs, remaining>>,
           phase' = "insufficient" => remaining = {} /\ ~CanComplete(amounts),
           \A a \in Asset \ Wanted : change'[a] = change[a] /\ sent'[a] = sent[a]
    PROVE  PInv'
  <1>1. AllPickedWell' /\ PassedOver' /\ Counted' /\ LongestSoFar'
    BY SameInputs
  <1>2. EndsWell'
    BY DEF PInv, Selection, EndsWell, Wanted, CanComplete
  <1>3. QED
    BY <1>1, <1>2 DEF PInv, Selection

-----------------------------------------------------------------------------
\* A UTXO is spent.

\* The next UTXO has the longest lock of those not visited.
LEMMA NextHasLongestLock ==
    ASSUME TypeOK, lockMode = "Stake", NEW i \in UtxoId, IsNext(i), Spendable(i),
           NEW j \in remaining, j # i, utxos[j].kind = "stakeable"
    PROVE  utxos[i].kind = "stakeable" /\ utxos[i].stakeableLocktime >= utxos[j].stakeableLocktime
  <1>1. Before(i, j) /\ utxos[i].kind # "owner" /\ j \in UtxoId
    BY DEF IsNext, Spendable, TypeOK
  <1>2. /\ utxos[i].stakeableLocktime \in Nat /\ utxos[j].stakeableLocktime \in Nat
        /\ utxos[i].kind \in {"transfer", "stakeable"}
    BY <1>1, UtxoFacts
  <1>3. ~(lockMode # "Stake" \/ {utxos[i].kind, utxos[j].kind} = {"transfer"})
    OBVIOUS
  <1>4. utxos[i].kind = "stakeable"
    BY <1>1, <1>2, <1>3 DEF Before
  <1>5. LaterLock(utxos[i], utxos[j]) \/ ~LaterLock(utxos[j], utxos[i])
    BY <1>1, <1>3, <1>4 DEF Before
  <1>6. QED
    BY <1>2, <1>4, <1>5 DEF LaterLock

LEMMA SpendPInv ==
    ASSUME PInv, NEW i \in UtxoId, SpendUtxo(i)
    PROVE  PInv'
  <1>a. PICK a : a = utxos[i].asset
    OBVIOUS
  <1>l. PICK lk \in BOOLEAN : lk = Locked(i)
    BY UtxoFacts DEF PInv, Inv
  <1>0. TypeOK /\ Inv'
    BY SpendInv DEF PInv, Inv
  <1>1. /\ phase = "selecting" /\ i \in remaining /\ IsNext(i) /\ Spendable(i)
        /\ a \in Wanted /\ ~amounts[a].finished
        /\ amounts' = [amounts EXCEPT ![a] = SpendAmount(amounts[a], utxos[i].amount, lk)]
        /\ inputs' = Append(inputs, [utxo |-> i, locked |-> lk])
        /\ remaining' = remaining \ {i}
        /\ UNCHANGED <<utxos, lockMode, phase, change, sent>>
    BY <1>a, <1>l DEF SpendUtxo, IsNext, MaySpend, Spendable, input, cursor, produced
  <1>2. /\ amounts \in [Wanted -> AssetAmounts] /\ Wanted \subseteq Asset /\ a \in Asset
        /\ Wanted' = Wanted
        /\ amounts'[a] = SpendAmount(amounts[a], utxos[i].amount, lk)
        /\ \A b \in Wanted : b # a => amounts'[b] = amounts[b]
    BY <1>0, <1>1 DEF TypeOK, Wanted
  <1>3. \A b \in Wanted : Requested(amounts'[b]) = Requested(amounts[b])
    BY <1>2 DEF SpendAmount, SpendTowards, Requested
  <1>4. /\ Len(inputs) \in Nat /\ Len(inputs') = Len(inputs) + 1
        /\ inputs'[Len(inputs) + 1].utxo = i /\ inputs'[Len(inputs) + 1].locked = lk
        /\ \A k \in 1..Len(inputs) : inputs'[k] = inputs[k]
        /\ Consumed' = Consumed \cup {i}
        /\ LockedConsumed' = LockedConsumed \cup (IF lk THEN {i} ELSE {})
        /\ Consumed \subseteq UtxoId /\ LockedConsumed \subseteq Consumed
    BY <1>0, <1>1, InputAdded, InputFacts
  <1>5. \A k \in 1..Len(inputs) : PickedWell(k)
    BY DEF PInv, Selection, AllPickedWell
  <1>6. i \notin Consumed
    BY <1>1, <1>5 DEF Consumed, PickedWell
  <1>7. /\ \A j : (Spendable(j)' <=> Spendable(j)) /\ Locked(j)' = Locked(j)
        /\ \A j : Consumable(utxos[j], lockMode)' <=> Consumable(utxos[j], lockMode)
    BY <1>1, <1>2 DEF Spendable, Locked, Consumable
  <1>8. \A k \in 1..(Len(inputs) + 1) :
            \A b : SpentEarlier(k, b)' = Tally(utxos, {inputs[n].utxo : n \in 1..(k - 1)}, b)
    <2> SUFFICES ASSUME NEW k \in 1..(Len(inputs) + 1), NEW b
                 PROVE  SpentEarlier(k, b)' = Tally(utxos, {inputs[n].utxo : n \in 1..(k - 1)}, b)
      OBVIOUS
    <2>1. SpentEarlier(k, b)' = Tally(utxos, {inputs'[n].utxo : n \in 1..(k - 1)}, b)
      BY <1>1 DEF SpentEarlier, TotalOf, AmountOf, AssetIds, Tally
    <2>2. 1..(k - 1) \subseteq 1..Len(inputs)
      BY <1>4
    <2>3. {inputs'[n].utxo : n \in 1..(k - 1)} = {inputs[n].utxo : n \in 1..(k - 1)}
      BY <1>4, <2>2
    <2>4. QED
      BY <2>1, <2>3, Zenon
  <1>9. AllPickedWell'
    <2> SUFFICES ASSUME NEW k \in 1..(Len(inputs) + 1) PROVE PickedWell(k)'
      BY <1>4 DEF AllPickedWell
    <2>1. CASE k \in 1..Len(inputs)
      <3>1. PickedWell(k)
        BY <1>5, <2>1
      <3>2. inputs'[k] = inputs[k] /\ \A n \in 1..(k - 1) : inputs'[n] = inputs[n]
        BY <1>4, <2>1
      <3>3. \A b : SpentEarlier(k, b)' = SpentEarlier(k, b)
        BY <1>8, TotalIsTally DEF SpentEarlier
      <3>4. QED
        BY <1>1, <1>3, <1>7, <3>1, <3>2, <3>3 DEF PickedWell, Spendable
    <2>2. CASE k = Len(inputs) + 1
      <3>1. inputs'[k].utxo = i /\ inputs'[k].locked = Locked(i)'
        BY <1>4, <1>7, <1>l, <2>2
      <3>2. \A n \in 1..(k - 1) : inputs'[n].utxo # i
        BY <1>4, <1>6, <2>2 DEF Consumed
      <3>3. SpentEarlier(k, a)' < Requested(amounts'[a])
        <4>1. {inputs[n].utxo : n \in 1..(k - 1)} = Consumed
          BY <1>4, <2>2 DEF Consumed
        <4>2. SpentEarlier(k, a)' = Tally(utxos, Consumed, a)
          BY <1>8, <4>1, Zenon
        <4>3. amounts[a].spent = Tally(utxos, Consumed, a)
          BY <1>1, TotalIsTally DEF PInv, Selection, Counted
        <4>4. amounts[a].spent < Requested(amounts[a])
          BY <1>1 DEF PInv, Inv, Selecting, AllAccounted, Accounted
        <4>5. QED
          BY <1>1, <1>3, <4>2, <4>3, <4>4
      <3>4. Consumable(utxos[i], lockMode)
        BY <1>1 DEF PInv, Inv, Selecting, NothingLockedInPlain
      <3>5. QED
        BY <1>1, <1>7, <1>a, <3>1, <3>2, <3>3, <3>4 DEF PickedWell
    <2>3. QED
      BY <1>4, <2>1, <2>2
  <1>10. PassedOver'
    <2> SUFFICES ASSUME NEW j \in UtxoId \ (remaining' \cup Consumed'),
                        Consumable(utxos[j], lockMode), Spendable(j)
                 PROVE  amounts'[utxos[j].asset].finished
      BY <1>1, <1>7 DEF PassedOver
    <2>1. j \notin remaining \cup Consumed
      BY <1>1, <1>4
    <2>2. amounts[utxos[j].asset].finished
      BY <2>1 DEF PInv, Selection, PassedOver
    <2>3. utxos[j].asset \in Wanted /\ utxos[j].asset # a
      BY <1>1, <2>2 DEF Spendable
    <2>4. QED
      BY <1>2, <2>2, <2>3
  <1>11. Counted'
    <2>1. utxos \in [UtxoId -> Utxo] /\ utxos[i].amount \in Nat
      BY <1>0, UtxoFacts DEF TypeOK
    <2>2. ASSUME NEW b
          PROVE  /\ TotalOf(Consumed, b)' = Tally(utxos, Consumed', b)
                 /\ TotalOf(LockedConsumed, b)' = Tally(utxos, LockedConsumed', b)
      BY <1>1 DEF TotalOf, AmountOf, AssetIds, Tally
    <2>3. ASSUME NEW b
          PROVE  /\ Tally(utxos, Consumed', b) =
                        Tally(utxos, Consumed, b) + (IF a = b THEN utxos[i].amount ELSE 0)
                 /\ Tally(utxos, LockedConsumed', b) =
                        IF lk THEN Tally(utxos, LockedConsumed, b) + (IF a = b THEN utxos[i].amount ELSE 0)
                        ELSE Tally(utxos, LockedConsumed, b)
      <3>1. Tally(utxos, Consumed', b) = Tally(utxos, Consumed \cup {i}, b)
        BY <1>4, Zenon
      <3>2. Tally(utxos, Consumed \cup {i}, b) =
                Tally(utxos, Consumed, b) + (IF a = b THEN utxos[i].amount ELSE 0)
        <4>1. Consumed \in SUBSET UtxoId /\ i \in UtxoId \ Consumed
          BY <1>4, <1>6
        <4>2. QED
          BY <1>a, <2>1, <4>1, TallyAdd
      <3>3. CASE lk
        <4>1. LockedConsumed' = LockedConsumed \cup {i}
          BY <1>4, <3>3
        <4>2. Tally(utxos, LockedConsumed', b) = Tally(utxos, LockedConsumed \cup {i}, b)
          BY <4>1, Zenon
        <4>3. LockedConsumed \in SUBSET UtxoId /\ i \in UtxoId \ LockedConsumed
          BY <1>4, <1>6
        <4>4. Tally(utxos, LockedConsumed \cup {i}, b) =
                  Tally(utxos, LockedConsumed, b) + (IF a = b THEN utxos[i].amount ELSE 0)
          BY <1>a, <2>1, <4>3, TallyAdd
        <4>5. QED
          BY <3>1, <3>2, <3>3, <4>2, <4>4
      <3>4. CASE ~lk
        <4>1. LockedConsumed' = LockedConsumed
          BY <1>4, <3>4
        <4>2. Tally(utxos, LockedConsumed', b) = Tally(utxos, LockedConsumed, b)
          BY <4>1, Zenon
        <4>3. QED
          BY <3>1, <3>2, <3>4, <4>2
      <3>5. QED
        BY <3>3, <3>4
    <2>4. ASSUME NEW b \in Wanted
          PROVE  /\ amounts'[b].spent = Tally(utxos, Consumed', b)
                 /\ amounts'[b].stakeableLockSpent = Tally(utxos, LockedConsumed', b)
      <3>1. /\ amounts[b].spent = Tally(utxos, Consumed, b)
            /\ amounts[b].stakeableLockSpent = Tally(utxos, LockedConsumed, b)
        BY TotalIsTally DEF PInv, Selection, Counted
      <3>2. amounts[b].spent \in Nat /\ amounts[b].stakeableLockSpent \in Nat
        BY <1>0, AmountFacts, AmountFields
      <3>3. CASE b = a
        <4>1. /\ amounts'[a].spent = amounts[a].spent + utxos[i].amount
              /\ amounts'[a].stakeableLockSpent =
                     IF lk THEN amounts[a].stakeableLockSpent + utxos[i].amount
                     ELSE amounts[a].stakeableLockSpent
          BY <1>2 DEF SpendAmount, SpendTowards
        <4>2. QED
          BY <2>3, <3>1, <3>3, <4>1
      <3>4. CASE b # a
        <4>1. amounts'[b] = amounts[b]
          BY <1>2, <3>4
        <4>2. /\ Tally(utxos, Consumed', b) = amounts[b].spent + 0
              /\ Tally(utxos, LockedConsumed', b) =
                     IF lk THEN amounts[b].stakeableLockSpent + 0 ELSE amounts[b].stakeableLockSpent
          BY <2>3, <3>1, <3>4
        <4>3. QED
          BY <3>2, <4>1, <4>2
      <3>5. QED
        BY <3>3, <3>4
    <2>5. QED
      BY <1>2, <2>2, <2>4 DEF Counted
  <1>12. LongestSoFar'
    <2> SUFFICES ASSUME lockMode = "Stake", NEW h \in Consumed \cup {i},
                        NEW j \in UtxoId \ (Consumed \cup {i}),
                        utxos[h].asset = utxos[j].asset, Spendable(j), utxos[j].kind = "stakeable"
                 PROVE  /\ utxos[h].kind = "stakeable"
                        /\ utxos[h].stakeableLocktime >= utxos[j].stakeableLocktime
      BY <1>1, <1>4, <1>7 DEF LongestSoFar
    <2>1. CASE h \in Consumed
      BY <2>1 DEF PInv, Selection, LongestSoFar
    <2>2. CASE h = i
      <3>1. Consumable(utxos[j], lockMode)
        BY DEF Consumable
      <3>2. j \in remaining
        BY <1>1, <1>a, <2>2, <3>1 DEF PInv, Selection, PassedOver
      <3>3. QED
        BY <1>0, <1>1, <2>2, <3>2, NextHasLongestLock
    <2>3. QED
      BY <2>1, <2>2
  <1>13. EndsWell'
    BY <1>1, <1>2 DEF PInv, Selection, EndsWell
  <1>14. QED
    BY <1>0, <1>9, <1>10, <1>11, <1>12, <1>13 DEF PInv, Selection

-----------------------------------------------------------------------------
\* The invariant holds of the specification.

LEMMA NextPInv == PInv /\ [Next]_vars => PInv'
  <1> SUFFICES ASSUME PInv, [Next]_vars PROVE PInv'
    OBVIOUS
  <1>0. Inv'
    BY NextInv DEF PInv
  <1>1. CASE UNCHANGED vars
    <2>1. UNCHANGED <<input, amounts, inputs, remaining, phase, change, sent>>
      BY <1>1 DEF vars, selection, produced
    <2>2. phase' = "insufficient" => remaining = {} /\ ~CanComplete(amounts)
      BY <2>1 DEF PInv, Selection, EndsWell
    <2>3. QED
      BY <1>0, <2>1, <2>2, BuildPInv
  <1>2. ASSUME NEW i \in UtxoId, SkipUtxo(i) PROVE PInv'
    BY <1>2, SkipPInv
  <1>3. ASSUME NEW i \in UtxoId, SpendUtxo(i) PROVE PInv'
    BY <1>3, SpendPInv
  <1>4. CASE Insufficient
    BY <1>0, <1>4, BuildPInv DEF Insufficient, selection, produced
  <1>5. CASE Selected
    BY <1>0, <1>5, BuildPInv DEF Selected, selection, produced
  <1>6. ASSUME NEW a \in Asset, NextAsset(a) PROVE PInv'
    BY <1>0, <1>6, BuildPInv DEF NextAsset, selection, produced
  <1>7. CASE RelockOutput
    BY <1>0, <1>7, BuildPInv DEF RelockOutput, selection
  <1>8. CASE UnlockedOutputs
    <2>1. UNCHANGED <<input, amounts, inputs, remaining, phase>> /\ phase = "building"
      BY <1>8 DEF UnlockedOutputs, selection
    <2>2. asset \in Wanted
      BY <1>8 DEF UnlockedOutputs, PInv, Inv, PhasesFit
    <2>3. \A a \in Asset \ Wanted : change'[a] = change[a] /\ sent'[a] = sent[a]
      <3>1. change \in [Asset -> Nat] /\ sent \in [Asset -> Nat]
        BY DEF PInv, Inv, TypeOK
      <3>2. QED
        BY <1>8, <2>2, <3>1 DEF UnlockedOutputs
    <2>4. QED
      BY <1>0, <2>1, <2>3, BuildPInv
  <1>9. CASE Return
    BY <1>0, <1>9, BuildPInv DEF Return, selection, produced
  <1>10. QED
    BY <1>1, <1>2, <1>3, <1>4, <1>5, <1>6, <1>7, <1>8, <1>9 DEF Next

LEMMA AlwaysPInv == Spec => []PInv
  BY InitPInv, NextPInv, PTL DEF Spec

\* getMinimumSpendable consumes only UTXOs its senders may spend, of assets that
\* were asked for, each once, and none whose asset was covered before it.
THEOREM InputsAreNeeded == Spec => []NoInputIsSuperfluous
  <1>1. PInv => NoInputIsSuperfluous
    BY DEF PInv, Selection, AllPickedWell, PickedWell, Spendable, NoInputIsSuperfluous
  <1>2. QED
    BY <1>1, AlwaysPInv, PTL

\* A plain call never consumes tokens under a lock, and the inputs that are are
\* the ones marked StakeableLockIn.
THEOREM LocksAlwaysHonoured == Spec => []LocksAreHonoured
  <1>1. PInv => LocksAreHonoured
    <2> SUFFICES ASSUME PInv, NEW k \in 1..Len(inputs)
                 PROVE  LET u == utxos[inputs[k].utxo]
                        IN /\ inputs[k].locked <=> (u.kind = "stakeable" /\ u.stakeableLocktime > AsOf)
                           /\ inputs[k].locked => lockMode = "Stake"
      BY DEF LocksAreHonoured
    <2>1. PICK i \in UtxoId : i = inputs[k].utxo
      BY InputFacts DEF PInv, Inv
    <2>2. inputs[k].locked = Locked(i) /\ Consumable(utxos[i], lockMode)
      BY <2>1 DEF PInv, Selection, AllPickedWell, PickedWell
    <2>3. inputs[k].locked \in BOOLEAN /\ lockMode \in {"Unlocked", "Stake"}
      BY InputFacts DEF PInv, Inv, TypeOK
    <2>4. utxos[i].stakeableLocktime \in Nat
      BY UtxoFacts DEF PInv, Inv
    <2>5. lockMode = "Unlocked" /\ utxos[i].kind = "stakeable" => ~(utxos[i].stakeableLocktime > AsOf)
      BY <2>2, <2>4, AsOfAssumption DEF Consumable
    <2>6. QED
      BY <2>1, <2>2, <2>3, <2>5 DEF Locked
  <1>2. QED
    BY <1>1, AlwaysPInv, PTL

\* A call is refused only if all the UTXOs that the senders may consume together
\* fall short of what was asked for of some asset.
THEOREM RefusalsAreJustified == Spec => []RefusalIsJustified
  <1>1. PInv => RefusalIsJustified
    <2> SUFFICES ASSUME PInv, phase = "insufficient" PROVE RefusalIsJustified
      BY DEF RefusalIsJustified
    <2> DEFINE All == {i \in UtxoId : Consumable(utxos[i], lockMode) /\ Spendable(i)}
    <2>1. PICK a \in Wanted : ~amounts[a].finished
      BY DEF PInv, Selection, EndsWell, CanComplete, Wanted
    <2>2. \A i \in All : utxos[i].asset = a => i \in Consumed
      BY <2>1 DEF PInv, Selection, EndsWell, PassedOver
    <2>3. utxos \in [UtxoId -> Utxo] /\ Consumed \in SUBSET UtxoId
      BY InputFacts DEF PInv, Inv, TypeOK
    <2> HIDE DEF All
    <2>4. Tally(utxos, All, a) <= Tally(utxos, Consumed, a) /\ Tally(utxos, Consumed, a) \in Nat
      BY <2>2, <2>3, TallyPart, TallyNat
    <2>5. Tally(utxos, Consumed, a) < Requested(amounts[a])
      <3>1. amounts[a].spent = Tally(utxos, Consumed, a)
        BY TotalIsTally DEF PInv, Selection, Counted
      <3>2. amounts[a].spent < Requested(amounts[a])
        BY <2>1 DEF PInv, Inv, Selecting, AllAccounted, Accounted
      <3>3. QED
        BY <3>1, <3>2
    <2>6. Requested(amounts[a]) \in Nat /\ Tally(utxos, All, a) \in Nat
      <3>1. Requested(amounts[a]) \in Nat
        BY AmountFacts, AmountFields DEF PInv, Inv, Requested
      <3>2. All \in SUBSET UtxoId
        BY DEF All
      <3>3. QED
        BY <2>3, <3>1, <3>2, TallyNat
    <2>7. TotalOf(All, a) < Requested(amounts[a])
      BY <2>4, <2>5, <2>6, TotalIsTally
    <2>8. QED
      BY <2>7 DEF RefusalIsJustified, All
  <1>2. QED
    BY <1>1, AlwaysPInv, PTL

\* In Stake mode locked tokens are consumed before unlocked ones of the asset, and
\* the longest lock first.
THEOREM LongestLocksGoFirst == Spec => []LongestLockFirst
  <1>1. PInv => LongestLockFirst
    BY DEF PInv, Selection, LongestSoFar, LongestLockFirst
  <1>2. QED
    BY <1>1, AlwaysPInv, PTL

-----------------------------------------------------------------------------
\* What the outputs of a call that has returned add up to.

LEMMA AssetIdsFinite ==
    ASSUME NEW a
    PROVE  IsFiniteSet(AssetIds(UtxoId, a)) /\ AssetIds(UtxoId, a) \subseteq UtxoId
  BY FS_Subset, UtxoIdAssumption DEF AssetIds

\* What goes back under a lock at all is what was consumed under one.
LEMMA RelockedTotals ==
    ASSUME PInv, phase = "done", NEW a \in Asset
    PROVE  /\ RelockedTotal(a) \in Nat /\ RelockedChangeTotal(a) \in Nat
           /\ RelockedTotal(a) + RelockedChangeTotal(a) = Tally(utxos, LockedConsumed, a)
  <1> DEFINE S == AssetIds(UtxoId, a)
             L == {i \in LockedConsumed : utxos[i].asset = a}
             h == [i \in UtxoId |-> relocked[i] + relockedChange[i]]
             f == [i \in UtxoId |-> utxos[i].amount]
  <1>1. IsFiniteSet(S) /\ S \subseteq UtxoId
    BY AssetIdsFinite
  <1>2. /\ relocked \in [UtxoId -> Nat] /\ relockedChange \in [UtxoId -> Nat]
        /\ LockedConsumed \subseteq UtxoId
    BY InputFacts DEF PInv, Inv, TypeOK
  <1>3. LockedTokensRelocked
    BY InvRelocks DEF PInv
  <1>4. /\ \A i \in L : h[i] = f[i]
        /\ \A i \in S \ L : h[i] = 0
        /\ L \in SUBSET S
    BY <1>1, <1>2, <1>3 DEF LockedTokensRelocked, AssetIds
  <1>5. \A i \in S : relocked[i] \in Nat /\ relockedChange[i] \in Nat /\ h[i] \in Nat
                     /\ h[i] = relocked[i] + relockedChange[i]
    BY <1>1, <1>2
  <1> HIDE DEF S, L, h, f
  <1>6. SumFunctionOnSet(relocked, S) \in Nat /\ SumFunctionOnSet(relockedChange, S) \in Nat
    BY <1>1, <1>5, SumNat
  <1>7. SumFunctionOnSet(h, S) = SumFunctionOnSet(relocked, S) + SumFunctionOnSet(relockedChange, S)
    <2>1. \A i \in S : relocked[i] \in Int /\ relockedChange[i] \in Int
                       /\ h[i] = relocked[i] + relockedChange[i]
      BY <1>5
    <2>2. QED
      BY <1>1, <2>1, SumPlus
  <1>8. SumFunctionOnSet(h, S) = SumFunctionOnSet(h, L)
    <2>1. \A i \in L : h[i] \in Int
      BY <1>4, <1>5
    <2>2. QED
      BY <1>1, <1>4, <2>1, SumSupport
  <1>9. SumFunctionOnSet(h, L) = SumFunctionOnSet(f, L)
    BY <1>4, SumSame
  <1>10. SumFunctionOnSet(f, L) = Tally(utxos, LockedConsumed, a)
    BY DEF Tally, f, L
  <1>11. QED
    BY <1>6, <1>7, <1>8, <1>9, <1>10 DEF RelockedTotal, RelockedChangeTotal, S

\* The change under a lock is that of the accumulator.
LEMMA RelockedChangeIs ==
    ASSUME PInv, phase = "done", NEW a \in Wanted
    PROVE  RelockedChangeTotal(a) = LockedChange(a)
  <1> DEFINE S == AssetIds(UtxoId, a)
             n == Len(lockedOutputs[a])
  <1>0. Inv /\ a \in Asset /\ TypeOK
    BY AmountFacts DEF PInv, Inv
  <1>1. IsFiniteSet(S) /\ S \subseteq UtxoId
    BY AssetIdsFinite
  <1>2. /\ n \in Nat
        /\ \A k \in 1..n : lockedOutputs[a][k] \in UtxoId
    BY <1>0, LockedOutputFacts
  <1>3. /\ \A k \in 1..n : utxos[lockedOutputs[a][k]].asset = a
        /\ LockedChange(a) # 0 => n > 0
    BY <1>0, <1>2 DEF Inv, Selecting, LocksKnown, LocksOf, LockedChange
  <1>4. \A k \in 1..n : relockedChange[lockedOutputs[a][k]] = IF k = n THEN LockedChange(a) ELSE 0
    BY <1>0, Returned DEF Inv, LockedProduced, RelockedAt
  <1>5. ASSUME NEW i \in S, \A k \in 1..n : lockedOutputs[a][k] # i
        PROVE  relockedChange[i] = 0
    <2>1. i \in UtxoId /\ utxos[i].asset = a
      BY DEF AssetIds
    <2>2. ~IsLockedOutput(i)
      BY <1>5, <2>1 DEF IsLockedOutput
    <2>3. QED
      BY <1>0, <2>1, <2>2 DEF Inv, LockedProduced, NothingAt
  <1>6. CASE n = 0
    <2>1. \A i \in S : relockedChange[i] = 0
      BY <1>5, <1>6
    <2>2. SumFunctionOnSet(relockedChange, S) = SumFunctionOnSet(relockedChange, {})
      <3>1. {} \in SUBSET S /\ \A i \in S \ {} : relockedChange[i] = 0
        BY <2>1
      <3> HIDE DEF S
      <3>2. QED
        BY <1>1, <3>1, SumSupport
    <2>3. QED
      BY <1>3, <1>6, <2>2, SumEmpty DEF RelockedChangeTotal
  <1>7. CASE n > 0
    <2> DEFINE e == lockedOutputs[a][n]
    <2>1. n \in 1..n /\ e \in S
      BY <1>2, <1>3, <1>7 DEF AssetIds
    <2>2. relockedChange[e] = LockedChange(a) /\ LockedChange(a) \in Int
      BY <1>0, <1>4, <2>1, OutputAmounts
    <2>3. \A i \in S \ {e} : relockedChange[i] = 0
      <3> SUFFICES ASSUME NEW i \in S \ {e} PROVE relockedChange[i] = 0
        OBVIOUS
      <3>1. CASE \E k \in 1..n : lockedOutputs[a][k] = i
        BY <3>1, <1>4
      <3>2. CASE \A k \in 1..n : lockedOutputs[a][k] # i
        BY <3>2, <1>5
      <3>3. QED
        BY <3>1, <3>2
    <2> HIDE DEF S, e
    <2>4. SumFunctionOnSet(relockedChange, S) = relockedChange[e]
      BY <1>1, <2>1, <2>2, <2>3, SumSingle
    <2>5. QED
      BY <2>2, <2>4 DEF RelockedChangeTotal, S
  <1>8. QED
    BY <1>2, <1>6, <1>7

-----------------------------------------------------------------------------
\* The refinement.

Ask == [a \in Wanted |-> [amount |-> amounts[a].amount, burn |-> amounts[a].burn]]

ConsumedTotal == [a \in Asset |-> TotalOf(Consumed, a)]

SentTotal == [a \in Asset |-> RelockedTotal(a) + sent[a]]

ChangeTotal == [a \in Asset |-> RelockedChangeTotal(a) + change[a]]

\* An asset that was asked for.
LEMMA WantedHonoured ==
    ASSUME PInv, phase = "done", NEW a \in Wanted
    PROVE  /\ TotalOf(Consumed, a) >= amounts[a].amount + amounts[a].burn
           /\ RelockedChangeTotal(a) + change[a] =
                  TotalOf(Consumed, a) - amounts[a].amount - amounts[a].burn
           /\ RelockedTotal(a) + sent[a] >= amounts[a].amount
           /\ RelockedTotal(a) + sent[a] <=
                  amounts[a].amount + (IF lockMode = "Stake" THEN amounts[a].burn ELSE 0)
           /\ RelockedTotal(a) \in Nat
           /\ RelockedTotal(a) <= amounts[a].amount + amounts[a].burn
           /\ sent[a] = IF amounts[a].amount - RelockedTotal(a) > 0
                        THEN amounts[a].amount - RelockedTotal(a) ELSE 0
  <1> DEFINE aa == amounts[a]
             L == aa.stakeableLockSpent
             back == RelockedTotal(a)
             out == sent[a]
  <1>0. Inv /\ a \in Asset /\ aa \in AssetAmounts
    BY AmountFacts DEF PInv, Inv
  <1>1. /\ aa.amount \in Nat /\ aa.burn \in Nat /\ aa.spent \in Nat /\ L \in Nat /\ aa.change \in Nat
        /\ aa.stakeableLockChange \in BOOLEAN
        /\ aa.spent = aa.amount + aa.burn + aa.change
        /\ L <= aa.spent
        /\ ~aa.stakeableLockChange => aa.change <= aa.spent - L
    BY <1>0, Returned, AmountFields DEF Accounted, Requested
  <1>2. TotalOf(Consumed, a) = aa.spent /\ Tally(utxos, LockedConsumed, a) = L
    BY TotalIsTally DEF PInv, Selection, Counted
  <1>3. /\ back \in Nat
        /\ back + LockedChange(a) = L
    BY <1>0, <1>2, RelockedTotals, RelockedChangeIs
  <1>4. /\ RelockedChangeTotal(a) = LockedChange(a) /\ change[a] = UnlockedChange(a)
        /\ out = IF UnlockedAmount(a) > 0 THEN UnlockedAmount(a) ELSE 0
    BY <1>0, RelockedChangeIs, Returned
  <1>5. UnlockedAmount(a) = aa.spent - L - aa.burn - UnlockedChange(a)
    BY DEF UnlockedAmount
  <1>6. lockMode \in {"Unlocked", "Stake"} /\ (lockMode = "Unlocked" => L = 0 /\ ~aa.stakeableLockChange)
    BY <1>0 DEF Inv, TypeOK, Selecting, NothingLockedInPlain
  <1>7. LockedChange(a) = (IF aa.stakeableLockChange THEN aa.change ELSE 0)
        /\ UnlockedChange(a) = (IF aa.stakeableLockChange THEN 0 ELSE aa.change)
    BY DEF LockedChange, UnlockedChange
  <1> HIDE DEF aa, L, back, out
  <1>8. LockedChange(a) + UnlockedChange(a) = aa.change
    BY <1>1, <1>7
  <1>9. UnlockedAmount(a) = aa.amount - back
    <2>1. LockedChange(a) \in Nat /\ UnlockedChange(a) \in Nat
      BY <1>1, <1>7
    <2>2. QED
      BY <1>1, <1>3, <1>5, <1>8, <2>1
  <1>10. out = IF aa.amount - back > 0 THEN aa.amount - back ELSE 0
    BY <1>4, <1>9
  <1>11. back <= aa.amount + aa.burn
    <2>1. CASE aa.stakeableLockChange
      BY <2>1, <1>1, <1>3, <1>7
    <2>2. CASE ~aa.stakeableLockChange
      BY <2>2, <1>1, <1>3, <1>7
    <2>3. QED
      BY <2>1, <2>2
  <1>12. back + out >= aa.amount
    BY <1>1, <1>3, <1>10
  <1>13. back + out <= aa.amount + (IF lockMode = "Stake" THEN aa.burn ELSE 0)
    <2>1. CASE lockMode = "Stake"
      BY <2>1, <1>1, <1>3, <1>10, <1>11
    <2>2. CASE lockMode = "Unlocked"
      <3>1. back = 0
        BY <2>2, <1>3, <1>6, <1>7
      <3>2. QED
        BY <2>2, <3>1, <1>1, <1>10
    <2>3. QED
      BY <2>1, <2>2, <1>6
  <1>14. TotalOf(Consumed, a) >= aa.amount + aa.burn
    BY <1>1, <1>2
  <1>15. RelockedChangeTotal(a) + change[a] = TotalOf(Consumed, a) - aa.amount - aa.burn
    BY <1>1, <1>2, <1>4, <1>8
  <1>16. QED
    BY <1>3, <1>10, <1>11, <1>12, <1>13, <1>14, <1>15 DEF aa, back, out

\* No call creates tokens, and in Stake mode as well it burns what was asked for,
\* but for what locked tokens were taken for.
THEOREM BurnShortOnlyByLocks == Spec => []BurnFallsShortByLocks
  <1>1. PInv => BurnFallsShortByLocks
    <2> SUFFICES ASSUME PInv, phase = "done", NEW a \in Wanted
                 PROVE  LET beyond == RelockedTotal(a) - amounts[a].amount
                        IN /\ Gone(a) >= 0
                           /\ Gone(a) = amounts[a].burn - (IF beyond > 0 THEN beyond ELSE 0)
      BY DEF BurnFallsShortByLocks
    <2> DEFINE consumed == TotalOf(Consumed, a)
               back == RelockedTotal(a)
               given == RelockedChangeTotal(a)
               amount == amounts[a].amount
               burn == amounts[a].burn
    <2>1. Inv /\ a \in Asset
      BY AmountFacts DEF PInv, Inv
    <2>2. amount \in Nat /\ burn \in Nat /\ change[a] \in Nat /\ sent[a] \in Nat
      BY <2>1, Returned, AmountFields DEF Inv, TypeOK
    <2>3. given \in Nat
      BY <2>1, RelockedTotals
    <2>4. consumed \in Nat
      BY <2>1, TotalIsTally, TallyNat, Returned, AmountFields DEF PInv, Selection, Counted
    <2>5. /\ given + change[a] = consumed - amount - burn
          /\ back \in Nat /\ back <= amount + burn
          /\ sent[a] = IF amount - back > 0 THEN amount - back ELSE 0
      BY WantedHonoured
    <2>6. Gone(a) = consumed - back - given - sent[a] - change[a]
      BY DEF Gone
    <2> HIDE DEF consumed, back, given, amount, burn
    <2>7. Gone(a) = amount + burn - back - sent[a]
      BY <2>2, <2>3, <2>4, <2>5, <2>6
    <2>8. Gone(a) = burn - (IF back - amount > 0 THEN back - amount ELSE 0) /\ Gone(a) >= 0
      BY <2>2, <2>5, <2>7
    <2>9. QED
      BY <2>8 DEF back, amount, burn
  <1>2. QED
    BY <1>1, AlwaysPInv, PTL

\* Nothing is consumed or produced of an asset that was not asked for.
LEMMA OtherUntouched ==
    ASSUME PInv, phase = "done", NEW a \in Asset \ Wanted
    PROVE  /\ TotalOf(Consumed, a) = 0
           /\ RelockedTotal(a) + sent[a] = 0
           /\ RelockedChangeTotal(a) + change[a] = 0
  <1>1. \A i \in Consumed : utxos[i].asset # a
    BY DEF PInv, Selection, AllPickedWell, PickedWell, Spendable, Consumed
  <1>2. TotalOf(Consumed, a) = 0
    BY <1>1, TallyEmpty, TotalIsTally
  <1>3. Tally(utxos, LockedConsumed, a) = 0
    <2>1. \A i \in LockedConsumed : utxos[i].asset # a
      BY <1>1, InputFacts DEF PInv, Inv
    <2>2. QED
      BY <2>1, TallyEmpty
  <1>4. RelockedTotal(a) = 0 /\ RelockedChangeTotal(a) = 0
    BY <1>3, RelockedTotals
  <1>5. sent[a] = 0 /\ change[a] = 0
    BY DEF PInv, Selection, EndsWell
  <1>6. QED
    BY <1>2, <1>4, <1>5

Contract ==
    /\ ConsumedTotal \in [Asset -> Nat]
    /\ SentTotal \in [Asset -> Nat]
    /\ ChangeTotal \in [Asset -> Nat]
    /\ Promise!Honours(Ask, lockMode, ConsumedTotal, SentTotal, ChangeTotal)

\* The contract holds once the call has returned.
LEMMA ContractKept == PInv => (phase = "done" => Contract)
  <1> SUFFICES ASSUME PInv, phase = "done" PROVE Contract
    OBVIOUS
  <1>1. \A a \in Asset : /\ TotalOf(Consumed, a) \in Nat
                         /\ RelockedTotal(a) + sent[a] \in Nat
                         /\ RelockedChangeTotal(a) + change[a] \in Nat
    <2> SUFFICES ASSUME NEW a \in Asset
                 PROVE  /\ TotalOf(Consumed, a) \in Nat
                        /\ RelockedTotal(a) + sent[a] \in Nat
                        /\ RelockedChangeTotal(a) + change[a] \in Nat
      OBVIOUS
    <2>1. utxos \in [UtxoId -> Utxo] /\ Consumed \in SUBSET UtxoId
      BY InputFacts DEF PInv, Inv, TypeOK
    <2>2. TotalOf(Consumed, a) \in Nat
      BY <2>1, TotalIsTally, TallyNat
    <2>3. sent[a] \in Nat /\ change[a] \in Nat
      BY DEF PInv, Inv, TypeOK
    <2>4. QED
      BY <2>2, <2>3, RelockedTotals
  <1>2. /\ ConsumedTotal \in [Asset -> Nat]
        /\ SentTotal \in [Asset -> Nat]
        /\ ChangeTotal \in [Asset -> Nat]
    BY <1>1 DEF ConsumedTotal, SentTotal, ChangeTotal
  <1>3. DOMAIN Ask = Wanted /\ Wanted \subseteq Asset
        /\ \A a \in Wanted : Ask[a].amount = amounts[a].amount /\ Ask[a].burn = amounts[a].burn
    BY DEF Ask, PInv, Inv, TypeOK
  <1>4. \A a \in Asset : /\ ConsumedTotal[a] = TotalOf(Consumed, a)
                         /\ SentTotal[a] = RelockedTotal(a) + sent[a]
                         /\ ChangeTotal[a] = RelockedChangeTotal(a) + change[a]
    BY DEF ConsumedTotal, SentTotal, ChangeTotal
  <1>5. ASSUME NEW a \in Asset
        PROVE  IF a \in DOMAIN Ask
               THEN /\ ConsumedTotal[a] >= Ask[a].amount + Ask[a].burn
                    /\ ChangeTotal[a] = ConsumedTotal[a] - Ask[a].amount - Ask[a].burn
                    /\ SentTotal[a] >= Ask[a].amount
                    /\ SentTotal[a] <= Ask[a].amount + (IF lockMode = "Stake" THEN Ask[a].burn ELSE 0)
               ELSE ConsumedTotal[a] = 0 /\ SentTotal[a] = 0 /\ ChangeTotal[a] = 0
    <2>1. CASE a \in Wanted
      BY <2>1, <1>3, <1>4, WantedHonoured
    <2>2. CASE a \notin Wanted
      BY <2>2, <1>3, <1>4, OtherUntouched
    <2>3. QED
      BY <2>1, <2>2
  <1>6. Promise!Honours(Ask, lockMode, ConsumedTotal, SentTotal, ChangeTotal)
    BY <1>5 DEF Promise!Honours
  <1>7. QED
    BY <1>2, <1>6 DEF Contract

LEMMA ContractKeptNext == PInv' => (phase = "done" => Contract)'
  BY ContractKept, PTL

\* The requests stay what they are.
LEMMA AskStays == PInv /\ [Next]_vars => Ask' = Ask /\ lockMode' = lockMode
  <1> SUFFICES ASSUME PInv, [Next]_vars PROVE Ask' = Ask /\ lockMode' = lockMode
    OBVIOUS
  <1>1. CASE UNCHANGED <<input, amounts>>
    BY <1>1 DEF input, Ask, Wanted
  <1>2. ASSUME NEW i \in UtxoId, SpendUtxo(i) PROVE Ask' = Ask /\ lockMode' = lockMode
    <2> DEFINE a == utxos[i].asset
    <2>1. amounts \in [Wanted -> AssetAmounts] /\ a \in Wanted
      BY <1>2 DEF PInv, Inv, TypeOK, SpendUtxo, MaySpend, Spendable
    <2>2. /\ amounts' = [amounts EXCEPT ![a] = SpendAmount(amounts[a], utxos[i].amount, Locked(i))]
          /\ lockMode' = lockMode
      BY <1>2 DEF SpendUtxo, input
    <2>3. Wanted' = Wanted
      BY <2>1, <2>2 DEF Wanted
    <2>4. /\ amounts'[a] = SpendAmount(amounts[a], utxos[i].amount, Locked(i))
          /\ \A b \in Wanted : b # a => amounts'[b] = amounts[b]
      BY <2>1, <2>2 DEF Wanted
    <2>5. \A b \in Wanted : amounts'[b].amount = amounts[b].amount /\ amounts'[b].burn = amounts[b].burn
      BY <2>4 DEF SpendAmount, SpendTowards
    <2>6. QED
      BY <2>2, <2>3, <2>5 DEF Ask
  <1>3. UNCHANGED vars => UNCHANGED <<input, amounts>>
    BY DEF vars, selection
  <1>4. ASSUME NEW i \in UtxoId, SkipUtxo(i) PROVE UNCHANGED <<input, amounts>>
    BY <1>4 DEF SkipUtxo
  <1>5. Insufficient \/ Selected \/ RelockOutput \/ UnlockedOutputs \/ Return => UNCHANGED <<input, amounts>>
    BY DEF Insufficient, Selected, RelockOutput, UnlockedOutputs, Return, selection
  <1>6. ASSUME NEW a \in Asset, NextAsset(a) PROVE UNCHANGED <<input, amounts>>
    BY <1>6 DEF NextAsset, selection
  <1>7. QED
    BY <1>1, <1>2, <1>3, <1>4, <1>5, <1>6 DEF Next

\* A call ends by returning or by refusing, and then nothing happens any more.
LEMMA OutcomeSteps ==
    [Next]_vars =>
        \/ Return /\ phase = "building" /\ phase' = "done"
        \/ Insufficient /\ phase = "selecting" /\ phase' = "insufficient"
        \/ UNCHANGED vars
        \/ phase \notin {"done", "insufficient"} /\ phase' \notin {"done", "insufficient"}
  <1> SUFFICES ASSUME [Next]_vars
               PROVE  \/ Return /\ phase = "building" /\ phase' = "done"
                      \/ Insufficient /\ phase = "selecting" /\ phase' = "insufficient"
                      \/ UNCHANGED vars
                      \/ phase \notin {"done", "insufficient"} /\ phase' \notin {"done", "insufficient"}
    OBVIOUS
  <1> DEFINE Open == phase \notin {"done", "insufficient"} /\ phase' \notin {"done", "insufficient"}
  <1>1. ASSUME NEW i \in UtxoId, SkipUtxo(i) \/ SpendUtxo(i) PROVE Open
    BY <1>1 DEF SkipUtxo, SpendUtxo
  <1>2. Selected => Open
    BY DEF Selected
  <1>3. ASSUME NEW a \in Asset, NextAsset(a) PROVE Open
    BY <1>3 DEF NextAsset
  <1>4. RelockOutput \/ UnlockedOutputs => Open
    BY DEF RelockOutput, UnlockedOutputs
  <1>5. /\ Return => phase = "building" /\ phase' = "done"
        /\ Insufficient => phase = "selecting" /\ phase' = "insufficient"
    BY DEF Return, Insufficient
  <1>6. QED
    BY <1>1, <1>2, <1>3, <1>4, <1>5 DEF Next

\* getMinimumSpendable keeps the promise of SpendPromise: seen from outside it is
\* one step, in which the call is refused, or all tokens consumed are sent, change
\* or burned as asked for.
THEOREM SpendKeepsPromise == Spec => KeepsPromise
  <1>1. Init => Promise!Init
    BY DEF Init, Promise!Init, Promise!Nothing, Finished
  <1>2. ASSUME PInv, PInv', [Next]_vars PROVE [Promise!Next]_Promise!vars
    <2>1. Ask' = Ask /\ lockMode' = lockMode
      BY <1>2, AskStays
    <2>2. CASE UNCHANGED vars
      <3>1. /\ UNCHANGED <<utxos, lockMode, amounts, inputs, phase>>
            /\ UNCHANGED <<relocked, relockedChange, change, sent>>
        BY <2>2 DEF vars, input, selection, produced
      <3>2. ConsumedTotal' = ConsumedTotal /\ SentTotal' = SentTotal /\ ChangeTotal' = ChangeTotal
        BY <3>1 DEF ConsumedTotal, SentTotal, ChangeTotal, TotalOf, AmountOf, AssetIds, Consumed,
                    RelockedTotal, RelockedChangeTotal
      <3>3. UNCHANGED Promise!vars
        BY <2>1, <3>1, <3>2
           DEF Promise!vars, Promise!call, Finished, Ask, ConsumedTotal, SentTotal, ChangeTotal
      <3>4. QED
        BY <3>3
    <2>3. CASE phase \notin {"done", "insufficient"} /\ phase' \notin {"done", "insufficient"}
      BY <2>1, <2>3 DEF Promise!vars, Promise!call, Finished, Ask
    <2>4. CASE Insufficient /\ phase = "selecting" /\ phase' = "insufficient"
      BY <2>1, <2>4 DEF Promise!Next, Promise!Refuse, Promise!call, Finished, Ask
    <2>5. CASE Return /\ phase = "building" /\ phase' = "done"
      <3>1. /\ ConsumedTotal' \in [Asset -> Nat]
            /\ SentTotal' \in [Asset -> Nat]
            /\ ChangeTotal' \in [Asset -> Nat]
            /\ Promise!Honours(Ask', lockMode', ConsumedTotal', SentTotal', ChangeTotal')
        BY <1>2, <2>5, ContractKeptNext DEF Contract
      <3>2. Promise!Keep
        BY <2>1, <2>5, <3>1
           DEF Promise!Keep, Promise!call, Finished, Ask, ConsumedTotal, SentTotal, ChangeTotal
      <3>3. QED
        BY <3>2 DEF Promise!Next
    <2>6. QED
      BY <1>2, <2>2, <2>3, <2>4, <2>5, OutcomeSteps
  <1>3. QED
    BY <1>1, <1>2, AlwaysPInv, PTL DEF Spec, KeepsPromise, Promise!Spec
=============================================================================
