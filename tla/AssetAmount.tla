---------------------------- MODULE AssetAmount ----------------------------
(***************************************************************************)
(* The accumulator that tracks one asset while UTXOs are selected,         *)
(* src/common/assetamount.ts.  A destination (StandardAssetAmountDestina-  *)
(* tion) holds one accumulator per asset; it is a function from the assets *)
(* asked for, since no caller adds the same asset twice.                   *)
(***************************************************************************)
EXTENDS Integers

\* The fields of class AssetAmount, the asset itself being the index.
AssetAmounts == [amount : Nat, burn : Nat, spent : Nat, stakeableLockSpent : Nat,
                 change : Nat, stakeableLockChange : BOOLEAN, finished : BOOLEAN]

NewAssetAmount(amount, burn) ==
    [amount |-> amount, burn |-> burn, spent |-> 0, stakeableLockSpent |-> 0,
     change |-> 0, stakeableLockChange |-> FALSE, finished |-> FALSE]

\* The total of spendAmount: what has to be consumed.
Requested(aa) == aa.amount + aa.burn

\* spendAmount against a total: the change is known with the amount that reaches
\* the total, and it is locked if that amount is.
SpendTowards(aa, amt, locked, total) ==
    LET spent == aa.spent + amt
        covers == spent >= total
    IN [amount |-> aa.amount, burn |-> aa.burn, spent |-> spent,
        stakeableLockSpent |-> IF locked THEN aa.stakeableLockSpent + amt ELSE aa.stakeableLockSpent,
        change |-> IF covers THEN spent - total ELSE aa.change,
        stakeableLockChange |-> (covers /\ locked) \/ aa.stakeableLockChange,
        finished |-> covers]

\* Mutants: the burn is left out of the total, strictly more than the total is
\* consumed, the kind of the change is forgotten.
SpendAmountNoBurn(aa, amt, locked) == SpendTowards(aa, amt, locked, aa.amount)
SpendAmountStrict(aa, amt, locked) == SpendTowards(aa, amt, locked, Requested(aa) + 1)
SpendAmountUnmarked(aa, amt, locked) ==
    [SpendTowards(aa, amt, locked, Requested(aa)) EXCEPT !.stakeableLockChange = FALSE]

\* spendAmount(amt, stakeableLocked)
SpendAmount(aa, amt, locked) == SpendTowards(aa, amt, locked, Requested(aa))

\* canComplete(): every asset of the destination has been covered.
CanComplete(amounts) == \A a \in DOMAIN amounts : amounts[a].finished
=============================================================================
