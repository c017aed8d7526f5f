--------------------------- MODULE PlatformSpend ---------------------------
(***************************************************************************)
(* UTXOSet.getMinimumSpendable of the P-chain, src/apis/platformvm/        *)
(* utxos.ts: the UTXOs are taken one by one until every asset asked for is *)
(* covered; then the outputs of every asset are built: locked tokens go    *)
(* back under the lock they came from, what is left of the unlocked ones   *)
(* is split in change, destination and burn.  One iteration of the         *)
(* selection loop, of the loop over the locked outputs, and the rest of    *)
(* an asset's iteration are one action each.                               *)
(*                                                                         *)
(* A UTXO gives rise to at most one relocked output and one locked change, *)
(* an asset to at most one change and one destination output, so outputs   *)
(* are kept as the amount of each of them, 0 where there is none.          *)
(***************************************************************************)
EXTENDS AssetAmount, Sequences, FiniteSets, Functions

CONSTANTS
    UtxoId,         \* UTXOs, numbered in the order of the set
    Asset,
    UtxoSets,       \* the contents the UTXOSet may have: functions from UtxoId
    Requests,       \* what addAssetAmount was called with: asset -> amount, burn
    LockModes,      \* of "Unlocked", "Stake"
    AsOf,           \* the time of the call
    NoAsset         \* no asset's outputs are being built

\* kind: SECPTransferOutput, StakeableLockOut, or an output without an amount
\* (SECPOwnerOutput); spendable: meetsThreshold(fromAddresses, asOf).
Utxo == [asset : Asset, amount : Nat \ {0}, kind : {"transfer", "stakeable", "owner"},
         stakeableLocktime : Nat, spendable : BOOLEAN]

ASSUME UtxoIdAssumption == UtxoId \subseteq Nat /\ IsFiniteSet(UtxoId)

ASSUME AsOfAssumption == AsOf \in Nat

ASSUME NoAssetAssumption == NoAsset \notin Asset

ASSUME UtxoSetsAssumption == UtxoSets \subseteq [UtxoId -> Utxo]

\* The builders ask for something of every asset they add.
ASSUME RequestsAssumption ==
    \A r \in Requests :
        /\ DOMAIN r \subseteq Asset
        /\ \A a \in DOMAIN r : r[a] \in [amount : Nat, burn : Nat] /\ r[a].amount + r[a].burn > 0

ASSUME LockModesAssumption == LockModes \subseteq {"Unlocked", "Stake"}

VARIABLES
    utxos,          \* the UTXOSet
    lockMode,
    remaining,      \* the part of utxoArray not visited yet
    amounts,        \* aad.amounts
    lockedOutputs,  \* outs[asset].lockedStakeable
    inputs,         \* aad.inputs
    phase,          \* "selecting", "building", "done", "insufficient"
    asset,          \* the asset whose outputs are being built
    pending,        \* the assets whose outputs are still to be built
    index,          \* locked outputs of the asset already relocked
    relocked,       \* UTXO -> amount put back under its lock by addOutput
    relockedChange, \* UTXO -> amount put back under its lock by addChange
    change,         \* asset -> unlocked change
    sent            \* asset -> unlocked amount for the destinations

input == <<utxos, lockMode>>
selection == <<remaining, amounts, lockedOutputs, inputs>>
cursor == <<asset, pending, index>>
produced == <<relocked, relockedChange, change, sent>>
vars == <<input, selection, phase, cursor, produced>>

Wanted == DOMAIN amounts

-----------------------------------------------------------------------------
\* Mutant: a stakeable output is consumed before its lock has ended.
ConsumableAlways(u, mode) == u.kind # "owner"

\* getConsumableUXTO, and the selection by type of the Stake mode: any UTXO can
\* be staked, a stakeable output is spent only after its lock has ended.
Consumable(u, mode) ==
    IF mode = "Stake" THEN u.kind \in {"transfer", "stakeable"}
    ELSE u.kind = "stakeable" => u.stakeableLocktime < AsOf

\* Mutant: the locks that end first are staked first.
EarlierLock(u, v) == u.stakeableLocktime < v.stakeableLocktime

\* The comparison of the sort: the greatest locktime comes first.
LaterLock(u, v) == u.stakeableLocktime > v.stakeableLocktime

\* The order of utxoArray: that of the set, but in Stake mode stakeable outputs
\* come first, sorted (the sort is stable).
Before(i, j) ==
    LET u == utxos[i]
        v == utxos[j]
    IN CASE lockMode # "Stake" \/ {u.kind, v.kind} = {"transfer"} -> i < j
         [] u.kind # v.kind -> u.kind = "stakeable"
         [] OTHER -> LaterLock(u, v) \/ (~LaterLock(v, u) /\ i < j)

\* The next UTXO of the forEach over utxoArray.
IsNext(i) == i \in remaining /\ \A j \in remaining \ {i} : Before(i, j)

\* An amount output of an asset that is wanted, whose threshold the senders meet.
Spendable(i) ==
    /\ utxos[i].kind # "owner"
    /\ utxos[i].asset \in Wanted
    /\ utxos[i].spendable

\* The input is a StakeableLockIn.
Locked(i) == utxos[i].kind = "stakeable" /\ utxos[i].stakeableLocktime > AsOf

-----------------------------------------------------------------------------
Init ==
    /\ utxos \in UtxoSets
    /\ lockMode \in LockModes
    /\ remaining = {i \in UtxoId : Consumable(utxos[i], lockMode)}
    /\ \E r \in Requests : amounts = [a \in DOMAIN r |-> NewAssetAmount(r[a].amount, r[a].burn)]
    /\ lockedOutputs = [a \in Asset |-> <<>>]
    /\ inputs = <<>>
    /\ phase = "selecting"
    /\ asset = NoAsset
    /\ pending = {}
    /\ index = 0
    /\ relocked = [i \in UtxoId |-> 0]
    /\ relockedChange = [i \in UtxoId |-> 0]
    /\ change = [a \in Asset |-> 0]
    /\ sent = [a \in Asset |-> 0]

\* The early returns of the selection loop: the UTXO is not one to spend, or
\* its asset is covered already.
SkipUtxo(i) ==
    /\ phase = "selecting"
    /\ IsNext(i)
    /\ Spendable(i) => amounts[utxos[i].asset].finished
    /\ remaining' = remaining \ {i}
    /\ UNCHANGED <<input, amounts, lockedOutputs, inputs, phase, cursor, produced>>

\* The asset still needs funds.
MaySpend(i) == Spendable(i) /\ ~amounts[utxos[i].asset].finished

SpendUtxo(i) ==
    /\ phase = "selecting"
    /\ IsNext(i)
    /\ MaySpend(i)
    /\ LET a == utxos[i].asset
       IN /\ amounts' = [amounts EXCEPT ![a] = SpendAmount(@, utxos[i].amount, Locked(i))]
          /\ lockedOutputs' =
                 IF Locked(i) THEN [lockedOutputs EXCEPT ![a] = Append(@, i)] ELSE lockedOutputs
    /\ inputs' = Append(inputs, [utxo |-> i, locked |-> Locked(i)])
    /\ remaining' = remaining \ {i}
    /\ UNCHANGED <<input, phase, cursor, produced>>

\* All UTXOs were visited and some asset is not covered: the error is returned.
Insufficient ==
    /\ phase = "selecting"
    /\ remaining = {}
    /\ ~CanComplete(amounts)
    /\ phase' = "insufficient"
    /\ UNCHANGED <<input, selection, cursor, produced>>

\* The loop over the amounts starts.
Selected ==
    /\ phase = "selecting"
    /\ remaining = {}
    /\ CanComplete(amounts)
    /\ phase' = "building"
    /\ pending' = Wanted
    /\ UNCHANGED <<input, selection, asset, index, produced>>

NextAsset(a) ==
    /\ phase = "building"
    /\ asset = NoAsset
    /\ a \in pending
    /\ asset' = a
    /\ pending' = pending \ {a}
    /\ index' = 0
    /\ UNCHANGED <<input, selection, phase, produced>>

-----------------------------------------------------------------------------
\* The locals of the iteration for an asset.

LockedChange(a) == IF amounts[a].stakeableLockChange THEN amounts[a].change ELSE 0

UnlockedChange(a) == IF amounts[a].stakeableLockChange THEN 0 ELSE amounts[a].change

\* Mutant: the locked change stays in the relocked output as well.
RelockedAmountWhole(a, k) == utxos[lockedOutputs[a][k]].amount

\* outputAmountRemaining: only the last locked output gives change.
RelockedAmount(a, k) ==
    utxos[lockedOutputs[a][k]].amount
        - (IF k = Len(lockedOutputs[a]) THEN LockedChange(a) ELSE 0)

\* unlockedAmount: the unlocked tokens less the burn and the change.
UnlockedAmount(a) ==
    amounts[a].spent - amounts[a].stakeableLockSpent - amounts[a].burn - UnlockedChange(a)

RelockOutput ==
    /\ phase = "building"
    /\ asset # NoAsset
    /\ index < Len(lockedOutputs[asset])
    /\ LET k == index + 1
           i == lockedOutputs[asset][k]
       IN /\ relocked' = [relocked EXCEPT ![i] = RelockedAmount(asset, k)]
          /\ relockedChange' =
                 IF k = Len(lockedOutputs[asset]) /\ LockedChange(asset) > 0
                 THEN [relockedChange EXCEPT ![i] = LockedChange(asset)]
                 ELSE relockedChange
    /\ index' = index + 1
    /\ UNCHANGED <<input, selection, phase, asset, pending, change, sent>>

\* The unlocked change and the destination output; an amount that is not
\* positive has no output.
UnlockedOutputs ==
    /\ phase = "building"
    /\ asset # NoAsset
    /\ index = Len(lockedOutputs[asset])
    /\ change' = [change EXCEPT ![asset] = UnlockedChange(asset)]
    /\ sent' = IF UnlockedAmount(asset) > 0
               THEN [sent EXCEPT ![asset] = UnlockedAmount(asset)] ELSE sent
    /\ asset' = NoAsset
    /\ UNCHANGED <<input, selection, phase, pending, index, relocked, relockedChange>>

Return ==
    /\ phase = "building"
    /\ asset = NoAsset
    /\ pending = {}
    /\ phase' = "done"
    /\ UNCHANGED <<input, selection, cursor, produced>>

Next ==
    \/ \E i \in UtxoId : SkipUtxo(i) \/ SpendUtxo(i)
    \/ Insufficient
    \/ Selected
    \/ \E a \in Asset : NextAsset(a)
    \/ RelockOutput
    \/ UnlockedOutputs
    \/ Return

\* The function is synchronous once called: it always runs on to its end.
Spec == Init /\ [][Next]_vars /\ WF_vars(Next)

-----------------------------------------------------------------------------
TypeOK ==
    /\ utxos \in [UtxoId -> Utxo]
    /\ lockMode \in {"Unlocked", "Stake"}
    /\ remaining \subseteq UtxoId
    /\ Wanted \subseteq Asset
    /\ amounts \in [Wanted -> AssetAmounts]
    /\ lockedOutputs \in [Asset -> Seq(UtxoId)]
    /\ inputs \in Seq([utxo : UtxoId, locked : BOOLEAN])
    /\ phase \in {"selecting", "building", "done", "insufficient"}
    /\ asset \in Asset \cup {NoAsset}
    /\ pending \subseteq Wanted
    /\ index \in Nat
    /\ relocked \in [UtxoId -> Nat]
    /\ relockedChange \in [UtxoId -> Nat]
    /\ change \in [Asset -> Nat]
    /\ sent \in [Asset -> Nat]

\* The UTXOs consumed.
Consumed == {inputs[k].utxo : k \in 1..Len(inputs)}

LockedConsumed == {inputs[k].utxo : k \in {n \in 1..Len(inputs) : inputs[n].locked}}

\* Tokens consumed under a lock are all put back under that lock, in the outputs
\* or as change, and nothing else is; no output of amount 0 is made of them,
\* which the comment "We know that outputAmountRemaining > 0" relies on.
LockedTokensRelocked ==
    phase = "done" =>
        \A i \in UtxoId :
            IF i \in LockedConsumed
            THEN relocked[i] + relockedChange[i] = utxos[i].amount /\ relocked[i] > 0
            ELSE relocked[i] = 0 /\ relockedChange[i] = 0

\* Unlocked tokens that are consumed and not produced again.
Burned(a) == amounts[a].spent - amounts[a].stakeableLockSpent - change[a] - sent[a]

\* A plain transfer burns exactly what was asked, and sends the rest on.
BurnsExactly ==
    phase = "done" /\ lockMode = "Unlocked" =>
        \A a \in Wanted : Burned(a) = amounts[a].burn /\ sent[a] = amounts[a].amount

-----------------------------------------------------------------------------
AssetIds(S, a) == {i \in S : utxos[i].asset = a}

AmountOf == [i \in UtxoId |-> utxos[i].amount]

TotalOf(S, a) == SumFunctionOnSet(AmountOf, AssetIds(S, a))

SpentEarlier(k, a) == TotalOf({inputs[n].utxo : n \in 1..(k - 1)}, a)

RelockedTotal(a) == SumFunctionOnSet(relocked, AssetIds(UtxoId, a))

RelockedChangeTotal(a) == SumFunctionOnSet(relockedChange, AssetIds(UtxoId, a))

\* What is consumed and not produced again, output by output.
Gone(a) == TotalOf(Consumed, a) - RelockedTotal(a) - RelockedChangeTotal(a) - sent[a] - change[a]

\* In every mode nothing is created, and the burn asked for is burned, less exactly
\* what the tokens that stay under their locks exceed the amount by: a payment
\* falls short only of what locked tokens were taken for.
BurnFallsShortByLocks ==
    phase = "done" =>
        \A a \in Wanted :
            LET beyond == RelockedTotal(a) - amounts[a].amount
            IN /\ Gone(a) >= 0
               /\ Gone(a) = amounts[a].burn - (IF beyond > 0 THEN beyond ELSE 0)

\* Only UTXOs the senders may spend, of a wanted asset, are consumed, each one
\* once, and none when its asset was covered by those before it.
NoInputIsSuperfluous ==
    \A k \in 1..Len(inputs) :
        LET i == inputs[k].utxo
        IN /\ utxos[i].spendable
           /\ utxos[i].asset \in Wanted
           /\ \A n \in 1..(k - 1) : inputs[n].utxo # i
           /\ SpentEarlier(k, utxos[i].asset) < Requested(amounts[utxos[i].asset])

\* A lock is honoured: a plain transfer never consumes tokens under a lock, and
\* in Stake mode an input under a lock is marked as such.
LocksAreHonoured ==
    \A k \in 1..Len(inputs) :
        LET u == utxos[inputs[k].utxo]
        IN /\ inputs[k].locked <=> (u.kind = "stakeable" /\ u.stakeableLocktime > AsOf)
           /\ inputs[k].locked => lockMode = "Stake"

\* The call is refused only when all the consumable UTXOs of the senders together
\* do not cover some asset.
RefusalIsJustified ==
    phase = "insufficient" =>
        \E a \in Wanted :
            TotalOf({i \in UtxoId : Consumable(utxos[i], lockMode) /\ Spendable(i)}, a)
                < Requested(amounts[a])

\* Users stake locked tokens before unlocked ones, and the longest lock first.
LongestLockFirst ==
    phase = "done" /\ lockMode = "Stake" =>
        \A i \in Consumed : \A j \in UtxoId \ Consumed :
            /\ utxos[i].asset = utxos[j].asset
            /\ Spendable(j)
            /\ utxos[j].kind = "stakeable"
            => utxos[i].kind = "stakeable" /\ utxos[i].stakeableLocktime >= utxos[j].stakeableLocktime

\* What the caller sees is a promise that is kept in one step or refused: whatever
\* the locks, all the tokens consumed are sent, change, or burned as asked for.
Finished(f) == IF phase = "done" THEN f ELSE [a \in Asset |-> 0]

Promise ==
    INSTANCE SpendPromise WITH
        ask <- [a \in Wanted |-> [amount |-> amounts[a].amount, burn |-> amounts[a].burn]],
        outcome <- CASE phase = "done" -> "kept"
                     [] phase = "insufficient" -> "refused"
                     [] OTHER -> "open",
        consumed <- Finished([a \in Asset |-> TotalOf(Consumed, a)]),
        sent <- Finished([a \in Asset |-> RelockedTotal(a) + sent[a]]),
        change <- Finished([a \in Asset |-> RelockedChangeTotal(a) + change[a]])

KeepsPromise == Promise!Spec
=============================================================================
