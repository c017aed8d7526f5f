--------------------------- MODULE CoinSelection ---------------------------
(***************************************************************************)
(* How the X-chain and the C-chain select UTXOs: UTXOSet.getMinimumSpend-  *)
(* able of src/apis/avm/utxos.ts and src/apis/evm/utxos.ts, which are the  *)
(* same, over the spenders of an output, src/common/output.ts.             *)
(*                                                                         *)
(* An address is a number, the numbers being in the order of the           *)
(* addresses; the addresses of an output are in that order.                *)
(***************************************************************************)
EXTENDS AssetAmount, SequencesExt

CONSTANT Failed     \* the result of what throws

\* The addresses in their order, as often as they are given
Ascending(addresses) ==
    LET p == CHOOSE q \in Bijection(DOMAIN addresses, DOMAIN addresses) :
                 \A i, j \in DOMAIN addresses : i < j => addresses[q[i]] <= addresses[q[j]]
    IN [i \in DOMAIN addresses |-> addresses[p[i]]]

\* new SECPTransferOutput, NFTMintOutput, ...: OutputOwners sorts the addresses
\* and takes 1 for a threshold of 0.
NewOutput(kind, asset, amount, addresses, locktime, threshold) ==
    [kind |-> kind, asset |-> asset, amount |-> amount,
     addresses |-> Ascending(addresses),
     locktime |-> locktime, threshold |-> IF threshold = 0 THEN 1 ELSE threshold]

\* The spenders, each with its position in the output: as many of these
\* addresses as the threshold asks for, in the order of the output.
QualifiedFor(out, addresses) ==
    FlattenSeq([i \in DOMAIN out.addresses |->
        FlattenSeq([j \in DOMAIN addresses |->
            IF addresses[j] = out.addresses[i]
            THEN <<[idx |-> i - 1, source |-> addresses[j]]>> ELSE <<>>])])

\* Mutant: all addresses that qualify, not as many as the threshold.
GetSpendersAll(out, addresses, now) ==
    IF now <= out.locktime THEN <<>> ELSE QualifiedFor(out, addresses)

\* getSpenders(addresses, asOf) with getAddressIdx of each
GetSpenders(out, addresses, now) ==
    LET qualified == QualifiedFor(out, addresses)
    IN IF now <= out.locktime THEN <<>>
       ELSE SubSeq(qualified, 1, IF Len(qualified) < out.threshold THEN Len(qualified) ELSE out.threshold)

\* meetsThreshold(addresses, asOf)
MeetsThreshold(out, addresses, now) == Len(GetSpenders(out, addresses, now)) >= out.threshold

\* new TransferableInput(..., new SECPTransferInput(amount)) with the signature
\* index of each spender
NewInput(utxo, addresses, now) ==
    [id |-> utxo.id, asset |-> utxo.out.asset, amount |-> utxo.out.amount,
     sigs |-> GetSpenders(utxo.out, addresses, now)]

-----------------------------------------------------------------------------
\* What the entries of a sequence, inputs or outputs, hold of an asset.
AmountIn(seq, asset) ==
    SumFunction([k \in DOMAIN seq |-> IF seq[k].asset = asset THEN seq[k].amount ELSE 0])

(* An AssetAmountDestination: asks are the amounts in the order in which they
   were added, no asset twice. *)
Aad(asks, to, from, change) == [asks |-> asks, to |-> to, from |-> from, change |-> change]

Ask(asset, amount, burn) == [asset |-> asset, amount |-> amount, burn |-> burn]

AssetsOf(aad) == {aad.asks[k].asset : k \in DOMAIN aad.asks}

Unspent(aad) ==
    [a \in AssetsOf(aad) |->
        LET ask == CHOOSE k \in ToSet(aad.asks) : k.asset = a IN NewAssetAmount(ask.amount, ask.burn)]

\* A UTXO is consumed if it has an amount of an asset that is still short.
Consume(aad, now, done, utxo) ==
    IF /\ ~CanComplete(done.amounts)
       /\ utxo.out.kind = "transfer"
       /\ utxo.out.asset \in AssetsOf(aad)
       /\ MeetsThreshold(utxo.out, aad.from, now)
       /\ ~done.amounts[utxo.out.asset].finished
    THEN [amounts |-> [done.amounts EXCEPT ![utxo.out.asset] = SpendAmount(@, utxo.out.amount, FALSE)],
          ins |-> Append(done.ins, NewInput(utxo, aad.from, now))]
    ELSE done

Selected(utxos, aad, now) ==
    FoldLeft(LAMBDA done, u : Consume(aad, now, done, u), [amounts |-> Unspent(aad), ins |-> <<>>], utxos)

\* The outputs of the amounts that are more than 0, asset by asset.
OutputsOf(aad, amounts, addresses, locktime, threshold) ==
    FlattenSeq([k \in DOMAIN aad.asks |->
        LET asset == aad.asks[k].asset
        IN IF amounts[asset] > 0
           THEN <<NewOutput("transfer", asset, amounts[asset], addresses, locktime, threshold)>> ELSE <<>>])

\* getMinimumSpendable(aad, asOf, locktime, threshold): the change is never
\* locked and needs one signature.
GetMinimumSpendable(utxos, aad, now, locktime, threshold) ==
    LET selected == Selected(utxos, aad, now)
        amounts == [a \in DOMAIN selected.amounts |-> selected.amounts[a].amount]
        changes == [a \in DOMAIN selected.amounts |-> selected.amounts[a].change]
    IN IF ~CanComplete(selected.amounts) THEN Failed
       ELSE [ins |-> selected.ins,
             outs |-> OutputsOf(aad, amounts, aad.to, locktime, threshold),
             change |-> OutputsOf(aad, changes, aad.change, 0, 1)]
=============================================================================
