----------------------------- MODULE AvmBuilder -----------------------------
(***************************************************************************)
(* The transactions that the UTXOSet of the X-chain builds,                *)
(* src/apis/avm/utxos.ts: each is a function of the set, here the sequence *)
(* of its UTXOs, of the arguments of the call and of the time.             *)
(***************************************************************************)
EXTENDS CoinSelection

CONSTANT Undefined  \* the result of what returns undefined

(* What a transaction moves.  ins, imports: [id, asset, amount, sigs]; outs,
   exported: outputs; states: the outputs of a new asset; ops: [ids, asset,
   sigs, outs]; debited, credited: accounts of the C-chain. *)
NoTx == [ins |-> <<>>, imports |-> <<>>, outs |-> <<>>, exported |-> <<>>, states |-> <<>>, ops |-> <<>>,
         debited |-> <<>>, credited |-> <<>>, owners |-> <<>>]

\* _feeCheck
FeeCheck(fee) == fee > 0

\* getUTXO(id)
Has(utxos, id) == \E u \in ToSet(utxos) : u.id = id
UtxoOf(utxos, id) == CHOOSE u \in ToSet(utxos) : u.id = id

\* The inputs and outputs of a fee alone: none without a fee.
PayFee(utxos, c, now) ==
    IF FeeCheck(c.fee)
    THEN GetMinimumSpendable(utxos, Aad(<<Ask(c.feeAsset, 0, c.fee)>>, <<>>, c.from, c.change), now, 0, 1)
    ELSE [ins |-> <<>>, outs |-> <<>>, change |-> <<>>]

\* The amount and the fee, in one asset or in two.
AmountAndFee(c) ==
    IF c.asset = c.feeAsset THEN <<Ask(c.asset, c.amount, c.fee)>>
    ELSE <<Ask(c.asset, c.amount, 0)>> \o
         (IF FeeCheck(c.fee) THEN <<Ask(c.feeAsset, 0, c.fee)>> ELSE <<>>)

\* getMinimumSpendable(aad, asOf, locktime): the thresholds of the call are not
\* passed on.
SelectFor(utxos, c, now) ==
    GetMinimumSpendable(utxos, Aad(AmountAndFee(c), c.to, c.from, c.change), now, c.locktime, 1)

\* buildBaseTx
BuildBaseTx(utxos, c, now) ==
    LET got == SelectFor(utxos, c, now)
    IN IF c.toThreshold > Len(c.to) THEN Failed
       ELSE IF c.amount = 0 THEN Undefined
       ELSE IF got = Failed THEN Failed
       ELSE [NoTx EXCEPT !.ins = got.ins, !.outs = got.outs \o got.change]

\* Mutant: change and amount are both exported.
BuildExportTxAll(utxos, c, now) ==
    LET got == SelectFor(utxos, c, now)
    IN IF c.amount = 0 THEN Undefined
       ELSE IF got = Failed THEN Failed
       ELSE [NoTx EXCEPT !.ins = got.ins, !.exported = got.outs \o got.change]

\* buildExportTx
BuildExportTx(utxos, c, now) ==
    LET got == SelectFor(utxos, c, now)
    IN IF c.amount = 0 THEN Undefined
       ELSE IF got = Failed THEN Failed
       ELSE [NoTx EXCEPT !.ins = got.ins, !.outs = got.change, !.exported = got.outs]

-----------------------------------------------------------------------------
(* Imports.  What has been paid of the fee after the first k UTXOs, and what is
   left of the k-th. *)
FeePaid(c, atomics, k) ==
    LET seen == AmountIn([i \in 1..k |-> atomics[i].out], c.feeAsset)
    IN IF seen > c.fee THEN c.fee ELSE seen

InFeeAmount(c, atomics, k) ==
    atomics[k].out.amount - (FeePaid(c, atomics, k) - FeePaid(c, atomics, k - 1))

FeeRemaining(c, atomics) == c.fee - FeePaid(c, atomics, Len(atomics))

\* The output for an imported UTXO, unless it went into the fee.
ImportedOut(c, atomics, k) ==
    NewOutput("transfer", atomics[k].out.asset, InFeeAmount(c, atomics, k), c.to, c.locktime, c.toThreshold)

\* An import is signed by the first addresses of its output, whoever sends.
ImportInput(utxo, now) == NewInput(utxo, utxo.out.addresses, now)

\* buildImportTx: if the imports do not pay the fee, the inputs and outputs of
\* the rest of it take the place of those of the imports.
BuildImportTx(utxos, atomics, c, now) ==
    LET imported == FlattenSeq([k \in DOMAIN atomics |->
                        IF InFeeAmount(c, atomics, k) > 0 THEN <<ImportedOut(c, atomics, k)>> ELSE <<>>])
        rest == FeeRemaining(c, atomics)
        got == GetMinimumSpendable(utxos, Aad(<<Ask(c.feeAsset, 0, rest)>>, c.to, c.from, c.change),
                                   now, c.locktime, 1)
        tx == [NoTx EXCEPT !.imports = [k \in DOMAIN atomics |-> ImportInput(atomics[k], now)]]
    IN IF ~FeeCheck(rest) THEN [tx EXCEPT !.outs = imported]
       ELSE IF got = Failed THEN Failed
       ELSE [tx EXCEPT !.ins = got.ins, !.outs = got.outs \o got.change]

-----------------------------------------------------------------------------
(* New assets, and operations on them. *)

\* buildCreateAssetTx: the mint outputs are added to the caller's InitialStates.
AddOutputs(initial, c) ==
    initial \o [k \in DOMAIN c.minters |->
                   NewOutput("mint", c.asset, 0, c.minters[k].addresses, 0, c.minters[k].threshold)]

BuildCreateAssetTx(utxos, initial, c, now) ==
    LET fee == PayFee(utxos, c, now)
    IN IF fee = Failed THEN Failed
       ELSE [NoTx EXCEPT !.ins = fee.ins, !.outs = fee.outs \o fee.change, !.states = AddOutputs(initial, c)]

\* buildCreateNFTAssetTx: one group for each MinterSet
BuildCreateNFTAssetTx(utxos, c, now) ==
    LET fee == PayFee(utxos, c, now)
    IN IF fee = Failed THEN Failed
       ELSE [NoTx EXCEPT
                !.ins = fee.ins, !.outs = fee.outs \o fee.change,
                !.states = [k \in DOMAIN c.minters |->
                    NewOutput("nftMint", c.asset, 0, c.minters[k].addresses, c.locktime, c.minters[k].threshold)]]

\* new TransferableOperation(assetID, ids, op)
NewOperation(utxo, ids, sigs, outs) == [ids |-> ids, asset |-> utxo.out.asset, sigs |-> sigs, outs |-> outs]

OperationTx(fee, ops) == [NoTx EXCEPT !.ins = fee.ins, !.outs = fee.outs \o fee.change, !.ops = ops]

\* buildSECPMintTx(mintOwner, transferOwner, ..., mintUTXOID)
BuildSECPMintTx(utxos, c, now) ==
    LET fee == PayFee(utxos, c, now)
        id == c.ids[1]
        utxo == UtxoOf(utxos, id)
        mintOwner == NewOutput("mint", utxo.out.asset, 0, c.change, 0, 1)
        transferOwner == NewOutput("transfer", utxo.out.asset, c.amount, c.to, c.locktime, c.toThreshold)
    IN IF fee = Failed \/ ~Has(utxos, id) THEN Failed
       ELSE IF utxo.out.kind # "mint" THEN Failed
       ELSE OperationTx(fee, <<NewOperation(utxo, <<id>>, GetSpenders(utxo.out, c.from, now),
                                            <<mintOwner, transferOwner>>)>>)

\* buildCreateNFTMintTx: one operation with the signature indices of all UTXOs
\* is part of the operation of each of them.
BuildCreateNFTMintTx(utxos, c, now) ==
    LET fee == PayFee(utxos, c, now)
        sigs == FlattenSeq([k \in DOMAIN c.ids |-> GetSpenders(UtxoOf(utxos, c.ids[k]).out, c.from, now)])
        Minted(utxo) == <<NewOutput("nft", utxo.out.asset, 0, c.to, c.locktime, c.toThreshold)>>
        Op(k) == LET utxo == UtxoOf(utxos, c.ids[k]) IN NewOperation(utxo, c.ids, sigs, Minted(utxo))
    IN IF fee = Failed \/ \E k \in DOMAIN c.ids : ~Has(utxos, c.ids[k]) THEN Failed
       ELSE OperationTx(fee, [k \in DOMAIN c.ids |-> Op(k)])

\* buildNFTTransferTx
BuildNFTTransferTx(utxos, c, now) ==
    LET fee == PayFee(utxos, c, now)
        Moved(utxo) == <<NewOutput("nft", utxo.out.asset, 0, c.to, c.locktime, c.toThreshold)>>
        Op(k) == LET utxo == UtxoOf(utxos, c.ids[k])
                 IN NewOperation(utxo, <<c.ids[k]>>, GetSpenders(utxo.out, c.from, now), Moved(utxo))
    IN IF fee = Failed \/ \E k \in DOMAIN c.ids : ~Has(utxos, c.ids[k]) THEN Failed
       ELSE OperationTx(fee, [k \in DOMAIN c.ids |-> Op(k)])
=============================================================================
