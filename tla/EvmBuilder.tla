----------------------------- MODULE EvmBuilder -----------------------------
(***************************************************************************)
(* The atomic transactions of the C-chain: buildImportTx and buildExportTx *)
(* of the UTXOSet, src/apis/evm/utxos.ts, with the checks of ImportTx,     *)
(* src/apis/evm/importtx.ts, and those of the EVMAPI, src/apis/evm/api.ts, *)
(* that builds exports from the balance of an account.                     *)
(***************************************************************************)
EXTENDS AvmBuilder

CONSTANT AvaxAsset   \* the asset the network pays its fees in

\* What remains of the UTXOs of an asset after the fee.
CreditedFor(c, atomics, asset) ==
    AmountIn([k \in DOMAIN atomics |->
                 [asset |-> atomics[k].out.asset, amount |-> InFeeAmount(c, atomics, k)]], asset)

\* validateOuts(fee): no asset twice, and what is not paid out covers the fee.
ValidateOuts(imports, credited, fee) ==
    /\ \A i, j \in DOMAIN credited : credited[i].asset = credited[j].asset => i = j
    /\ AmountIn(imports, AvaxAsset) - AmountIn(credited, AvaxAsset) >= fee

\* TransferableInput.comparator
ById(ins) ==
    CHOOSE s \in [DOMAIN ins -> ToSet(ins)] : \A i, j \in DOMAIN ins : i < j => s[i].id < s[j].id

\* buildImportTx: the inputs are sorted, the owners stay in the order of the
\* UTXOs.  An asset that went into the fee whole is credited with 0.
EvmBuildImportTx(atomics, c, now) ==
    LET ins == ById([k \in DOMAIN atomics |-> ImportInput(atomics[k], now)])
        assets == SetToSeq({atomics[k].out.asset : k \in DOMAIN atomics})
        outs == [k \in DOMAIN assets |->
                    [asset |-> assets[k], amount |-> CreditedFor(c, atomics, assets[k])]]
    IN IF ~ValidateOuts(ins, outs, c.fee) THEN Failed
       ELSE [NoTx EXCEPT !.imports = ins, !.credited = outs,
                         !.owners = [k \in DOMAIN atomics |-> atomics[k].id]]

\* EVMAPI.buildImportTx
EvmApiImport(atomics, c, now) == IF atomics = <<>> THEN Failed ELSE EvmBuildImportTx(atomics, c, now)

\* UTXOSet.buildExportTx: the inputs that were selected are left out.
EvmBuildExportTx(utxos, c, now) ==
    LET got == GetMinimumSpendable(utxos, Aad(<<Ask(c.asset, c.amount, c.fee)>>, c.to, c.from, c.change),
                                   now, c.locktime, 1)
    IN IF c.amount = 0 THEN Undefined
       ELSE IF c.feeAsset # c.asset THEN Failed
       ELSE IF got = Failed THEN Failed
       ELSE [NoTx EXCEPT !.exported = got.outs]

EvmInput(asset, amount, nonce) == [asset |-> asset, amount |-> amount, nonce |-> nonce]

\* Mutant: the fee is not taken from the account.
EvmInputsUnpaid(c) ==
    IF c.asset = AvaxAsset THEN <<EvmInput(c.asset, c.amount, c.nonce)>>
    ELSE <<EvmInput(AvaxAsset, c.fee, c.nonce), EvmInput(c.asset, c.amount, c.nonce)>>

\* The inputs of an export: amount and fee together, or each by itself.
EvmInputs(c) ==
    IF c.asset = AvaxAsset THEN <<EvmInput(c.asset, c.amount + c.fee, c.nonce)>>
    ELSE <<EvmInput(AvaxAsset, c.fee, c.nonce), EvmInput(c.asset, c.amount, c.nonce)>>

\* EVMAPI.buildExportTx
EvmApiExport(c) ==
    [NoTx EXCEPT
        !.debited = EvmInputs(c),
        !.exported = <<NewOutput("transfer", c.asset, c.amount, c.to, c.locktime, c.toThreshold)>>]
=============================================================================
