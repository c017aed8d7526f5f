---------------------------- MODULE AtomicWallet ----------------------------
(***************************************************************************)
(* A wallet that moves tokens within the X-chain and between it and an     *)
(* account of the C-chain.  A call builds one transaction, with what       *)
(* AvmBuilder and EvmBuilder say of src/apis/avm/utxos.ts,                 *)
(* src/apis/evm/utxos.ts and src/apis/evm/api.ts.  X-chain calls build     *)
(* from the UTXOSet that the caller fetched last, imports from what is in  *)
(* the shared memory now.                                                  *)
(*                                                                         *)
(* External: the chains, that accept a transaction or refuse it, and time. *)
(***************************************************************************)
EXTENDS EvmBuilder

CONSTANTS
    Asset,
    Calls,          \* the calls a user may make
    Genesis,        \* the UTXOs of the X-chain at first
    Funded,         \* the account of the C-chain at first: asset -> amount
    Holdings,       \* the outputs a new InitialStates is made with
    FirstId,        \* the ids of new UTXOs are greater
    MaxTxs,         \* bound: transactions accepted
    MaxStates,      \* bound: outputs of an InitialStates that is used again
    MaxTime         \* bound: the last time

Kinds == {"Base", "Export", "SECPMint", "CreateNFTAsset", "CreateNFTMint", "NFTTransfer", "Import",
          "CreateAsset", "EvmImport", "EvmExport", "EvmUtxoExport"}

MinterSets == Seq([addresses : Seq(Nat), threshold : Nat])

Call == [kind : Kinds, asset : Asset, amount : Nat, fee : Nat, feeAsset : Asset, to : Seq(Nat),
         from : Seq(Nat), change : Seq(Nat), locktime : Nat, toThreshold : Nat, ids : Seq(Nat),
         minters : MinterSets, nonce : Nat, again : BOOLEAN, newest : BOOLEAN]

\* Only an AmountOutput has an amount.
Output == {out \in [kind : {"transfer", "mint", "nft", "nftMint"}, asset : Asset, amount : Nat,
                    addresses : Seq(Nat), locktime : Nat, threshold : Nat] :
               out.kind # "transfer" => out.amount = 0}

Utxo == [id : Nat, out : Output]

Sig == [idx : Nat, source : Nat]

Input == [id : Nat, asset : Asset, amount : Nat, sigs : Seq(Sig)]

Selection == [ins : Seq(Input), outs : Seq(Output), change : Seq(Output)]

Operation == [ids : Seq(Nat), asset : Asset, sigs : Seq(Sig), outs : Seq(Output)]

Debit == [asset : Asset, amount : Nat, nonce : Nat]

Credit == [asset : Asset, amount : Nat]

Tx == [ins : Seq(Input), imports : Seq(Input), outs : Seq(Output), exported : Seq(Output),
       states : Seq(Output), ops : Seq(Operation), debited : Seq(Debit), credited : Seq(Credit),
       owners : Seq(Nat)]

\* What the chains let exist: as many addresses as the threshold, each once and
\* in order, and an amount.
SpendableOut(out) ==
    /\ out.threshold \in 1..Len(out.addresses)
    /\ \A i, j \in DOMAIN out.addresses : i < j => out.addresses[i] < out.addresses[j]
    /\ out.kind = "transfer" => out.amount > 0

ASSUME AssetAssumption == AvaxAsset \in Asset

ASSUME OutcomesAssumption ==
    /\ Failed # Undefined
    /\ Failed \notin Selection \cup Tx
    /\ Undefined \notin Tx

\* On the C-chain fees are paid in AVAX.  SECPMint is told one UTXO.
ASSUME CallsAssumption ==
    /\ Calls \subseteq Call
    /\ \A c \in Calls : c.kind \in {"EvmImport", "EvmExport"} => c.feeAsset = AvaxAsset
    /\ \A c \in Calls : c.kind = "SECPMint" => Len(c.ids) = 1

ASSUME GenesisAssumption ==
    /\ FirstId \in Nat
    /\ Genesis \in Seq(Utxo)
    /\ \A k \in DOMAIN Genesis : Genesis[k].id <= FirstId
    /\ \A j, k \in DOMAIN Genesis : Genesis[j].id = Genesis[k].id => j = k
    /\ \A k \in DOMAIN Genesis : SpendableOut(Genesis[k].out)
    /\ Funded \in [Asset -> Nat]
    /\ Holdings \in Seq(Output)

ASSUME BoundsAssumption == MaxTxs \in Nat /\ MaxStates \in Nat /\ MaxTime \in Nat

VARIABLES
    x, toX, toC,    \* the UTXOs, older first, of the X-chain, and what is exported to X and to C
    account, nonce, \* the account of the C-chain
    minted, paid,   \* asset -> amount: made by operations, and burned as a call says
    lastId,         \* the id of the newest UTXO
    utxoset,        \* what getUTXOs of the X-chain answered last
    initial,        \* the caller's InitialStates
    call, tx,       \* the call made last, and its result
    now, txs

vars == <<x, toX, toC, account, nonce, minted, paid, lastId, utxoset, initial, call, tx, now, txs>>

chain == <<x, toX, toC, account, nonce, minted, paid, lastId, txs>>

NoCall == [kind |-> "None"]

None == [a \in Asset |-> 0]

Init ==
    /\ x = Genesis
    /\ toX = <<>> /\ toC = <<>>
    /\ account = Funded
    /\ nonce = 0
    /\ minted = None /\ paid = None
    /\ lastId = FirstId
    /\ utxoset = Genesis
    /\ initial = Holdings
    /\ call = NoCall
    /\ tx = Undefined
    /\ now = 1
    /\ txs = 0

\* getAllUTXOs: in the order in which the node gave them, older or newer first
Arranged(utxos, c) == IF c.newest THEN Reverse(utxos) ELSE utxos

-----------------------------------------------------------------------------
\* The caller: one action for each function.

Idle == call = NoCall /\ txs < MaxTxs

Build(kind, Built(_)) ==
    /\ Idle
    /\ call' \in {c \in Calls : c.kind = kind}
    /\ tx' = Built(call')
    /\ UNCHANGED <<chain, utxoset, now>>

FromX(kind, Built(_, _)) ==
    /\ Build(kind, LAMBDA c : Built(Arranged(utxoset, c), c))
    /\ UNCHANGED initial

Base == FromX("Base", LAMBDA utxos, c : BuildBaseTx(utxos, c, now))
Export == FromX("Export", LAMBDA utxos, c : BuildExportTx(utxos, c, now))
SECPMint == FromX("SECPMint", LAMBDA utxos, c : BuildSECPMintTx(utxos, c, now))
CreateNFTAsset == FromX("CreateNFTAsset", LAMBDA utxos, c : BuildCreateNFTAssetTx(utxos, c, now))
CreateNFTMint == FromX("CreateNFTMint", LAMBDA utxos, c : BuildCreateNFTMintTx(utxos, c, now))
NFTTransfer == FromX("NFTTransfer", LAMBDA utxos, c : BuildNFTTransferTx(utxos, c, now))
\* AVMAPI.buildImportTx: without anything to import it throws.
Import == FromX("Import", LAMBDA utxos, c :
              IF toX = <<>> THEN Failed ELSE BuildImportTx(utxos, Arranged(toX, c), c, now))

\* The InitialStates is used again, or is a new one.
States(c) == IF c.again /\ Len(initial) < MaxStates THEN initial ELSE Holdings

CreateAsset ==
    /\ Build("CreateAsset", LAMBDA c : BuildCreateAssetTx(Arranged(utxoset, c), States(c), c, now))
    /\ initial' = IF tx' = Failed THEN States(call') ELSE AddOutputs(States(call'), call')

EvmImport ==
    /\ Build("EvmImport", LAMBDA c : EvmApiImport(Arranged(toC, c), c, now))
    /\ UNCHANGED initial

EvmUtxoExport ==
    /\ Build("EvmUtxoExport", LAMBDA c : EvmBuildExportTx(Arranged(toC, c), c, now))
    /\ UNCHANGED initial

EvmExport ==
    /\ Build("EvmExport", EvmApiExport)
    /\ UNCHANGED initial

\* AVMAPI.getUTXOs, without persistence, between two transactions
FetchUTXOs ==
    /\ Idle
    /\ utxoset # x
    /\ utxoset' = x
    /\ UNCHANGED <<chain, initial, call, tx, now>>

-----------------------------------------------------------------------------
\* The chains (external).

Built == tx \notin {Failed, Undefined}

Ids(utxos) == {utxos[k].id : k \in DOMAIN utxos}

\* What a transaction consumes: [id, sigs], operations with each of their UTXOs.
Consumed(t) ==
    t.ins \o t.imports \o
    FlattenSeq([k \in DOMAIN t.ops |-> [i \in DOMAIN t.ops[k].ids |->
                    [id |-> t.ops[k].ids[i], sigs |-> t.ops[k].sigs]]])

OpOuts(t) == FlattenSeq([k \in DOMAIN t.ops |-> t.ops[k].outs])

\* As many signatures as the threshold, ascending, of the right addresses.
SignsFor(out, sigs) ==
    /\ out.locktime <= now
    /\ Len(sigs) = out.threshold
    /\ \A i \in DOMAIN sigs : sigs[i].idx + 1 \in DOMAIN out.addresses
                              /\ sigs[i].source = out.addresses[sigs[i].idx + 1]
    /\ \A i, j \in DOMAIN sigs : i < j => sigs[i].idx < sigs[j].idx

InTotal(t, a) == AmountIn(t.ins, a) + AmountIn(t.imports, a) + AmountIn(t.debited, a)

OutTotal(t, a) == AmountIn(t.outs, a) + AmountIn(t.exported, a) + AmountIn(t.credited, a)

\* What is exported to the chain that the call imports to
Source(c) == IF c.kind = "EvmImport" THEN toC ELSE toX

\* Where a transaction has owners, a MultisigKeyChain signs in their order.
Valid(t) ==
    LET all == Consumed(t)
        source == Source(call)
        OutOf(id) == UtxoOf(x \o source, id).out
    IN /\ all \o t.debited # <<>>
       /\ \A i, j \in DOMAIN all : all[i].id = all[j].id => i = j
       /\ Ids(t.imports) \subseteq Ids(source)
       /\ Ids(all) \ Ids(t.imports) \subseteq Ids(x)
       /\ \A i \in DOMAIN all : SignsFor(OutOf(all[i].id), all[i].sigs)
       /\ \A i \in DOMAIN t.ops : \A id \in ToSet(t.ops[i].ids) : OutOf(id).kind # "transfer"
       /\ t.owners # <<>> => t.owners = [k \in DOMAIN t.imports |-> t.imports[k].id]
       /\ \A out \in ToSet(t.outs \o t.exported \o t.states \o OpOuts(t)) : SpendableOut(out)
       /\ \A e \in ToSet(t.credited \o t.debited) : e.amount > 0
       /\ \A e \in ToSet(t.debited) : e.nonce = nonce /\ e.amount <= account[e.asset]
       /\ \A a \in Asset : InTotal(t, a) >= OutTotal(t, a)

\* New UTXOs get ids of their own, greater than all before.
NewUtxos(outs, k) == [i \in DOMAIN outs |-> [id |-> lastId + k + i, out |-> outs[i]]]

Without(utxos, gone) ==
    FlattenSeq([k \in DOMAIN utxos |-> IF utxos[k].id \in gone THEN <<>> ELSE <<utxos[k]>>])

(* What a call is to burn: the fee.  An X-chain import whose UTXOs do not pay
   it loses what it imports of other assets (BuildImportTx). *)
Burns(c, t, a) ==
    IF a = c.feeAsset THEN c.fee
    ELSE IF c.kind = "Import" /\ AmountIn(t.imports, c.feeAsset) < c.fee
         THEN AmountIn(t.imports, a) ELSE 0

Accept ==
    /\ Built /\ Valid(tx)
    /\ LET made == tx.outs \o tx.states \o OpOuts(tx)
           gone == Ids(Consumed(tx))
           exported == NewUtxos(tx.exported, Len(made))
       IN /\ x' = Without(x, gone) \o NewUtxos(made, 0)
          /\ toX' = Without(toX, gone) \o (IF call.kind = "EvmExport" THEN exported ELSE <<>>)
          /\ toC' = Without(toC, gone) \o (IF call.kind = "Export" THEN exported ELSE <<>>)
          /\ lastId' = lastId + Len(made) + Len(tx.exported)
          /\ minted' = [a \in Asset |-> minted[a] + AmountIn(tx.states \o OpOuts(tx), a)]
    /\ account' = [a \in Asset |-> account[a] + AmountIn(tx.credited, a) - AmountIn(tx.debited, a)]
    /\ nonce' = IF tx.debited = <<>> THEN nonce ELSE nonce + 1
    /\ paid' = [a \in Asset |-> paid[a] + Burns(call, tx, a)]
    /\ txs' = txs + 1
    /\ call' = NoCall
    /\ tx' = Undefined
    /\ UNCHANGED <<utxoset, initial, now>>

\* What is refused, by the chain or by the builder, is forgotten.
Refuse ==
    /\ call # NoCall
    /\ ~(Built /\ Valid(tx))
    /\ call' = NoCall
    /\ tx' = Undefined
    /\ UNCHANGED <<chain, utxoset, initial, now>>

Tick ==
    /\ Idle
    /\ now < MaxTime
    /\ now' = now + 1
    /\ UNCHANGED <<chain, utxoset, initial, call, tx>>

Next ==
    \/ Base \/ Export \/ SECPMint \/ CreateNFTAsset \/ CreateNFTMint \/ NFTTransfer \/ Import
    \/ CreateAsset \/ EvmImport \/ EvmExport \/ EvmUtxoExport
    \/ FetchUTXOs \/ Accept \/ Refuse \/ Tick

Spec == Init /\ [][Next]_vars

-----------------------------------------------------------------------------
TypeOK ==
    /\ x \in Seq(Utxo) /\ toX \in Seq(Utxo) /\ toC \in Seq(Utxo)
    /\ account \in [Asset -> Int] /\ nonce \in Nat
    /\ minted \in [Asset -> Nat] /\ paid \in [Asset -> Nat]
    /\ lastId \in Nat
    /\ utxoset \in Seq(Utxo)
    /\ initial \in Seq(Output)
    /\ call \in Calls \cup {NoCall}
    /\ tx \in Tx \cup {Failed, Undefined}
    /\ now \in Nat /\ txs \in Nat

AmountOf(utxos, a) == AmountIn([k \in DOMAIN utxos |-> utxos[k].out], a)

(* Whatever is moved between the UTXOs of the X-chain, the shared memory and
   the account, no token appears or disappears but what an operation mints and
   what a call is to burn: each transaction of the builders takes from its
   inputs exactly its outputs and its fee. *)
Conserved ==
    \A a \in Asset :
        AmountOf(x, a) + AmountOf(toX, a) + AmountOf(toC, a) + account[a] + paid[a]
            = AmountOf(Genesis, a) + Funded[a] + minted[a]

-----------------------------------------------------------------------------
\* The same address twice counts as two spenders.
Repeats(seq) == \E i, j \in DOMAIN seq : i # j /\ seq[i] = seq[j]

\* Nobody can spend what is sent to no address, or to fewer than are to sign.
NobodyIn(addresses, threshold) == addresses = <<>> \/ threshold > Len(addresses) \/ Repeats(addresses)

\* The call is for outputs that the chain does not let exist.
AsksForNothing ==
    \/ NobodyIn(call.to, call.toThreshold) \/ NobodyIn(call.change, 1)
    \/ \E minter \in ToSet(call.minters) : NobodyIn(minter.addresses, minter.threshold)
    \/ call.kind = "CreateAsset" /\ \E out \in ToSet(initial) : ~SpendableOut(out)
    \/ call.kind \in {"SECPMint", "EvmExport"} /\ call.amount = 0

\* Operations on UTXOs which the senders cannot spend, which are tokens, or which
\* are named twice; several NFT mint outputs share one operation.
WrongIds ==
    \/ \E u \in ToSet(x) : /\ u.id \in ToSet(call.ids)
                            /\ (u.out.kind = "transfer" \/ ~MeetsThreshold(u.out, call.from, now))
    \/ Repeats(call.ids)
    \/ call.kind = "CreateNFTMint" /\ Len(call.ids) > 1

\* Without a fee and a UTXO to operate on, there is nothing to consume.
ConsumesNothing ==
    /\ call.fee = 0
    /\ \/ call.kind \in {"CreateAsset", "CreateNFTAsset"}
       \/ call.kind \in {"CreateNFTMint", "NFTTransfer"} /\ call.ids = <<>>

\* What is imported under a lock gets no signatures.  On the C-chain an asset that
\* went into the fee whole is credited with 0, and the inputs alone are sorted.
WrongImport ==
    \/ call.kind = "Import" /\ \E u \in ToSet(toX) : u.out.locktime >= now
    \/ call.kind = "EvmImport" /\ \/ \E u \in ToSet(toC) : u.out.locktime >= now
                                  \/ AmountOf(toC, AvaxAsset) = call.fee
                                  \/ call.newest /\ Len(toC) > 1

\* The nonce and the amounts of an export from the account are the caller's.
WrongAccount ==
    /\ call.kind = "EvmExport"
    /\ \/ call.nonce # nonce
       \/ \E e \in ToSet(tx.debited) : e.amount \notin 1..account[e.asset]

\* What the builders leave to the caller, or get wrong.  The export of UTXOs of the
\* C-chain has no inputs.
Excepted ==
    \/ utxoset # x \/ Repeats(call.from) \/ AsksForNothing \/ WrongIds \/ ConsumesNothing
    \/ WrongImport \/ WrongAccount \/ call.kind = "EvmUtxoExport"

(* What is built from the UTXOs as they are is accepted by the chain: the
   inputs exist and are taken once, each with exactly the signatures its output
   asks for, in order, and the owners are those of the inputs; no output is
   empty or out of reach. *)
NodeAccepts == Built /\ ~Excepted => Valid(tx)

-----------------------------------------------------------------------------
\* An output with what the call asks to be sent
IsAsked(out) ==
    /\ out.kind = "transfer" /\ out.asset = call.asset /\ out.amount = call.amount
    /\ out.addresses = Ascending(call.to) /\ out.locktime = call.locktime

IsChange(out) ==
    /\ out.kind = "transfer" /\ out.addresses = Ascending(call.change)
    /\ out.locktime = 0 /\ out.threshold = 1

IsExported(outs) == Len(outs) = 1 /\ IsAsked(outs[1])

\* What arrives of an import: all that is imported, with what the UTXOs of the
\* X-chain pay of the fee, and without the fee.
Imported(a) == AmountIn(tx.imports, a) + AmountIn(tx.ins, a) - Burns(call, tx, a)

MoveArrives ==
    CASE call.kind = "Base" ->
             \E k \in DOMAIN tx.outs : /\ IsAsked(tx.outs[k])
                                       /\ \A j \in DOMAIN tx.outs \ {k} : IsChange(tx.outs[j])
      [] call.kind = "Export" ->
             IsExported(tx.exported) /\ \A k \in DOMAIN tx.outs : IsChange(tx.outs[k])
      [] call.kind \in {"EvmExport", "EvmUtxoExport"} -> IsExported(tx.exported)
      [] OTHER -> TRUE

ImportArrives ==
    CASE call.kind = "Import" ->
             /\ \A a \in Asset : AmountIn(tx.outs, a) = Imported(a)
             /\ \A k \in DOMAIN tx.outs :
                    IF tx.ins = <<>> THEN tx.outs[k].addresses = Ascending(call.to) ELSE IsChange(tx.outs[k])
      [] call.kind = "EvmImport" -> \A a \in Asset : AmountIn(tx.credited, a) = Imported(a)
      [] OTHER -> TRUE

OperationArrives ==
    CASE call.kind \in {"CreateNFTMint", "NFTTransfer"} ->
             \A i \in ToSet(call.ids) : \E k \in DOMAIN tx.ops :
                 /\ i \in ToSet(tx.ops[k].ids)
                 /\ Len(tx.ops[k].outs) = 1
                 /\ tx.ops[k].outs[1].kind = "nft" /\ tx.ops[k].outs[1].addresses = Ascending(call.to)
      [] call.kind = "SECPMint" ->
             LET outs == tx.ops[1].outs
             IN /\ Len(tx.ops) = 1 /\ Len(outs) = 2
                /\ outs[1].kind = "mint" /\ outs[1].addresses = Ascending(call.change)
                /\ outs[2].kind = "transfer" /\ outs[2].addresses = Ascending(call.to)
                /\ outs[2].amount = call.amount
      [] OTHER -> TRUE

\* One output for each of the minters, and what a new InitialStates is made with
AssetArrives ==
    call.kind \in {"CreateAsset", "CreateNFTAsset"} =>
        /\ \A k \in DOMAIN call.minters : \E i \in DOMAIN tx.states :
               /\ tx.states[i].kind # "transfer"
               /\ tx.states[i].addresses = Ascending(call.minters[k].addresses)
        /\ call.again \/ Len(tx.states) = Len(call.minters)
                                           + (IF call.kind = "CreateAsset" THEN Len(Holdings) ELSE 0)

(* What is asked for arrives: the amount at the receivers, in one output, locked
   as asked, and on the chain it is meant for; the rest as change that is not
   locked; an import, without its fee, at its receivers, unless the fee was taken
   from the UTXOs of the X-chain, as change; an NFT with its new owners; and a new
   asset with each minter once, if its InitialStates is new. *)
WhatIsAskedArrives == Built => MoveArrives /\ ImportArrives /\ OperationArrives /\ AssetArrives

-----------------------------------------------------------------------------
\* The senders of a call can spend a UTXO: it is not locked until now, and has as
\* many of them among its addresses as are to sign.
CanSpend(c, time, u) ==
    /\ u.out.kind = "transfer"
    /\ u.out.locktime < time
    /\ Cardinality(ToSet(u.out.addresses) \cap ToSet(c.from)) >= u.out.threshold

Available(c, time, utxos, a) ==
    SumFunction([k \in DOMAIN utxos |->
        IF utxos[k].out.asset = a /\ CanSpend(c, time, utxos[k]) THEN utxos[k].out.amount ELSE 0])

\* What a call asks for, of an asset
AsksFor(c, a) ==
    (IF a = c.feeAsset THEN c.fee ELSE 0)
    + (IF a = c.asset /\ c.kind \in {"Base", "Export", "EvmUtxoExport"} THEN c.amount ELSE 0)

CannotPay ==
    IF call.kind = "EvmImport" THEN AmountOf(toC, AvaxAsset) < call.fee
    ELSE \E a \in Asset :
             Available(call, now, IF call.kind = "EvmUtxoExport" THEN toC ELSE utxoset, a) < AsksFor(call, a)

\* Nothing is refused that the senders could pay.
RefusalIsJustified ==
    tx = Failed =>
        \/ CannotPay
        \/ call.kind = "Import" /\ toX = <<>>
        \/ call.kind = "EvmImport" /\ toC = <<>>
        \/ call.kind = "EvmUtxoExport" /\ call.feeAsset # call.asset
        \/ call.kind = "Base" /\ call.toThreshold > Len(call.to)
        \/ \E i \in ToSet(call.ids) : i \notin Ids(utxoset)
        \/ call.kind = "SECPMint" /\ \E u \in ToSet(utxoset) : u.id \in ToSet(call.ids) /\ u.out.kind # "mint"
=============================================================================
