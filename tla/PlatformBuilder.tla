-------------------------- MODULE PlatformBuilder --------------------------
(***************************************************************************)
(* The transaction builder of the P-chain, src/apis/platformvm/builder.ts, *)
(* with the signing of what it builds.  A build function checks its        *)
(* arguments and asks its spender for funds: the UTXOSet, or in Camino the *)
(* Spender, src/apis/platformvm/spender.ts, that asks the node.  When the  *)
(* answer arrives it assembles the transaction and attaches the owners     *)
(* from which a MultisigKeyChain makes the credentials.                    *)
(*                                                                         *)
(* One action per build function up to its await (Build...), one for what  *)
(* comes after it (Finish...).  Outputs are kept as the total of each      *)
(* asset; an owner as what it owns, with the number of its addresses and   *)
(* its threshold.                                                          *)
(***************************************************************************)
EXTENDS SpendContract, SequencesExt

CONSTANTS
    Calls,          \* the calls that may be made
    Funds           \* the UTXOs of the senders: [id, asset, amount]

\* The functions that ask for their fee only, and give the same inputs and
\* outputs to a transaction of their own.
FeeOnlyKinds == {"AddSubnetValidator", "CreateSubnet", "CreateChain", "AddressState", "RegisterNode",
                 "UnlockDeposit", "Claim", "MultisigAlias", "AddDepositOffer", "AddVote"}

Kinds == FeeOnlyKinds \cup {"Base", "Import", "Export", "AddDelegator", "AddValidator",
                            "CaminoAddValidator", "Deposit", "AddProposal"}

\* A UTXO; ids are in the order of TransferableInput.comparator().
Input == [id : Nat, asset : Asset, amount : Nat \ {0}]

\* What is wrong with a claimed amount: no id, or the signature indices do not
\* match the owner (ClaimAmountParams).
ClaimFaults == {"none", "id", "count", "bound"}

(* valid: thresholds and times pass the checks; imports: the UTXOs of the other
   chain; auth: the signature indices of the subnet, alias or offer owners;
   named: the optional party is given (the executor, the node that is new while
   none is old, the id of the alias). *)
Call == [kind : Kinds, asset : Asset, amount : Nat, feeAsset : Asset, fee : Nat, valid : BOOLEAN,
         version : Nat, imports : Seq(Input), auth : Seq(Nat), named : BOOLEAN,
         claims : Seq([amount : Nat, fault : ClaimFaults])]

\* What is imported is taken from a UTXOSet: no id is there twice.
ASSUME CallsAssumption ==
    /\ Calls \subseteq Call
    /\ \A c \in Calls : \A j, k \in DOMAIN c.imports : c.imports[j].id = c.imports[k].id => j = k

ASSUME FundsAssumption ==
    /\ Funds \subseteq Input /\ IsFiniteSet(Funds)
    /\ \A u, v \in Funds : u.id = v.id => u = v

VARIABLES
    caminoEnabled,
    call,
    phase,          \* "called", "asking", "answered", "built", "signed", or one without
                    \* a result: "undefined", "failed", "unsigned"
    ask,            \* aad.amounts: asset -> amount, burn
    lockMode,
    answer,         \* the inputs, outputs, change and owners of aad
    tx,
    credentials     \* what each credential of the signed transaction is for

vars == <<caminoEnabled, call, phase, ask, lockMode, answer, tx, credentials>>

given == <<caminoEnabled, call>>

-----------------------------------------------------------------------------
\* new OutputOwners([address], 0, 1), for the k-th thing of a sort.
Owner(sort, k) == [of |-> <<sort, k>>, addresses |-> 1, threshold |-> 1]

\* new OutputOwners(addresses, 0, threshold): a threshold of 0 becomes 1.
OwnerOf(sort, addresses, threshold) ==
    [of |-> <<sort, 1>>, addresses |-> addresses, threshold |-> IF threshold = 0 THEN 1 ELSE threshold]

\* What inputs hold, by asset.
Total(ins) ==
    [a \in Asset |-> SumFunctionOnSet([u \in ins |-> u.amount], {u \in ins : u.asset = a})]

NoAnswer == [ins |-> <<>>, outs |-> Nothing, change |-> Nothing, owners |-> <<>>]

NoTx == [ins |-> <<>>, imports |-> <<>>, outs |-> Nothing, exported |-> Nothing,
         staked |-> Nothing, owners |-> <<>>]

\* inputs.sort(TransferableInput.comparator())
Sorted(ins) ==
    CHOOSE s \in [1..Cardinality(ins) -> ins] : \A j, k \in DOMAIN s : j < k => s[j].id < s[k].id

Init ==
    /\ caminoEnabled \in BOOLEAN
    /\ call \in Calls
    /\ phase = "called"
    /\ ask = <<>>
    /\ lockMode = "Unlocked"
    /\ answer = NoAnswer
    /\ tx = NoTx
    /\ credentials = <<>>

-----------------------------------------------------------------------------
\* Up to the await.

Called(kinds) == phase = "called" /\ call.kind \in kinds

\* _feeCheck
FeeCheck(fee) == fee > 0

\* addAssetAmount(feeAssetID, amount, fee)
FeeAmount(amount, fee) == [a \in {call.feeAsset} |-> [amount |-> amount, burn |-> fee]]

\* Mutant: the fee is added even when it is paid in another asset.
AmountAndFeeTwice ==
    [a \in {call.asset, call.feeAsset} |->
        [amount |-> IF a = call.asset THEN call.amount ELSE 0, burn |-> call.fee]]

\* The amount and the fee, in one asset or in two.
AmountAndFee ==
    [a \in {call.asset} \cup (IF FeeCheck(call.fee) THEN {call.feeAsset} ELSE {}) |->
        [amount |-> IF a = call.asset THEN call.amount ELSE 0,
         burn |-> IF a = call.feeAsset THEN call.fee ELSE 0]]

\* getMinimumSpendable(aad, asOf, lockTime, mode) is awaited.
AskFor(amounts, mode) ==
    /\ phase' = "asking"
    /\ ask' = amounts
    /\ lockMode' = mode
    /\ UNCHANGED <<given, answer, tx, credentials>>

End(how) ==
    /\ phase' = how
    /\ UNCHANGED <<given, ask, lockMode, answer, tx, credentials>>

\* Without a fee there is nothing to ask for.
AskForFee(amount, fee, mode) ==
    \/ FeeCheck(fee) /\ AskFor(FeeAmount(amount, fee), mode)
    \/ ~FeeCheck(fee) /\ End("answered")

\* A threshold above the number of addresses is an error, a zero amount returns
\* undefined.
BuildBaseTx ==
    /\ Called({"Base"})
    /\ \/ ~call.valid /\ End("failed")
       \/ call.valid /\ call.amount = 0 /\ End("undefined")
       \/ call.valid /\ call.amount > 0 /\ AskFor(AmountAndFee, "Unlocked")

BuildExportTx ==
    /\ Called({"Export"})
    /\ \/ call.amount = 0 /\ End("undefined")
       \/ call.amount > 0 /\ call.feeAsset # call.asset /\ End("failed")
       \/ /\ call.amount > 0
          /\ call.feeAsset = call.asset
          /\ AskFor(FeeAmount(0, call.fee + call.amount), "Unlocked")

\* AddValidator and AddDelegator: not in Camino; the times must be in order.
BuildStakeTx ==
    /\ Called({"AddValidator", "AddDelegator"})
    /\ \/ (caminoEnabled \/ ~call.valid) /\ End("failed")
       \/ ~caminoEnabled /\ call.valid /\ AskFor(AmountAndFee, "Stake")

BuildCaminoAddValidatorTx ==
    /\ Called({"CaminoAddValidator"})
    /\ \/ ~call.valid /\ End("failed")
       \/ call.valid /\ AskFor([a \in {call.asset} |-> [amount |-> call.amount, burn |-> 0]], "Bond")

BuildAddProposalTx == Called({"AddProposal"}) /\ AskFor(AmountAndFee, "Bond")

BuildAddSubnetValidatorTx ==
    /\ Called({"AddSubnetValidator"})
    /\ \/ ~call.valid /\ End("failed")
       \/ call.valid /\ AskForFee(0, call.fee, IF caminoEnabled THEN "Unlocked" ELSE "Stake")

\* The other transactions that spend their fee only.
BuildFeeOnlyTx ==
    /\ Called(FeeOnlyKinds \ {"AddSubnetValidator"})
    /\ AskForFee(0, call.fee, "Unlocked")

BuildDepositTx == Called({"Deposit"}) /\ AskForFee(call.amount, call.fee, "Deposit")

-----------------------------------------------------------------------------
\* The fee an import pays with what it imports.

ImportFeeStep(c, acc, u) ==
    LET pays == FeeCheck(c.fee) /\ acc.feepaid < c.fee /\ u.asset = c.feeAsset
        feepaid == acc.feepaid + u.amount
        infeeamount == IF ~pays THEN u.amount
                       ELSE IF feepaid >= c.fee THEN feepaid - c.fee ELSE 0
    IN [feepaid |-> IF ~pays THEN acc.feepaid
                    ELSE IF feepaid >= c.fee THEN c.fee ELSE feepaid,
        outs |-> [acc.outs EXCEPT ![u.asset] = @ + infeeamount]]

ImportFee(c) ==
    FoldLeft(LAMBDA acc, u : ImportFeeStep(c, acc, u), [feepaid |-> 0, outs |-> Nothing], c.imports)

FeeRemaining(c) == c.fee - ImportFee(c).feepaid

\* Outputs and fee are computed from the imports; a remaining fee is asked for.
BuildImportTx == Called({"Import"}) /\ AskForFee(0, FeeRemaining(call), "Unlocked")

-----------------------------------------------------------------------------
\* The spender.

\* Whatever the spender, the answer keeps the contract (see PlatformSpend for
\* UTXOSet).  The Spender of Camino takes one asset; the node's answer has the
\* owner of every input and counts the change with the outputs.
SpenderAnswers ==
    /\ phase = "asking"
    /\ caminoEnabled => \E a \in Asset : DOMAIN ask = {a}
    /\ \E S \in SUBSET Funds : \E sent \in [Asset -> 0..(call.amount + call.fee)] :
        LET consumed == Total(S)
            change == [a \in Asset |-> IF a \in DOMAIN ask
                                       THEN consumed[a] - ask[a].amount - ask[a].burn ELSE 0]
        IN /\ Honours(ask, lockMode, consumed, sent, change)
           /\ answer' =
                [ins |-> Sorted(S),
                 outs |-> IF caminoEnabled THEN Plus(sent, change) ELSE sent,
                 change |-> IF caminoEnabled THEN Nothing ELSE change,
                 owners |-> IF caminoEnabled
                            THEN [k \in 1..Cardinality(S) |-> Owner("in", Sorted(S)[k].id)]
                            ELSE <<>>]
    /\ phase' = "answered"
    /\ UNCHANGED <<given, ask, lockMode, tx, credentials>>

\* Insufficient funds, an error of the node, or more than one asset in Camino:
\* the error is thrown.
SpenderRefuses == phase = "asking" /\ End("failed")

-----------------------------------------------------------------------------
\* After the await, or at once if nothing was asked.

Answered(kinds) == phase = "answered" /\ call.kind \in kinds

\* aad.getAllOutputs()
AllOutputs == Plus(answer.outs, answer.change)

\* A BaseTx with the inputs of the answer.
TxWith(outs, owners) == [NoTx EXCEPT !.ins = answer.ins, !.outs = outs, !.owners = owners]

Finish(t) ==
    /\ tx' = t
    /\ phase' = "built"
    /\ UNCHANGED <<given, ask, lockMode, answer, credentials>>

\* BaseTx, CreateSubnetTx: nobody but the owners of the inputs signs.
FinishPlainTx ==
    /\ Answered({"Base", "CreateSubnet"})
    /\ Finish(TxWith(AllOutputs, answer.owners))

\* The fee paid with funds of the sender replaces the outputs made of the
\* imports; only then owners are given, in the order of the UTXOs imported.
FinishImportTx ==
    /\ Answered({"Import"})
    /\ LET importOwners == [k \in 1..Len(call.imports) |-> Owner("import", call.imports[k].id)]
           t == IF FeeCheck(FeeRemaining(call)) THEN TxWith(AllOutputs, answer.owners \o importOwners)
                ELSE TxWith(ImportFee(call).outs, <<>>)
       IN Finish([t EXCEPT !.imports = call.imports])

\* The amount was asked for as a burn, and is what is exported.
FinishExportTx ==
    /\ Answered({"Export"})
    /\ Finish([TxWith(AllOutputs, answer.owners) EXCEPT !.exported[call.asset] = call.amount])

\* Mutant: the change is staked.
FinishStakeTxSwapped ==
    /\ Answered({"AddValidator", "AddDelegator"})
    /\ Finish([TxWith(answer.outs, answer.owners) EXCEPT !.staked = answer.change])

\* Only what the spender sent is staked, the change is an output.
FinishStakeTx ==
    /\ Answered({"AddValidator", "AddDelegator"})
    /\ Finish([TxWith(answer.change, answer.owners) EXCEPT !.staked = answer.outs])

\* Mutant: the node's owner comes before that of the subnet.
NodeThenSubnet ==
    (IF caminoEnabled THEN <<Owner("node", 1)>> ELSE <<>>)
        \o <<OwnerOf("subnet", Len(call.auth), Len(call.auth))>>

SubnetThenNode ==
    <<OwnerOf("subnet", Len(call.auth), Len(call.auth))>>
        \o (IF caminoEnabled THEN <<Owner("node", 1)>> ELSE <<>>)

FinishAddSubnetValidatorTx ==
    /\ Answered({"AddSubnetValidator"})
    /\ Finish(TxWith(AllOutputs, answer.owners \o SubnetThenNode))

FinishCreateChainTx ==
    /\ Answered({"CreateChain"})
    /\ Finish(TxWith(AllOutputs,
                     Append(answer.owners, OwnerOf("subnet", Len(call.auth), Len(call.auth)))))

\* One more party signs: the owner of the node, the creator of the offer, the
\* proposer, the voter.
FinishOnePartyTx ==
    /\ Answered({"CaminoAddValidator", "AddDepositOffer", "AddProposal", "AddVote"})
    /\ Finish(TxWith(AllOutputs, Append(answer.owners, Owner("party", 1))))

\* The owners of the answer are not taken over.
FinishAddressStateTx ==
    /\ Answered({"AddressState"})
    /\ Finish(TxWith(AllOutputs, IF call.named THEN <<Owner("party", 1)>> ELSE <<>>))

\* Without a new node, or to replace an old one, an OutputOwners of nobody
\* stands for the node.
FinishRegisterNodeTx ==
    /\ Answered({"RegisterNode"})
    /\ LET node == IF call.named THEN Owner("node", 1) ELSE OwnerOf("node", 0, 0)
       IN Finish(TxWith(AllOutputs, answer.owners \o <<node, Owner("member", 1)>>))

\* The owners of the offer are as many pseudo addresses as the last signature
\* index says.
OfferOwner ==
    OwnerOf("offer", IF call.auth = <<>> THEN 0 ELSE Last(call.auth), Len(call.auth))

FinishDepositTx ==
    /\ Answered({"Deposit"})
    /\ LET parties == IF call.version > 0 THEN <<Owner("party", 1), OfferOwner>> ELSE <<>>
       IN Finish(TxWith(AllOutputs, answer.owners \o parties))

\* UnlockDepositTx never gets owners.
FinishUnlockDepositTx ==
    /\ Answered({"UnlockDeposit"})
    /\ Finish(TxWith(AllOutputs, <<>>))

Claimed(c) == SumFunction([k \in DOMAIN c.claims |-> c.claims[k].amount])

\* Every claim has an output in the fee asset and an owner; the first one with a
\* fault throws.
FinishClaimTx ==
    /\ Answered({"Claim"})
    /\ \/ /\ \E k \in DOMAIN call.claims : call.claims[k].fault # "none"
          /\ End("failed")
       \/ /\ \A k \in DOMAIN call.claims : call.claims[k].fault = "none"
          /\ Finish(TxWith([AllOutputs EXCEPT ![call.feeAsset] = @ + Claimed(call)],
                           answer.owners \o [k \in DOMAIN call.claims |-> Owner("claim", k)]))

\* A new alias has no id, and nobody to authorise the change.
FinishMultisigAliasTx ==
    /\ Answered({"MultisigAlias"})
    /\ Finish(TxWith(AllOutputs,
                     answer.owners \o (IF call.named THEN <<Owner("party", 1)>> ELSE <<>>)))

-----------------------------------------------------------------------------
\* UnsignedTx.sign

\* What a transaction of the kind is signed for besides its inputs; the body of
\* sign() of its class.
Authorisations ==
    CASE call.kind = "AddSubnetValidator" ->
            IF caminoEnabled THEN <<<<"subnet", 1>>, <<"node", 1>>>> ELSE <<<<"subnet", 1>>>>
      [] call.kind = "CreateChain" -> <<<<"subnet", 1>>>>
      [] call.kind \in {"CaminoAddValidator", "AddDepositOffer", "AddProposal", "AddVote"} ->
            <<<<"party", 1>>>>
      [] call.kind = "AddressState" -> IF call.version > 0 THEN <<<<"party", 1>>>> ELSE <<>>
      [] call.kind = "RegisterNode" -> <<<<"node", 1>>, <<"member", 1>>>>
      [] call.kind = "Deposit" ->
            IF call.version > 0 THEN <<<<"party", 1>>, <<"offer", 1>>>> ELSE <<>>
      [] call.kind = "Claim" -> [k \in DOMAIN call.claims |-> <<"claim", k>>]
      [] OTHER -> <<>>

\* The inputs in the order of the signed bytes: toBuffer() has sorted the imports.
InBytes(t) ==
    [k \in DOMAIN t.ins |-> <<"in", t.ins[k].id>>]
        \o [k \in DOMAIN t.imports |-> <<"import", Sorted(ToSet(t.imports))[k].id>>]

SignedFor(t) == InBytes(t) \o Authorisations

\* With a key chain that has all the keys.  MultisigAliasTx.sign reads signature
\* indices as lists of signature indices: with any of them it throws.
SignWithKeys ==
    /\ phase = "built"
    /\ \/ /\ call.kind = "MultisigAlias" /\ call.auth # <<>>
          /\ End("unsigned")
       \/ /\ call.kind = "MultisigAlias" => call.auth = <<>>
          /\ phase' = "signed"
          /\ credentials' = SignedFor(tx)
          /\ UNCHANGED <<given, ask, lockMode, answer, tx>>

\* With a MultisigKeyChain made of the owners of the transaction: one credential
\* for each owner, if the keys of all addresses together meet its threshold (see
\* MultisigKeyChain).  Only the Spender gives owners.
SignWithOwners ==
    /\ phase = "built"
    /\ caminoEnabled
    /\ \/ /\ \E k \in DOMAIN tx.owners : tx.owners[k].addresses < tx.owners[k].threshold
          /\ End("unsigned")
       \/ /\ \A k \in DOMAIN tx.owners : tx.owners[k].addresses >= tx.owners[k].threshold
          /\ phase' = "signed"
          /\ credentials' = [k \in DOMAIN tx.owners |-> tx.owners[k].of]
          /\ UNCHANGED <<given, ask, lockMode, answer, tx>>

Build ==
    \/ BuildBaseTx
    \/ BuildImportTx
    \/ BuildExportTx
    \/ BuildStakeTx
    \/ BuildCaminoAddValidatorTx
    \/ BuildAddProposalTx
    \/ BuildAddSubnetValidatorTx
    \/ BuildFeeOnlyTx
    \/ BuildDepositTx

FinishTx ==
    \/ FinishPlainTx
    \/ FinishImportTx
    \/ FinishExportTx
    \/ FinishStakeTx
    \/ FinishAddSubnetValidatorTx
    \/ FinishCreateChainTx
    \/ FinishOnePartyTx
    \/ FinishAddressStateTx
    \/ FinishRegisterNodeTx
    \/ FinishDepositTx
    \/ FinishUnlockDepositTx
    \/ FinishClaimTx
    \/ FinishMultisigAliasTx

Next ==
    \/ Build
    \/ SpenderAnswers
    \/ SpenderRefuses
    \/ FinishTx
    \/ SignWithKeys
    \/ SignWithOwners

Spec == Init /\ [][Next]_vars

-----------------------------------------------------------------------------
Made == phase \in {"built", "signed", "unsigned"}

In(a) == Total(ToSet(tx.ins))[a] + Total(ToSet(tx.imports))[a]

Out(a) == tx.outs[a] + tx.exported[a] + tx.staked[a]

\* The fee of a CaminoAddValidator is none, whatever it is called with.
FeeOf(a) == IF a = call.feeAsset /\ call.kind # "CaminoAddValidator" THEN call.fee ELSE 0

MintedOf(a) == IF call.kind = "Claim" /\ a = call.feeAsset THEN Claimed(call) ELSE 0

\* An import that cannot pay its fee drops the outputs of the other assets.
DropsImports ==
    /\ call.kind = "Import"
    /\ FeeCheck(FeeRemaining(call))
    /\ \E k \in DOMAIN call.imports : call.imports[k].asset # call.feeAsset

\* Every transaction balances: what its inputs, imports and claims bring and its
\* outputs do not hold is the fee, in the asset of the fee, no matter in how many
\* assets and over which of the outputs the builder spreads it.
BurnsTheFee ==
    Made /\ ~DropsImports =>
        \A a \in Asset :
            LET burned == In(a) + MintedOf(a) - Out(a)
            IN IF lockMode = "Stake" THEN burned >= 0 /\ burned <= FeeOf(a) ELSE burned = FeeOf(a)

\* What is exported, staked, sent or locked is the amount the caller named, up to
\* the change and the fee; a deposit without a fee is the exception: it has no
\* outputs at all.
AmountGoesWhereItShould ==
    Made =>
        /\ call.kind = "Export" => tx.exported = [Nothing EXCEPT ![call.asset] = call.amount]
        /\ call.kind \in {"AddValidator", "AddDelegator"} =>
               /\ tx.staked[call.asset] >= call.amount
               /\ tx.staked[call.asset] <= call.amount + call.fee
        /\ call.kind \in {"Base", "CaminoAddValidator", "AddProposal"} =>
               tx.outs[call.asset] >= call.amount
        /\ call.kind = "Deposit" /\ FeeCheck(call.fee) => tx.outs[call.feeAsset] >= call.amount

\* The kinds whose owners are those of the signatures, and have as many addresses
\* as their threshold asks for.
AlignedKinds == Kinds \ {"AddressState", "UnlockDeposit", "Deposit", "RegisterNode"}

\* An import that pays its fee has no owners.  The others have those of the
\* imports in the order of the UTXOs given, which toBuffer() need not keep.
HasItsOwners ==
    /\ call.kind \in AlignedKinds
    /\ call.kind = "Import" => /\ FeeCheck(FeeRemaining(call))
                               /\ call.imports = Sorted(ToSet(call.imports))

\* The default of subnetAuth: an owner without addresses, which cannot be satisfied.
NobodySigns == call.kind \in {"AddSubnetValidator", "CreateChain"} /\ call.auth = <<>>

\* Who besides the owners of the inputs has to sign: those sign() signs for, and
\* the owner of an alias that is changed, whom it forgets.
Parties ==
    IF call.kind = "MultisigAlias" THEN (IF call.named THEN <<<<"party", 1>>>> ELSE <<>>)
    ELSE Authorisations

\* In Camino, a multisig chain made of the owners signs what has to be signed: a
\* credential for each input, in the order of the serialised inputs, and then of
\* the serialised imports, followed by those of the other parties; and it can sign.
OwnersFollowSignatures ==
    Made /\ caminoEnabled /\ HasItsOwners =>
        /\ [k \in DOMAIN tx.owners |-> tx.owners[k].of] = InBytes(tx) \o Parties
        /\ phase = "unsigned" => NobodySigns \/ call.kind = "MultisigAlias"
=============================================================================
