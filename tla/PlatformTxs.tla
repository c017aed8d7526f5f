---------------------------- MODULE PlatformTxs ----------------------------
(***************************************************************************)
(* The transactions of the P-chain, src/apis/platformvm/*tx.ts.            *)
(* Each description follows toBuffer; fromBuffer, serialize and sign are   *)
(* described where they differ from what toBuffer and the base class say.  *)
(***************************************************************************)
EXTENDS PlatformObjects

BaseTxParts == StandardBaseTx("PTransferableOutput", "PTransferableInput")

BaseTxSigners == <<Signer("inputs", "ins")>>

Tx(id, parts) == SignedBy(Class(<<id>>, BaseTxParts \o parts), BaseTxSigners)

(* A transaction with one more credential, for its authorisation.          *)
Authorised(c) ==
  SignedBy([c EXCEPT !.wire = @ \o <<Memory("sigIdxs", <<>>)>>, !.read = @ \o <<Memory("sigIdxs", <<>>)>>],
           c.signs \o <<Signer("own", "sigIdxs")>>)

BaseTx == Tx(Id.BASETX, <<>>)

UnlockDepositTx == Tx(Id.UNLOCKDEPOSITTX, <<>>)

----------------------------------------------------------------------------
ImportTxParts ==
  <<Fixed("sourceChain", 32), Kept(Sorted(List("importIns", Object("", "PTransferableInput"), 4)))>>

ImportTx ==
  SignedBy(Tx(Id.IMPORTTX, ImportTxParts), BaseTxSigners \o <<Signer("inputs", "importIns")>>)

ExportTxParts ==
  <<Fixed("destinationChain", 32),
    Kept(Sorted(List("exportOuts", Object("", "PTransferableOutput"), 4)))>>

ExportTx == Tx(Id.EXPORTTX, ExportTxParts)

----------------------------------------------------------------------------
(* Subnets and chains.                                                     *)

(* The reader skips the type id of the owners. *)
CreateSubnetTx ==
  Tx(Id.CREATESUBNETTX,
     <<Constant(4, Id.SECPOWNEROUTPUTID), Object("subnetOwners", "SECPOwnerOutput")>>)

(* fromBuffer takes the hexadecimal digits of the number of fxIDs for decimal ones. *)
CreateChainTxParts ==
  <<Fixed("subnetID", 32), Bytes("chainName", 2), Fixed("vmID", 32),
    HexCounted(Kept(List("fxIDs", Fixed("", 32), 4))), Bytes("genesisData", 4),
    Object("subnetAuth", "SubnetAuth")>>

CreateChainTxJson == Names(BaseTxParts) \cup {"subnetID"}

CreateChainTx ==
  Authorised(InJson(Tx(Id.CREATECHAINTX, CreateChainTxParts), CreateChainTxJson))

RemoveSubnetValidatorTxParts ==
  <<Fixed("nodeID", 20), Fixed("subnetID", 32), Object("subnetAuth", "SubnetAuth")>>

RemoveSubnetValidatorTx ==
  Authorised(InJson(Tx(Id.REMOVESUBNETVALIDATORTX, RemoveSubnetValidatorTxParts),
                    Names(BaseTxParts)))

AddSubnetValidatorTxParts ==
  <<Fixed("nodeID", 20)>> \o Period
    \o <<Fixed("weight", 8), Fixed("subnetID", 32), Object("subnetAuth", "SubnetAuth")>>

(* The node signs too when it is asked to. *)
AddSubnetValidatorTx ==
  LET tx == Authorised(InJson(Tx(Id.ADDSUBNETVALIDATORTX,
                                 AddSubnetValidatorTxParts \o <<Memory("withNodeSig", FALSE)>>),
                              Names(BaseTxParts) \cup {"subnetID"}))
  IN SignedBy(tx, tx.signs \o <<Signer("nodeIfAsked", "nodeID")>>)

----------------------------------------------------------------------------
(* Validators and delegators.                                              *)

ValidatorTx == <<Fixed("nodeID", 20), Fixed("startTime", 8), Fixed("endTime", 8)>>

WeightedValidatorTx == ValidatorTx \o <<Fixed("weight", 8)>>

AddDelegatorTxParts ==
  WeightedValidatorTx
    \o <<Sorted(List("stakeOuts", Object("", "PTransferableOutput"), 4)),
         Object("rewardOwners", "PParseableOutput")>>

AddDelegatorTx == Tx(Id.ADDDELEGATORTX, AddDelegatorTxParts)

AddValidatorTxParts == AddDelegatorTxParts \o <<Rate("delegationFee")>>

AddValidatorTx == Tx(Id.ADDVALIDATORTX, AddValidatorTxParts)

(* fromBuffer adds the offset that SubnetAuth.fromBuffer returns to its own. *)
CaminoAddValidatorTx ==
  Authorised(InJson(ReadAs(Tx(Id.CAMINOADDVALIDATORTX,
                              AddValidatorTxParts \o <<Object("nodeOwnerAuth", "SubnetAuth")>>),
                           BaseTxParts \o AddValidatorTxParts
                             \o <<Misplaced(Object("nodeOwnerAuth", "SubnetAuth"))>>),
                    Names(BaseTxParts \o AddValidatorTxParts)))

----------------------------------------------------------------------------
(* Address states, nodes, deposits.                                        *)

(* The fields from version 1 on are in the JSON; the version is not.       *)
AddressStateTxParts ==
  <<Version>> \o BaseTxParts
    \o <<Fixed("address", 20), Fixed("state", 1), Fixed("remove", 1),
         Upgraded(Fixed("executor", 20)), Upgraded(Object("executorAuth", "SubnetAuth")),
         Memory("sigIdxs", <<>>)>>

AddressStateTx ==
  InJson(SignedBy(Class(<<Id.ADDRESSSTATETX>>, AddressStateTxParts),
                  BaseTxSigners \o <<FromV1(Signer("own", "sigIdxs"))>>),
         Names(BaseTxParts) \cup {"address", "state", "remove"})

RegisterNodeTxParts ==
  <<Fixed("oldNodeID", 20), Fixed("newNodeID", 20),
    Object("consortiumMemberAuth", "SubnetAuth"), Fixed("consortiumMemberAddress", 20)>>

(* A new node signs, in a credential that is there for any registration. *)
RegisterNodeTx ==
  LET tx == Authorised(InJson(Tx(Id.REGISTERNODETX, RegisterNodeTxParts),
                              Names(BaseTxParts \o RegisterNodeTxParts) \ {"consortiumMemberAuth"}))
  IN SignedBy(tx, BaseTxSigners \o <<Signer("newNode", "newNodeID"), Signer("own", "sigIdxs")>>)

DepositTxParts ==
  <<Version>> \o BaseTxParts
    \o <<Fixed("depositOfferID", 32), Fixed("depositDuration", 4),
         Object("rewardsOwner", "PParseableOutput"),
         Upgraded(Fixed("depositCreator", 20)), Upgraded(Object("depositCreatorAuth", "SubnetAuth")),
         Upgraded(Object("ownerAuth", "SubnetAuth")),
         Memory("sigIdxs", <<>>), Memory("ownerSignatures", <<>>)>>

(* The signatures of the owner of the offer are given to addOwnerAuth. *)
DepositTxSigners ==
  BaseTxSigners \o <<FromV1(Signer("own", "sigIdxs")), FromV1(Signer("given", "ownerSignatures"))>>

DepositTx ==
  InJson(SignedBy(Class(<<Id.DEPOSITTX>>, DepositTxParts), DepositTxSigners),
         Names(BaseTxParts) \cup {"depositOfferID", "depositDuration", "rewardsOwner"})

----------------------------------------------------------------------------
(* Claims, aliases and offers.                                             *)

ClaimAmountParts == <<Fixed("id", 32), Fixed("type", 8), Fixed("amount", 8)>>

(* fromBuffer adds the offset as for CaminoAddValidatorTx; deserialize      *)
(* looks for "amounts" in what serialize wrote as "amount".                *)
ClaimAmount ==
  NoJson(ReadAs(Class(<<>>, ClaimAmountParts \o <<Object("auth", "SubnetAuth")>>),
                ClaimAmountParts \o <<Misplaced(Object("auth", "SubnetAuth"))>>))

ClaimTx ==
  SignedBy(Tx(Id.CLAIMTX,
              <<List("claimAmounts", Object("", "ClaimAmount"), 4), Memory("sigIdxs", <<>>)>>),
           BaseTxSigners \o <<Signer("each", "sigIdxs")>>)

MultisigAlias ==
  NoJson(Class(<<>>, <<Fixed("id", 20), Bytes("memo", 4), Object("owners", "PParseableOutput")>>))

(* sign looks for indices within an index: it throws when there is one. *)
MultisigAliasTx ==
  SignedBy(Tx(Id.MULTISIGALIASTX,
              <<Object("multisigAlias", "MultisigAlias"), Object("auth", "SubnetAuth"),
                Memory("sigIdxs", <<>>)>>),
           BaseTxSigners \o <<Signer("nobody", "sigIdxs")>>)

OfferParts ==
  <<Version, Fixed("interestRateNominator", 8), Fixed("start", 8), Fixed("end", 8),
    Fixed("minAmount", 8), Fixed("totalMaxAmount", 8), Fixed("depositedAmount", 8),
    Fixed("minDuration", 4), Fixed("maxDuration", 4), Fixed("unlockPeriodDuration", 4),
    Fixed("noRewardsPeriodDuration", 4), Bytes("memo", 4), Fixed("flags", 8),
    Upgraded(Fixed("totalMaxRewardAmount", 8)), Upgraded(Fixed("rewardedAmount", 8)),
    Upgraded(Fixed("ownerAddress", 20))>>

(* serialize gives the version, a number, to an encoder of buffers: it throws. *)
Offer == NoJson(Class(<<>>, OfferParts))

AddDepositOfferTxParts ==
  <<Object("depositOffer", "Offer"), Fixed("depositOfferCreatorAddress", 20),
    Object("depositOfferCreatorAuth", "SubnetAuth")>>

AddDepositOfferTx == Authorised(Tx(Id.ADDDEPOSITOFFERTX, AddDepositOfferTxParts))

----------------------------------------------------------------------------
(* Votes and proposals: fromBuffer looks for the version after the base     *)
(* transaction, toBuffer writes it before.                                 *)

AddVoteTxParts ==
  <<Fixed("proposalID", 32), Object("votePayload", "VoteWrapper"), Fixed("voterAddress", 20),
    Object("voterAuth", "SubnetAuth")>>

VersionFirst(id, parts) ==
  ReadAs(Class(<<id>>, <<Version>> \o BaseTxParts \o parts), BaseTxParts \o <<Version>> \o parts)

AddVoteTx ==
  SignedBy(VersionFirst(Id.ADDVOTETX, AddVoteTxParts),
           BaseTxSigners \o <<Signer("party", "voterAddress")>>)

(* The reader does not use the size of the payload. *)
AddProposalTxParts ==
  <<Bytes("proposalDescription", 4), Constant(4, 0), Object("proposalPayload", "ProposalWrapper"),
    Fixed("proposerAddress", 20), Object("proposerAuth", "SubnetAuth")>>

AddProposalTx ==
  SignedBy(VersionFirst(Id.ADDPROPOSALTX, AddProposalTxParts),
           BaseTxSigners \o <<Signer("party", "proposerAddress")>>)

----------------------------------------------------------------------------
(* Mutant: only the transactions of the first releases are selected. *)
SelectFirstTxClass ==
  (Id.BASETX :> "BaseTx") @@ (Id.IMPORTTX :> "ImportTx") @@ (Id.EXPORTTX :> "ExportTx")
    @@ (Id.ADDDELEGATORTX :> "AddDelegatorTx") @@ (Id.ADDVALIDATORTX :> "AddValidatorTx")
    @@ (Id.CREATESUBNETTX :> "CreateSubnetTx") @@ (Id.ADDSUBNETVALIDATORTX :> "AddSubnetValidatorTx")

(* UnlockDepositTx, RemoveSubnetValidatorTx and CreateChainTx are not in it. *)
SelectTxClass ==
  (Id.BASETX :> "BaseTx") @@ (Id.IMPORTTX :> "ImportTx") @@ (Id.EXPORTTX :> "ExportTx")
    @@ (Id.ADDDELEGATORTX :> "AddDelegatorTx") @@ (Id.ADDVALIDATORTX :> "AddValidatorTx")
    @@ (Id.CAMINOADDVALIDATORTX :> "CaminoAddValidatorTx")
    @@ (Id.CREATESUBNETTX :> "CreateSubnetTx")
    @@ (Id.ADDSUBNETVALIDATORTX :> "AddSubnetValidatorTx")
    @@ (Id.REGISTERNODETX :> "RegisterNodeTx") @@ (Id.DEPOSITTX :> "DepositTx")
    @@ (Id.ADDRESSSTATETX :> "AddressStateTx") @@ (Id.CLAIMTX :> "ClaimTx")
    @@ (Id.MULTISIGALIASTX :> "MultisigAliasTx") @@ (Id.ADDDEPOSITOFFERTX :> "AddDepositOfferTx")
    @@ (Id.ADDPROPOSALTX :> "AddProposalTx") @@ (Id.ADDVOTETX :> "AddVoteTx")

PUnsignedTx == Class(<<>>, StandardUnsignedTx("SelectTxClass"))

PTx == Class(<<>>, StandardTx("PUnsignedTx", "SelectCredentialClass"))

PlatformTxs ==
  [BaseTx |-> BaseTx, UnlockDepositTx |-> UnlockDepositTx, ImportTx |-> ImportTx,
   ExportTx |-> ExportTx, CreateSubnetTx |-> CreateSubnetTx, CreateChainTx |-> CreateChainTx,
   RemoveSubnetValidatorTx |-> RemoveSubnetValidatorTx,
   AddSubnetValidatorTx |-> AddSubnetValidatorTx, AddDelegatorTx |-> AddDelegatorTx,
   AddValidatorTx |-> AddValidatorTx, CaminoAddValidatorTx |-> CaminoAddValidatorTx,
   AddressStateTx |-> AddressStateTx, RegisterNodeTx |-> RegisterNodeTx, DepositTx |-> DepositTx,
   ClaimAmount |-> ClaimAmount, ClaimTx |-> ClaimTx, MultisigAlias |-> MultisigAlias,
   MultisigAliasTx |-> MultisigAliasTx, Offer |-> Offer, AddDepositOfferTx |-> AddDepositOfferTx,
   AddVoteTx |-> AddVoteTx, AddProposalTx |-> AddProposalTx,
   PUnsignedTx |-> PUnsignedTx, PTx |-> PTx]
============================================================================
