----------------------------- MODULE EvmObjects -----------------------------
(***************************************************************************)
(* The classes of the C-chain's atomic transactions (src/apis/evm).        *)
(***************************************************************************)
EXTENDS CommonObjects

EVMConstants ==
  [SECPCREDENTIAL |-> 9, IMPORTTX |-> 0, EXPORTTX |-> 1, SECPINPUTID |-> 5,
   SECPXFEROUTPUTID |-> 7]

EvmSelectInputClass == EVMConstants.SECPINPUTID :> "EvmSECPTransferInput"

EvmTransferableInput == Class(<<>>, TransferableInput("EvmSelectInputClass"))

EvmSECPTransferInput == Class(<<EVMConstants.SECPINPUTID>>, AmountInput)

EvmSelectOutputClass == EVMConstants.SECPXFEROUTPUTID :> "EvmSECPTransferOutput"

EvmTransferableOutput == Class(<<>>, TransferableOutput("EvmSelectOutputClass"))

EvmSECPTransferOutput == Class(<<EVMConstants.SECPXFEROUTPUTID>>, AmountOutput)

EvmSelectCredentialClass == EVMConstants.SECPCREDENTIAL :> "EvmSECPCredential"

EvmSECPCredential == Class(<<EVMConstants.SECPCREDENTIAL>>, CredentialParts)

----------------------------------------------------------------------------
EVMOutputParts == <<Fixed("address", 20), Fixed("amount", 8), Fixed("assetID", 32)>>

(* An output of an account, and an input, have no deserialize. *)
EVMOutput == NoJson(Class(<<>>, EVMOutputParts))

(* The indices of the signers stay in memory. *)
EVMInput == NoJson(Class(<<>>, EVMOutputParts \o <<Fixed("nonce", 8), Memory("sigIdxs", <<>>)>>))

EVMTransaction(id, parts) == Class(<<id>>, EVMStandardBaseTx \o parts)

(* The inputs are ordered by toBuffer; the outputs by the constructor.      *)
(* deserialize does not give the outputs back.                             *)
EvmImportTxParts ==
  <<Fixed("sourceChain", 32),
    Kept(Sorted(List("importIns", Object("", "EvmTransferableInput"), 4))),
    Kept(List("outs", Object("", "EVMOutput"), 4))>>

EvmImportTx ==
  InJson(SignedBy(EVMTransaction(EVMConstants.IMPORTTX, EvmImportTxParts),
                  <<Signer("inputs", "importIns")>>),
         Names(EVMStandardBaseTx) \cup {"sourceChain", "importIns"})

(* Nothing orders the exported outputs.  serialize leaves the inputs out.  *)
EvmExportTxParts ==
  <<Fixed("destinationChain", 32), Kept(List("inputs", Object("", "EVMInput"), 4)),
    Kept(List("exportedOutputs", Object("", "EvmTransferableOutput"), 4))>>

EvmExportTx ==
  InJson(SignedBy(EVMTransaction(EVMConstants.EXPORTTX, EvmExportTxParts),
                  <<Signer("accounts", "inputs")>>),
         Names(EVMStandardBaseTx) \cup {"destinationChain", "exportedOutputs"})

(* The order in which the constructors put what toBuffer leaves as it is.  *)
EvmConstructorSorts == [EvmImportTx |-> {"outs"}, EvmExportTx |-> {"inputs"}]

EvmSelectTxClass ==
  (EVMConstants.IMPORTTX :> "EvmImportTx") @@ (EVMConstants.EXPORTTX :> "EvmExportTx")

EvmUnsignedTx == Class(<<>>, EVMStandardUnsignedTx("EvmSelectTxClass"))

EvmTx == Class(<<>>, EVMStandardTx("EvmUnsignedTx", "EvmSelectCredentialClass"))

----------------------------------------------------------------------------
EvmSelect ==
  [EvmSelectInputClass |-> EvmSelectInputClass, EvmSelectOutputClass |-> EvmSelectOutputClass,
   EvmSelectCredentialClass |-> EvmSelectCredentialClass, EvmSelectTxClass |-> EvmSelectTxClass]

EvmClasses ==
  [EvmTransferableInput |-> EvmTransferableInput, EvmSECPTransferInput |-> EvmSECPTransferInput,
   EvmTransferableOutput |-> EvmTransferableOutput,
   EvmSECPTransferOutput |-> EvmSECPTransferOutput, EvmSECPCredential |-> EvmSECPCredential,
   EVMOutput |-> EVMOutput, EVMInput |-> EVMInput, EvmImportTx |-> EvmImportTx,
   EvmExportTx |-> EvmExportTx, EvmUnsignedTx |-> EvmUnsignedTx, EvmTx |-> EvmTx]
============================================================================
