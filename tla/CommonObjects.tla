--------------------------- MODULE CommonObjects ---------------------------
(***************************************************************************)
(* The parts of the classes that the three chains share                    *)
(* (src/common/output.ts, input.ts, credentials.ts, tx.ts, evmtx.ts).      *)
(* The abstract classes of the source are sequences of parts, to which the *)
(* classes of a chain add theirs.                                          *)
(***************************************************************************)
EXTENDS Wire

(* NBytes: a value of a fixed number of bytes. *)
NBytes(n, w) == Fixed(n, w)

Address   == NBytes("", 20)
Signature == NBytes("", 65)

(* Mutant: the source is not in JSON. *)
SigIdxOnly == InJson(Class(<<>>, <<NBytes("bytes", 4), Memory("source", Unset)>>), {"bytes"})

(* The source of an index is who signs: it is kept in memory and in JSON. *)
SigIdx == InJson(Class(<<>>, <<NBytes("bytes", 4), Memory("source", Unset)>>), {"bytes", "source"})

----------------------------------------------------------------------------
(* Mutant: the addresses are written as they were added. *)
OwnerPartsAsAdded == <<Fixed("locktime", 8), Fixed("threshold", 4), List("addresses", Address, 4)>>

OwnerParts == <<Fixed("locktime", 8), Fixed("threshold", 4), Sorted(List("addresses", Address, 4))>>

OutputOwners == Class(<<>>, OwnerParts)

(* OutputOwners.fromArray, toArray: a version of two bytes, and the owners. *)
OwnersArray == NoJson(Class(<<>>, <<Constant(2, 0), List("owners", Object("", "OutputOwners"), 4)>>))

AmountOutput == <<Fixed("amount", 8)>> \o OwnerParts

BaseNFTOutput == <<Fixed("groupID", 4)>>

ParseableOutput(select) == <<Tagged("output", select)>>

TransferableOutput(select) == <<Fixed("assetID", 32)>> \o ParseableOutput(select)

----------------------------------------------------------------------------
InputParts == <<List("sigIdxs", Object("", "SigIdx"), 4)>>

AmountInput == <<Fixed("amount", 8)>> \o InputParts

ParseableInput(select) == <<Tagged("input", select)>>

(* A comparator compares the bytes: inputs are in the order of the outputs *)
(* they spend, outputs in the order of their assets.                       *)
TransferableInput(select) ==
  <<Fixed("txid", 32), Fixed("outputidx", 4), Fixed("assetID", 32)>> \o ParseableInput(select)

----------------------------------------------------------------------------
CredentialParts == <<List("sigArray", Signature, 4)>>

(* Its JSON does not carry the indices. *)
SECPMultisigCredential(id) ==
  InJson(Class(<<id>>, CredentialParts \o <<List("sigIdxs", Object("", "SigIdx"), 4)>>),
         {"sigArray"})

----------------------------------------------------------------------------
(* Mutant: fromBuffer does not clear the outputs. *)
StandardBaseTxAdded(out, in) ==
  <<Fixed("networkID", 4), Fixed("blockchainID", 32), Kept(Sorted(List("outs", Object("", out), 4))),
    Sorted(List("ins", Object("", in), 4)), Bytes("memo", 4)>>

StandardBaseTx(out, in) ==
  <<Fixed("networkID", 4), Fixed("blockchainID", 32), Sorted(List("outs", Object("", out), 4)),
    Sorted(List("ins", Object("", in), 4)), Bytes("memo", 4)>>

(* toBuffer writes the codec of the transaction, not its own. *)
StandardUnsignedTx(select) ==
  <<CodecOf("codecID", "transaction"), Tagged("transaction", select)>>

(* Before they are written, the credentials take the codec of the transaction. *)
StandardTx(unsigned, select) ==
  <<Object("unsignedTx", unsigned), List("credentials", Tagged("", select), 4)>>

EVMStandardBaseTx == <<Fixed("networkID", 4), Fixed("blockchainID", 32)>>

EVMStandardUnsignedTx(select) == <<OwnCodec("codecID"), Tagged("transaction", select)>>

EVMStandardTx(unsigned, select) ==
  <<Object("unsignedTx", unsigned), List("credentials", Tagged("", select), 4)>>

----------------------------------------------------------------------------
CommonClasses == [SigIdx |-> SigIdx, OutputOwners |-> OutputOwners, OwnersArray |-> OwnersArray]
============================================================================
