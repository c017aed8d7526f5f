----------------------------- MODULE AvmObjects -----------------------------
(***************************************************************************)
(* The classes of the X-chain (src/apis/avm/inputs.ts, outputs.ts,         *)
(* credentials.ts, ops.ts, the transactions, the genesis and vertices).    *)
(* A class with a type id for each codec has the field codec, which        *)
(* setCodecID changes; a reader always makes an object of codec 0.         *)
(***************************************************************************)
EXTENDS CommonObjects

AVMConstants ==
  [SECPMINTOUTPUTID |-> <<6, 65537>>, SECPXFEROUTPUTID |-> <<7, 65538>>,
   NFTXFEROUTPUTID |-> <<11, 131073>>, NFTMINTOUTPUTID |-> <<10, 131072>>,
   SECPINPUTID |-> <<5, 65536>>, SECPMINTOPID |-> <<8, 65539>>, NFTMINTOPID |-> <<12, 131074>>,
   NFTXFEROPID |-> <<13, 131075>>, BASETX |-> <<0, 0>>, CREATEASSETTX |-> <<1, 1>>,
   OPERATIONTX |-> <<2, 2>>, IMPORTTX |-> <<3, 3>>, EXPORTTX |-> <<4, 4>>,
   SECPCREDENTIAL |-> <<9, 65540>>, NFTCREDENTIAL |-> <<14, 131076>>]

(* A class is selected by its type id in any codec. *)
Selects(ids, class) == [id \in {ids[1], ids[2]} |-> class]

----------------------------------------------------------------------------
(* Inputs, outputs and credentials.                                        *)

AvmSelectInputClass == Selects(AVMConstants.SECPINPUTID, "AvmSECPTransferInput")

AvmTransferableInput == Class(<<>>, TransferableInput("AvmSelectInputClass"))

AvmSECPTransferInput == Class(AVMConstants.SECPINPUTID, AmountInput)

AvmSelectOutputClass ==
  Selects(AVMConstants.SECPXFEROUTPUTID, "AvmSECPTransferOutput")
    @@ Selects(AVMConstants.SECPMINTOUTPUTID, "SECPMintOutput")
    @@ Selects(AVMConstants.NFTMINTOUTPUTID, "NFTMintOutput")
    @@ Selects(AVMConstants.NFTXFEROUTPUTID, "NFTTransferOutput")

AvmTransferableOutput == Class(<<>>, TransferableOutput("AvmSelectOutputClass"))

AvmSECPTransferOutput == Class(AVMConstants.SECPXFEROUTPUTID, AmountOutput)

SECPMintOutput == Class(AVMConstants.SECPMINTOUTPUTID, OwnerParts)

NFTMintOutput == Class(AVMConstants.NFTMINTOUTPUTID, BaseNFTOutput \o OwnerParts)

NFTTransferOutput ==
  Class(AVMConstants.NFTXFEROUTPUTID, BaseNFTOutput \o <<Bytes("payload", 4)>> \o OwnerParts)

AvmSelectCredentialClass ==
  Selects(AVMConstants.SECPCREDENTIAL, "AvmSECPCredential")
    @@ Selects(AVMConstants.NFTCREDENTIAL, "NFTCredential")

AvmSECPCredential == Class(AVMConstants.SECPCREDENTIAL, CredentialParts)

NFTCredential == Class(AVMConstants.NFTCREDENTIAL, CredentialParts)

----------------------------------------------------------------------------
(* Operations.                                                             *)

Operation == <<List("sigIdxs", Object("", "SigIdx"), 4)>>

UTXOID == NBytes("", 36)

SelectOperationClass ==
  Selects(AVMConstants.SECPMINTOPID, "SECPMintOperation")
    @@ Selects(AVMConstants.NFTMINTOPID, "NFTMintOperation")
    @@ Selects(AVMConstants.NFTXFEROPID, "NFTTransferOperation")

TransferableOperation ==
  Class(<<>>, <<Fixed("assetID", 32), Sorted(List("utxoIDs", UTXOID, 4)),
                Tagged("operation", "SelectOperationClass")>>)

(* The outputs are written without their type ids. *)
SECPMintOperation ==
  Class(AVMConstants.SECPMINTOPID,
        Operation \o <<Object("mintOutput", "SECPMintOutput"),
                       Object("transferOutput", "AvmSECPTransferOutput")>>)

NFTMintOperation ==
  Class(AVMConstants.NFTMINTOPID,
        Operation \o BaseNFTOutput
          \o <<Bytes("payload", 4), List("outputOwners", Object("", "OutputOwners"), 4)>>)

NFTTransferOperation ==
  Class(AVMConstants.NFTXFEROPID, Operation \o <<Object("output", "NFTTransferOutput")>>)

----------------------------------------------------------------------------
(* Transactions.                                                           *)

AvmBaseTxParts == StandardBaseTx("AvmTransferableOutput", "AvmTransferableInput")

AvmBaseTxSigners == <<Signer("inputs", "ins")>>

AvmTransaction(ids, parts) == SignedBy(Class(ids, AvmBaseTxParts \o parts), AvmBaseTxSigners)

AvmBaseTx == AvmTransaction(AVMConstants.BASETX, <<>>)

(* What a feature extension starts with; the extensions are in the order of their ids. *)
FxState ==
  Class(<<>>, <<Fixed("fxid", 4), Sorted(List("outputs", Tagged("", "AvmSelectOutputClass"), 4))>>)

InitialStates == Class(<<>>, <<Sorted(List("fxs", Object("", "FxState"), 4))>>)

(* A set of minters has no bytes. *)
MinterSet == Class(<<>>, <<Memory("threshold", Unset), Memory("minters", <<>>)>>)

AssetParts ==
  <<Bytes("name", 2), Bytes("symbol", 2), Fixed("denomination", 1),
    Object("initialState", "InitialStates")>>

CreateAssetTx == AvmTransaction(AVMConstants.CREATEASSETTX, AssetParts)

(* Its operations sign after its inputs. *)
OperationTx ==
  SignedBy(AvmTransaction(AVMConstants.OPERATIONTX,
                          <<Kept(Sorted(List("ops", Object("", "TransferableOperation"), 4)))>>),
           AvmBaseTxSigners \o <<Signer("operations", "ops")>>)

AvmImportTx ==
  SignedBy(AvmTransaction(AVMConstants.IMPORTTX,
             <<Fixed("sourceChain", 32),
               Kept(Sorted(List("importIns", Object("", "AvmTransferableInput"), 4)))>>),
           AvmBaseTxSigners \o <<Signer("inputs", "importIns")>>)

AvmExportTx ==
  AvmTransaction(AVMConstants.EXPORTTX,
    <<Fixed("destinationChain", 32),
      Kept(Sorted(List("exportOuts", Object("", "AvmTransferableOutput"), 4)))>>)

AvmSelectTxClass ==
  Selects(AVMConstants.BASETX, "AvmBaseTx") @@ Selects(AVMConstants.CREATEASSETTX, "CreateAssetTx")
    @@ Selects(AVMConstants.OPERATIONTX, "OperationTx")
    @@ Selects(AVMConstants.IMPORTTX, "AvmImportTx") @@ Selects(AVMConstants.EXPORTTX, "AvmExportTx")

AvmUnsignedTx == Class(<<>>, StandardUnsignedTx("AvmSelectTxClass"))

AvmTx == Class(<<>>, StandardTx("AvmUnsignedTx", "AvmSelectCredentialClass"))

----------------------------------------------------------------------------
(* Genesis and vertices.                                                   *)

(* An asset is a transaction of no chain, inputs and outputs; the network is *)
(* that of the genesis, as after a read.                                    *)
GenesisAsset ==
  Class(<<>>, <<Bytes("assetAlias", 2), Fixed("networkID", 4), Constant(32, 0), Constant(4, 0),
                Constant(4, 0), Bytes("memo", 4)>> \o AssetParts)

(* GenesisAsset.fromBuffer adds the offset that the base class returns to its own. *)
GenesisData ==
  ReadAs(Class(<<>>, <<Constant(2, 0), List("genesisAssets", Object("", "GenesisAsset"), 4)>>),
         <<Constant(2, 0), List("genesisAssets", Misplaced(Object("", "GenesisAsset")), 4)>>)

(* The number of transactions is followed by the size of all of them. The  *)
(* restrictions are not written, and there is nothing of them to read.     *)
(* Its JSON is that of an object without fields.                           *)
Vertex ==
  InJson(Class(<<>>, <<Constant(2, 0), Fixed("blockchainID", 32), Fixed("height", 8),
                       Fixed("epoch", 4), Kept(List("parentIDs", Fixed("", 32), 4)),
                       Kept(List("txs", Object("", "AvmTx"), 8)), Memory("restrictions", <<>>)>>), {})

----------------------------------------------------------------------------
AvmSelect ==
  [AvmSelectInputClass |-> AvmSelectInputClass, AvmSelectOutputClass |-> AvmSelectOutputClass,
   AvmSelectCredentialClass |-> AvmSelectCredentialClass,
   SelectOperationClass |-> SelectOperationClass, AvmSelectTxClass |-> AvmSelectTxClass]

AvmClasses ==
  [AvmTransferableInput |-> AvmTransferableInput, AvmSECPTransferInput |-> AvmSECPTransferInput,
   AvmTransferableOutput |-> AvmTransferableOutput,
   AvmSECPTransferOutput |-> AvmSECPTransferOutput, SECPMintOutput |-> SECPMintOutput,
   NFTMintOutput |-> NFTMintOutput, NFTTransferOutput |-> NFTTransferOutput,
   AvmSECPCredential |-> AvmSECPCredential, NFTCredential |-> NFTCredential,
   TransferableOperation |-> TransferableOperation, SECPMintOperation |-> SECPMintOperation,
   NFTMintOperation |-> NFTMintOperation, NFTTransferOperation |-> NFTTransferOperation,
   FxState |-> FxState, InitialStates |-> InitialStates, MinterSet |-> MinterSet,
   AvmBaseTx |-> AvmBaseTx, CreateAssetTx |-> CreateAssetTx, OperationTx |-> OperationTx,
   AvmImportTx |-> AvmImportTx, AvmExportTx |-> AvmExportTx, AvmUnsignedTx |-> AvmUnsignedTx,
   AvmTx |-> AvmTx, GenesisAsset |-> GenesisAsset, GenesisData |-> GenesisData,
   Vertex |-> Vertex]
============================================================================
