------------------------------ MODULE MCTxRelay ------------------------------
(***************************************************************************)
(* The objects that TLC follows: of each class, Seeds samples, in which     *)
(* every field has a value of its own, lists have two elements, most of    *)
(* them not in the order of their bytes, and the objects selected by a type *)
(* id vary with the sample.                                                *)
(***************************************************************************)
EXTENDS TxRelay

CONSTANT Seeds   \* the number of samples of a class

(* Of the rates in the samples: 0.0003 * 10000 is 2.9999999999999996,      *)
(* 16.0175 * 10000 is 160174.99999999997, 16.0174 * 10000 is 160173.99999999997. *)
MCLosesUnit == {3, 160174, 160175}

(* The classes a program holds on their own; transactions come wrapped, too. *)
PTransactions == DOMAIN PlatformTxs \ {"ClaimAmount", "MultisigAlias", "Offer", "PUnsignedTx", "PTx"}
AvmTransactions == {"AvmBaseTx", "CreateAssetTx", "OperationTx", "AvmImportTx", "AvmExportTx"}
EvmTransactions == {"EvmImportTx", "EvmExportTx"}
Transactions == PTransactions \cup AvmTransactions \cup EvmTransactions

Others == {"OwnersArray", "TransferableInputs", "TransferableOutputs", "ProofOfPossession",
           "MinterSet", "InitialStates", "GenesisData", "Vertex", "MultisigAlias", "Offer"}

----------------------------------------------------------------------------
(* Samples.                                                                *)

Child(seed, i) == (3 * seed + 11 * i + 5) % 89

RECURSIVE Sample(_, _, _), SampleVal(_, _, _, _, _)

(* The class that the sample has where the table s selects one: in a lock, the first. *)
(* Transactions have no StakeableLockIn, for which see Unreadable.          *)
Chosen(s, seed, from) ==
  LET ids == IF s = "SelectInputClass" /\ "array" \notin from
             THEN DOMAIN Select[s] \ {Id.STAKEABLELOCKINID} ELSE DOMAIN Select[s]
      Nth(n) == CHOOSE id \in ids : Cardinality({other \in ids : other < id}) = n
  IN Select[s][Nth(IF s \in from THEN 0 ELSE seed % Cardinality(ids))]

SampleIdxs(seed) == [j \in 1..2 |-> [cls |-> "SigIdx", codec |-> 0, bytes |-> j - 1,
                                     source |-> 1000 + Child(seed, j)]]

SampleMemory(class, n, seed) ==
  CASE n = "source"          -> 1000 + seed
    [] n = "withNodeSig"     -> seed % 2 = 0
    [] n = "ownerSignatures" -> <<[msg |-> <<>>, by |-> seed]>>
    [] n = "sigIdxs"         -> IF class = "ClaimTx" THEN <<SampleIdxs(seed), SampleIdxs(seed + 1)>>
                                ELSE SampleIdxs(seed)
    [] OTHER                 -> seed

SampleLen(p, seed) ==
  IF seed % 2 = 1 /\ p.hex THEN 12
  ELSE IF seed % 2 = 0 /\ p.n \in {"claimAmounts", "genesisAssets"} THEN 1 ELSE 2

(* The value of part p, the i-th of an object of that class. *)
SampleVal(p, class, seed, i, from) ==
  CASE p.k = "fixed"    -> IF p.n = "oldNodeID" /\ seed % 2 = 0 THEN 0 ELSE Child(seed, i) + 1
    [] p.k = "rate"     -> <<250000, 160175, 3>>[(seed % 3) + 1]
    [] p.k = "version"  -> seed % 2
    [] p.k = "codec"    -> 0
    [] p.k = "memory"   -> SampleMemory(class, p.n, seed)
    [] p.k = "upgraded" -> IF seed % 2 = 1 THEN SampleVal(p.p, class, seed, i, from) ELSE Unset
    [] p.k = "object"   -> Sample(p.c, Child(seed, i), from)
    [] p.k = "tagged"   -> Sample(Chosen(p.s, seed, from), Child(seed, i), from \cup {p.s})
    [] p.k = "list"     -> [j \in 1..SampleLen(p, seed) |->
                              SampleVal(p.e, class, Child(seed, i) + 12 - j, 0, from)]

Sample(cls, seed, from) ==
  LET parts == Layout[cls].wire
  IN [n \in Names(parts) \cup {"cls", "codec"} |->
        IF n = "cls" THEN cls ELSE IF n = "codec" THEN 0
        ELSE LET i == CHOOSE k \in DOMAIN parts : parts[k].n = n
             IN SampleVal(parts[i], cls, seed, i, from)]

(* The constructors of the C-chain put these lists in order. *)
Constructed(o) ==
  IF o.cls \notin DOMAIN EvmConstructorSorts THEN o
  ELSE [n \in DOMAIN o |-> IF n \in EvmConstructorSorts[o.cls]
                           THEN SortSeq(o[n], LAMBDA a, b : Before(Put(a), Put(b))) ELSE o[n]]

Unsigned(cls) == IF cls \in PTransactions THEN "PUnsignedTx"
                 ELSE IF cls \in AvmTransactions THEN "AvmUnsignedTx" ELSE "EvmUnsignedTx"

Wrapped(tx) == [Fresh(Unsigned(tx.cls)) EXCEPT !.transaction = tx]

Samples(classes, from) ==
  {Constructed(Sample(cls, seed, from)) : cls \in classes, seed \in 0..(Seeds - 1)}

(* setCodecID of every object in o that has it. *)
RECURSIVE InCodec(_, _)
InCodec(o, codec) ==
  LET parts == Layout[o.cls].wire
      Moved(p, v) ==
        CASE v = Unset -> v
          [] p.k \in {"object", "tagged"} -> InCodec(v, codec)
          [] p.k = "list" /\ p.e.k \in {"object", "tagged"} -> [i \in 1..Len(v) |-> InCodec(v[i], codec)]
          [] OTHER -> v
  IN [n \in DOMAIN o |-> CASE n = "codec" -> IF Len(Layout[o.cls].ids) = 2 THEN codec ELSE 0
                            [] n \in Names(parts) -> Moved(PartOf(parts, n), o[n])
                            [] OTHER -> o[n]]

MCObjects ==
  LET txs == Samples(Transactions, {}) \cup {InCodec(tx, 1) : tx \in Samples(AvmTransactions, {})}
  IN txs \cup {Wrapped(tx) : tx \in txs} \cup Samples(Others, {"array"})

----------------------------------------------------------------------------
(* Properties.                                                             *)

TransactionIn(o) == IF IsSigned(o) THEN o.unsignedTx.transaction
                    ELSE IF IsUnsigned(o) THEN o.transaction ELSE o

(* What a reader does not read back, and why.                               *)
Unreadable(o) ==
  LET tx == TransactionIn(o)
  IN \* the object made by the reader has codec 0
     \/ tx.codec = 1
     \* the version is looked for behind the base transaction
     \/ tx.cls \in {"AddProposalTx", "AddVoteTx"} /\ tx.version > 0
     \* the offset behind an authorisation is added to the one before it
     \/ tx.cls = "ClaimTx" /\ Len(tx.claimAmounts) > 1
     \/ tx.cls \in {"ClaimTx", "CaminoAddValidatorTx"} /\ IsSigned(o)
     \/ tx.cls = "GenesisData" /\ Len(tx.genesisAssets) > 1
     \* ten is read as a hexadecimal digit, and not understood
     \/ tx.cls = "CreateChainTx" /\ Len(tx.fxIDs) > 9
     \* SelectTxClass does not know them
     \/ tx.cls \in {"UnlockDepositTx", "RemoveSubnetValidatorTx", "CreateChainTx"} /\ o # tx
     \* the fee that was written loses one more unit when it is written again
     \/ tx.cls \in {"AddValidatorTx", "CaminoAddValidatorTx"}
          /\ WrittenRate(tx.delegationFee) \in LosesUnit
     \* its type id is that of an output
     \/ tx.cls = "TransferableInputs" /\ \E i \in DOMAIN tx.ins : tx.ins[i].input.cls = "StakeableLockIn"

Same(a, b) == b # Failed /\ Put(b) = Put(a)

(* toBuffer and fromBuffer: what is read from the bytes of an object has     *)
(* those bytes, credentials included.                                      *)
NothingIsLost ==
  [][last' = "bytes" /\ ~Unreadable(held) => Same(held, held')]_vars

(* Classes whose readers add to the lists of the object they read into, or  *)
(* leave it the version it had: objects of these are not to be used twice.  *)
Remembers(o) ==
  \/ o.cls \in {"ImportTx", "ExportTx", "CreateChainTx", "OperationTx", "AvmImportTx", "AvmExportTx",
                "EvmImportTx", "EvmExportTx", "Vertex"}
  \/ o.cls \in {"AddressStateTx", "DepositTx", "Offer"} /\ o.version = 0
  \/ o.cls \in {"AddProposalTx", "AddVoteTx"}

(* fromBuffer of an object that was used for another one of its class leaves *)
(* nothing of the other.                                                   *)
UsedIsAsNew ==
  [][last' = "reuse" /\ ~Unreadable(held) /\ ~Remembers(held) => Same(held, held')]_vars

(* The classes whose JSON carries all of them. *)
JsonComplete(o) ==
  /\ TransactionIn(o).cls \in {"BaseTx", "ImportTx", "ExportTx", "CreateSubnetTx", "AddDelegatorTx",
       "AddValidatorTx", "AvmBaseTx", "CreateAssetTx", "OperationTx", "AvmImportTx", "AvmExportTx"}
  /\ IsSigned(o) => \A i \in DOMAIN o.credentials : o.credentials[i].cls # "PMultisigCredential"

(* serialize and deserialize: an object comes back from its JSON with its    *)
(* bytes, and an unsigned transaction is signed by those who would have.    *)
JsonKeepsAll ==
  [][last' = "json" /\ JsonComplete(held) /\ ~Unreadable(held) =>
       /\ Same(held, held')
       /\ IsUnsigned(held) => Credentials(held'.transaction, <<>>) = Credentials(held.transaction, <<>>)]_vars

(* The inputs in the order in which the network sees them: of the outputs they spend. *)
InWireOrder(ins) ==
  IF Len(ins) = 2 /\ ins[2].txid < ins[1].txid THEN <<ins[2], ins[1]>> ELSE ins

(* The parties of the inputs of tx, as the network asks for them. *)
PartiesOfInputs(tx) ==
  LET ins == CASE tx.cls = "EvmExportTx" -> tx.inputs
               [] tx.cls = "EvmImportTx" -> InWireOrder(tx.importIns)
               [] tx.cls \in {"ImportTx", "AvmImportTx"} -> InWireOrder(tx.ins) \o InWireOrder(tx.importIns)
               [] OTHER -> InWireOrder(tx.ins)
  IN [i \in 1..Len(ins) |-> Sources(SigIdxsOf(IF "input" \in DOMAIN ins[i] THEN ins[i].input ELSE ins[i]))]

PartiesOf(credential) == [i \in DOMAIN credential.sigArray |-> credential.sigArray[i].by]

(* sign: every signature is for the bytes that are sent, whatever was done   *)
(* before; the credentials come in the order of the inputs in these bytes,  *)
(* each with the parties of its input in the order of their indices.  The   *)
(* inputs of a C-chain export forget theirs in the bytes: once read, it is  *)
(* signed, and by nobody.                                                  *)
SignaturesHold ==
  Whole /\ IsSigned(held) =>
    LET parties == PartiesOfInputs(TransactionIn(made))
    IN /\ \A i \in DOMAIN held.credentials : \A j \in DOMAIN held.credentials[i].sigArray :
            held.credentials[i].sigArray[j].msg \in {Content(held), <<>>}
       /\ \A i \in DOMAIN parties :
            /\ \/ PartiesOf(held.credentials[i]) = parties[i]
               \/ TransactionIn(made).cls = "EvmExportTx" /\ PartiesOf(held.credentials[i]) = <<>>
            /\ \A j \in DOMAIN held.credentials[i].sigArray : held.credentials[i].sigArray[j].msg = Content(held)

(* The lists whose order is none of the program's business. *)
Unordered(cls, n) ==
  \/ n \in {"ins", "importIns", "exportOuts", "stakeOuts", "addresses", "utxoIDs", "ops", "fxs", "outputs"}
       /\ cls # "TransferableInputs"
  \/ n = "outs" /\ cls \notin {"EvmImportTx", "TransferableOutputs"}

RECURSIVE Reversed(_)
Reversed(o) ==
  LET Back(p, v) ==
        CASE v = Unset -> v
          [] p.k \in {"object", "tagged"} -> Reversed(v)
          [] p.k = "list" ->
               LET each == IF p.e.k \in {"object", "tagged"}
                           THEN [i \in DOMAIN v |-> Reversed(v[i])] ELSE v
               IN IF Unordered(o.cls, p.n) THEN Reverse(each) ELSE each
          [] OTHER -> v
  IN [n \in DOMAIN o |-> IF n \in {"cls", "codec"} THEN o[n]
                            ELSE Back(PartOf(Layout[o.cls].wire, n), o[n])]

(* toBuffer: whatever the order in which a program put together the inputs,  *)
(* outputs, operations and addresses of an object, its bytes are the same,  *)
(* at any step of its way.                                                 *)
OrderDoesNotMatter == Whole => Content(Reversed(held)) = Content(held)

(* All that is in the lists of these names. *)
Puts(tx, names) == FlattenSeq([i \in 1..Cardinality(names \cap DOMAIN tx) |->
                                  tx[SetToSeq(names \cap DOMAIN tx)[i]]])

(* What the inputs have and the outputs have not, whoever they are for and however they are locked. *)
Leaves(tx, asset) ==
  LET InnerIn(in) == IF "input" \in DOMAIN in THEN in.input ELSE in
      In(p) == IF p.assetID = asset THEN InnerIn(p.input).amount ELSE 0
      Out(p) == IF p.assetID = asset /\ IsAmount(Inner(p.output)) THEN Inner(p.output).amount ELSE 0
      Sum(all, Of(_)) == FoldLeft(LAMBDA sum, p : sum + Of(p), 0, all)
  IN Sum(Puts(tx, {"ins", "importIns"}), In)
       - Sum(Puts(tx, {"outs", "exportOuts", "stakeOuts"}), Out)

(* getBurn counts no imported input, and no input that is locked. *)
CountsAll(tx) ==
  /\ tx.cls \notin {"ImportTx", "AvmImportTx"}
  /\ \A i \in DOMAIN tx.ins : IsAmount(tx.ins[i].input)

(* common/tx.ts, getBurn: what of an asset a transaction takes and gives to  *)
(* nobody; the fee check of the APIs rests on it (checkGooseEgg).           *)
BurnIsWhatLeaves ==
  held # Failed /\ IsUnsigned(held) /\ held.cls # "EvmUnsignedTx" /\ CountsAll(held.transaction) =>
    LET tx == held.transaction
    IN \A put \in ToSet(Puts(tx, {"ins", "outs", "exportOuts", "stakeOuts"})) :
         Burn(tx, put.assetID) = Leaves(tx, put.assetID)

(* platformvm/tx.ts:160, "Takes a Buffer containing an Tx, parses it,        *)
(* populates the class": any signed transaction of the P-chain.            *)
SignedCanBeRead ==
  [][last' = "bytes" /\ held.cls = "PTx" => Same(held, held')]_vars
============================================================================
