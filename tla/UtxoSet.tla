------------------------------ MODULE UtxoSet ------------------------------
(***************************************************************************)
(* StandardUTXOSet, src/common/utxos.ts: the UTXOs of a wallet by their    *)
(* id, with an index from each address to the UTXOs that name it.  A set   *)
(* is a value; the operations that change one in the code yield another    *)
(* value here.  The id of a UTXO determines its output, as it does on a    *)
(* chain, so that adding it again changes nothing.                         *)
(***************************************************************************)
EXTENDS Integers, FiniteSetsExt

CONSTANTS UtxoId, Address, Asset, OutputOf

\* An output; one without an amount (SECPOwnerOutput, NFT) has the amount 0.
Output == [addresses : SUBSET Address, threshold : Nat \ {0}, locktime : Nat,
           asset : Asset, amount : Nat]

ASSUME OutputOfAssumption == OutputOf \in [UtxoId -> Output]

\* addressUTXOs has a key for every address that was ever added.
UtxoSets == [utxos : SUBSET UtxoId,
             addressUTXOs : UNION {[D -> SUBSET UtxoId] : D \in SUBSET Address}]

\* new UTXOSet()
EmptyUtxoSet == [utxos |-> {}, addressUTXOs |-> [a \in {} |-> {}]]

AddressesOf(ids) == UNION {OutputOf[i].addresses : i \in ids}

\* addressUTXOs[address], without a key nothing.
IndexedFor(set, a) == IF a \in DOMAIN set.addressUTXOs THEN set.addressUTXOs[a] ELSE {}

\* Mutant: only addresses that are in the index already are indexed.
AddArrayKnown(set, ids) ==
    [utxos |-> set.utxos \cup ids,
     addressUTXOs |-> [a \in DOMAIN set.addressUTXOs |->
                          set.addressUTXOs[a] \cup {i \in ids : a \in OutputOf[i].addresses}]]

\* add and addArray
AddArray(set, ids) ==
    [utxos |-> set.utxos \cup ids,
     addressUTXOs |-> [a \in DOMAIN set.addressUTXOs \cup AddressesOf(ids) |->
                          IndexedFor(set, a) \cup {i \in ids : a \in OutputOf[i].addresses}]]

\* remove and removeArray; the keys of the index stay.
RemoveArray(set, ids) ==
    [utxos |-> set.utxos \ ids,
     addressUTXOs |-> [a \in DOMAIN set.addressUTXOs |-> set.addressUTXOs[a] \ ids]]

Clone(set) == AddArray(EmptyUtxoSet, set.utxos)

\* filter(args, lambda), keep being the ids for which lambda is not false
Filter(set, keep) == RemoveArray(Clone(set), set.utxos \ keep)

-----------------------------------------------------------------------------
\* merge(utxoset, hasUTXOIDs): of both sets the UTXOs with these ids
Merge(self, new, ids) == AddArray(AddArray(EmptyUtxoSet, self.utxos \cap ids), new.utxos \cap ids)

Intersection(self, new) == Merge(self, new, self.utxos \cap new.utxos)

Difference(self, new) == Merge(self, new, self.utxos \ new.utxos)

SymDifference(self, new) == Merge(self, new, (self.utxos \ new.utxos) \cup (new.utxos \ self.utxos))

Union(self, new) == Merge(self, new, self.utxos \cup new.utxos)

MergeRule == {"intersection", "differenceSelf", "differenceNew", "symDifference", "union",
              "unionMinusNew", "unionMinusSelf"}

MergeByRule(self, new, rule) ==
    CASE rule = "intersection" -> Intersection(self, new)
      [] rule = "differenceSelf" -> Difference(self, new)
      [] rule = "differenceNew" -> Difference(new, self)
      [] rule = "symDifference" -> SymDifference(self, new)
      [] rule = "union" -> Union(self, new)
      [] rule = "unionMinusNew" -> Difference(Union(self, new), new)
      [] rule = "unionMinusSelf" -> Difference(Union(self, new), self)

-----------------------------------------------------------------------------
\* getUTXOIDs(addresses) at a time: from the index, the lock not after it
GetUTXOIDs(set, addresses, now) ==
    {i \in UNION {IndexedFor(set, a) : a \in addresses} : OutputOf[i].locktime <= now}

\* Mutant: the lock is over at its locktime already.
MeetsThresholdAtLock(o, addresses, asOf) ==
    /\ asOf >= o.locktime
    /\ Cardinality(o.addresses \cap addresses) >= o.threshold

\* getSpenders(addresses, asOf): none until the lock is over, at most threshold
MeetsThreshold(o, addresses, asOf) ==
    /\ asOf > o.locktime
    /\ Cardinality(o.addresses \cap addresses) >= o.threshold

\* getBalance(addresses, assetID, asOf), called at a time: asOf counts for the
\* threshold, the time of the call for the ids
GetBalance(set, addresses, asset, asOf, now) ==
    MapThenSumSet(LAMBDA i : OutputOf[i].amount,
        {i \in GetUTXOIDs(set, addresses, now) \cap set.utxos :
            OutputOf[i].asset = asset /\ MeetsThreshold(OutputOf[i], addresses, asOf)})

\* The index is that of the UTXOs.
IndexOf(set) ==
    /\ \A a \in DOMAIN set.addressUTXOs :
           set.addressUTXOs[a] = {i \in set.utxos : a \in OutputOf[i].addresses}
    /\ AddressesOf(set.utxos) \subseteq DOMAIN set.addressUTXOs
=============================================================================
