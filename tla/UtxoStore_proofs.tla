-------------------------- MODULE UtxoStore_proofs --------------------------
(***************************************************************************)
(* The index of every UTXOSet agrees with its UTXOs and every state is     *)
(* well-typed, for all outputs, clients, base URLs and encodings.  Both    *)
(* are inductive as they stand: each operation on a set keeps UtxoSets    *)
(* and IndexOf, whatever it is applied to.  As the index agrees, balances  *)
(* are what can be spent.                                                  *)
(***************************************************************************)
EXTENDS UtxoStore, SumTheorems, TLAPS

-----------------------------------------------------------------------------
\* The operations on a set.

LEMMA AddressesAreAddresses ==
    ASSUME NEW ids \in SUBSET UtxoId
    PROVE  AddressesOf(ids) \subseteq Address
  <1>1. \A i \in ids : OutputOf[i] \in Output
    BY OutputOfAssumption
  <1>2. QED
    BY <1>1 DEF AddressesOf, Output

LEMMA EmptySetFacts == EmptyUtxoSet \in UtxoSets /\ IndexOf(EmptyUtxoSet)
  <1>1. EmptyUtxoSet.utxos = {} /\ EmptyUtxoSet.addressUTXOs = [a \in {} |-> {}]
    BY DEF EmptyUtxoSet
  <1>2. EmptyUtxoSet \in UtxoSets
    BY <1>1 DEF UtxoSets, EmptyUtxoSet
  <1>3. IndexOf(EmptyUtxoSet)
    BY <1>1 DEF IndexOf, AddressesOf
  <1>4. QED
    BY <1>2, <1>3

LEMMA AddArrayTyped ==
    ASSUME NEW set, set \in UtxoSets, NEW ids \in SUBSET UtxoId
    PROVE  AddArray(set, ids) \in UtxoSets
  <1> DEFINE new == AddArray(set, ids)
             index(a) == IndexedFor(set, a) \cup {i \in ids : a \in OutputOf[i].addresses}
             dom == DOMAIN set.addressUTXOs \cup AddressesOf(ids)
  <1>1. new = [utxos |-> set.utxos \cup ids, addressUTXOs |-> [a \in dom |-> index(a)]]
    BY DEF AddArray
  <1>2. new.utxos = set.utxos \cup ids /\ new.addressUTXOs = [a \in dom |-> index(a)]
    BY <1>1
  <1>3. set.utxos \subseteq UtxoId /\ DOMAIN set.addressUTXOs \subseteq Address
        /\ \A a \in DOMAIN set.addressUTXOs : set.addressUTXOs[a] \subseteq UtxoId
    BY DEF UtxoSets
  <1>4. dom \subseteq Address
    BY <1>3, AddressesAreAddresses
  <1>5. \A a \in dom : index(a) \subseteq UtxoId
    BY <1>3 DEF IndexedFor
  <1>6. DOMAIN new.addressUTXOs = dom /\ new.addressUTXOs \in [dom -> SUBSET UtxoId]
    BY <1>2, <1>5
  <1>7. QED
    BY <1>1, <1>2, <1>3, <1>4, <1>6 DEF UtxoSets

LEMMA AddArrayIndexed ==
    ASSUME NEW set, IndexOf(set), NEW ids
    PROVE  IndexOf(AddArray(set, ids))
  <1> DEFINE new == AddArray(set, ids)
             index(a) == IndexedFor(set, a) \cup {i \in ids : a \in OutputOf[i].addresses}
             dom == DOMAIN set.addressUTXOs \cup AddressesOf(ids)
  <1>1. new.utxos = set.utxos \cup ids /\ new.addressUTXOs = [a \in dom |-> index(a)]
    BY DEF AddArray
  <1>2. \A a : IndexedFor(set, a) = {i \in set.utxos : a \in OutputOf[i].addresses}
    BY DEF IndexOf, IndexedFor, AddressesOf
  <1>3. \A a \in dom : index(a) = {i \in set.utxos \cup ids : a \in OutputOf[i].addresses}
    BY <1>2
  <1>4. AddressesOf(set.utxos \cup ids) = AddressesOf(set.utxos) \cup AddressesOf(ids)
    BY DEF AddressesOf
  <1>5. AddressesOf(new.utxos) \subseteq DOMAIN new.addressUTXOs
    BY <1>1, <1>4 DEF IndexOf
  <1>6. \A a \in DOMAIN new.addressUTXOs :
            new.addressUTXOs[a] = {i \in new.utxos : a \in OutputOf[i].addresses}
    BY <1>1, <1>3
  <1>7. QED
    BY <1>5, <1>6 DEF IndexOf

LEMMA RemoveArrayTyped ==
    ASSUME NEW set, set \in UtxoSets, NEW ids
    PROVE  RemoveArray(set, ids) \in UtxoSets
  <1> DEFINE new == RemoveArray(set, ids)
             dom == DOMAIN set.addressUTXOs
  <1>1. new = [utxos |-> set.utxos \ ids, addressUTXOs |-> [a \in dom |-> set.addressUTXOs[a] \ ids]]
    BY DEF RemoveArray
  <1>2. new.utxos = set.utxos \ ids /\ new.addressUTXOs = [a \in dom |-> set.addressUTXOs[a] \ ids]
    BY <1>1
  <1>3. set.utxos \subseteq UtxoId /\ dom \subseteq Address
        /\ \A a \in dom : set.addressUTXOs[a] \subseteq UtxoId
    BY DEF UtxoSets
  <1>4. DOMAIN new.addressUTXOs = dom /\ new.addressUTXOs \in [dom -> SUBSET UtxoId]
    BY <1>2, <1>3
  <1>5. QED
    BY <1>1, <1>2, <1>3, <1>4 DEF UtxoSets

LEMMA RemoveArrayIndexed ==
    ASSUME NEW set, IndexOf(set), NEW ids
    PROVE  IndexOf(RemoveArray(set, ids))
  <1> DEFINE new == RemoveArray(set, ids)
             dom == DOMAIN set.addressUTXOs
  <1>1. new.utxos = set.utxos \ ids /\ new.addressUTXOs = [a \in dom |-> set.addressUTXOs[a] \ ids]
    BY DEF RemoveArray
  <1>2. \A a \in dom : new.addressUTXOs[a] = {i \in new.utxos : a \in OutputOf[i].addresses}
    BY <1>1 DEF IndexOf
  <1>3. AddressesOf(new.utxos) \subseteq dom
    BY <1>1 DEF IndexOf, AddressesOf
  <1>4. QED
    BY <1>1, <1>2, <1>3 DEF IndexOf

\* What holds of both is said of them together from here on.
Sound(set) == set \in UtxoSets /\ IndexOf(set)

LEMMA AddArraySound ==
    ASSUME NEW set, Sound(set), NEW ids \in SUBSET UtxoId
    PROVE  Sound(AddArray(set, ids))
  BY AddArrayTyped, AddArrayIndexed DEF Sound

LEMMA RemoveArraySound ==
    ASSUME NEW set, Sound(set), NEW ids
    PROVE  Sound(RemoveArray(set, ids))
  BY RemoveArrayTyped, RemoveArrayIndexed DEF Sound

LEMMA EmptySound == Sound(EmptyUtxoSet)
  BY EmptySetFacts DEF Sound

LEMMA SoundIds ==
    ASSUME NEW set, Sound(set)
    PROVE  set.utxos \subseteq UtxoId
  BY DEF Sound, UtxoSets

LEMMA FilterSound ==
    ASSUME NEW set, Sound(set), NEW keep
    PROVE  Sound(Filter(set, keep))
  <1>1. Sound(Clone(set))
    BY EmptySound, AddArraySound, SoundIds DEF Clone
  <1>2. QED
    BY <1>1, RemoveArraySound DEF Filter

LEMMA MergeSound ==
    ASSUME NEW self, Sound(self), NEW new, Sound(new), NEW ids
    PROVE  Sound(Merge(self, new, ids))
  <1>1. self.utxos \cap ids \in SUBSET UtxoId /\ new.utxos \cap ids \in SUBSET UtxoId
    BY SoundIds
  <1>2. Sound(AddArray(EmptyUtxoSet, self.utxos \cap ids))
    BY <1>1, EmptySound, AddArraySound
  <1>3. QED
    BY <1>1, <1>2, AddArraySound DEF Merge

\* Every rule merges one or two times.
LEMMA MergeByRuleSound ==
    ASSUME NEW self, Sound(self), NEW new, Sound(new), NEW rule \in MergeRule
    PROVE  Sound(MergeByRule(self, new, rule))
  <1>1. \A s, t : Sound(s) /\ Sound(t) => Sound(Intersection(s, t))
    BY MergeSound DEF Intersection
  <1>2. \A s, t : Sound(s) /\ Sound(t) => Sound(Difference(s, t))
    BY MergeSound DEF Difference
  <1>3. \A s, t : Sound(s) /\ Sound(t) => Sound(SymDifference(s, t))
    BY MergeSound DEF SymDifference
  <1>4. \A s, t : Sound(s) /\ Sound(t) => Sound(Union(s, t))
    BY MergeSound DEF Union
  <1>5. QED
    BY <1>1, <1>2, <1>3, <1>4 DEF MergeRule, MergeByRule

LEMMA ResultSound ==
    ASSUME NEW answer \in List, NEW kept \in List \cup {NoList}
    PROVE  Sound(ResultOf(answer, kept)) /\ Written(answer, kept) \in List
  <1>1. \A list \in List : Parsed(list) \in SUBSET UtxoId /\ Converted(list) \in SUBSET UtxoId
    BY DEF List, Parsed, Converted
  <1>2. CASE kept = NoList
    BY <1>1, <1>2, EmptySound, AddArraySound DEF ResultOf, Written
  <1>3. CASE kept \in List
    <2>1. Sound(AddArray(EmptyUtxoSet, Parsed(answer)))
      BY <1>1, EmptySound, AddArraySound
    <2>2. Sound(AddArray(AddArray(EmptyUtxoSet, Parsed(answer)), Parsed(kept)))
      BY <1>1, <1>3, <2>1, AddArraySound
    <2>3. kept # NoList
      BY <1>3, NoListAssumption
    <2>4. Written(answer, kept) \in List
      BY <1>1, <1>3, <2>3 DEF Written, List
    <2>5. QED
      BY <2>2, <2>3, <2>4 DEF ResultOf
  <1>4. QED
    BY <1>2, <1>3

-----------------------------------------------------------------------------
\* The specification.

\* TypeOK and IndexAgrees, with the sets taken one by one.
Inv == TypeOK /\ Sound(wallet) /\ \A c \in Call : Sound(calls[c].result)

LEMMA InvIsBoth == Inv <=> TypeOK /\ IndexAgrees
  BY DEF Inv, TypeOK, IndexAgrees, CallState, Sound

LEMMA InitSound == Init => Inv
  <1> SUFFICES ASSUME Init PROVE Inv
    OBVIOUS
  <1>1. Sound(wallet)
    BY EmptySound DEF Init
  <1>2. PICK api \in Api, encoding \in Encoding :
            calls = [c \in Call |->
                        [at |-> "new", api |-> api, persist |-> FALSE, overwrite |-> FALSE,
                         encoding |-> encoding, answer |-> {}, merged |-> FALSE,
                         result |-> EmptyUtxoSet]]
    BY DEF Init
  <1>3. EmptyUtxoSet \in UtxoSets
    BY EmptySetFacts
  <1>4. calls \in [Call -> CallState] /\ \A c \in Call : calls[c].result = EmptyUtxoSet
    BY <1>2, <1>3, EncodingAssumption DEF CallState
  <1>5. baseURL \in [Api -> Namespace] /\ store \in [Namespace -> List \cup {NoList}]
    BY DEF Init
  <1>6. QED
    BY <1>1, <1>4, <1>5, EmptySound DEF Inv, TypeOK, Sound

\* The steps that change a call: the others and their results stay.
LEMMA AskKeeps ==
    ASSUME Inv, NEW c \in Call, NEW api \in Api, NEW persist \in BOOLEAN, NEW overwrite \in BOOLEAN,
           NEW encoding \in Encoding, GetUTXOs(c, api, persist, overwrite, encoding)
    PROVE  Inv'
  <1>1. calls[c] \in CallState
    BY DEF Inv, TypeOK
  <1> DEFINE call == [calls[c] EXCEPT !.at = "asked", !.api = api, !.persist = persist,
                                      !.overwrite = overwrite, !.encoding = encoding]
  <1>2. call \in CallState /\ call.result = calls[c].result
    BY <1>1, EncodingAssumption DEF CallState
  <1>3. calls' = [calls EXCEPT ![c] = call] /\ UNCHANGED <<baseURL, store, wallet>>
    BY DEF GetUTXOs
  <1> HIDE DEF call
  <1>4. calls' \in [Call -> CallState] /\ \A d \in Call : calls'[d].result = calls[d].result
    BY <1>2, <1>3 DEF Inv, TypeOK
  <1>5. Sound(wallet') /\ \A d \in Call : Sound(calls'[d].result)
    BY <1>3, <1>4 DEF Inv
  <1>6. QED
    BY <1>3, <1>4, <1>5 DEF Inv, TypeOK, Sound, IndexOf, IndexedFor

LEMMA FailKeeps ==
    ASSUME Inv, NEW c \in Call, RequestFails(c)
    PROVE  Inv'
  <1>1. calls \in [Call -> CallState]
    BY DEF Inv, TypeOK
  <1>2. /\ calls' \in [Call -> CallState]
        /\ \A d \in Call : calls'[d].result = calls[d].result
        /\ UNCHANGED <<baseURL, store, wallet>>
    BY <1>1 DEF RequestFails, CallState
  <1>3. Sound(wallet') /\ \A d \in Call : Sound(calls'[d].result)
    BY <1>2 DEF Inv
  <1>4. QED
    BY <1>2, <1>3 DEF Inv, TypeOK, Sound, IndexOf, IndexedFor

LEMMA AnswerKeeps ==
    ASSUME Inv, NEW c \in Call, NEW ids \in SUBSET UtxoId, AnswerArrives(c, ids)
    PROVE  Inv'
  <1> DEFINE answer == [ids |-> ids, encoding |-> calls[c].encoding]
             n == baseURL[calls[c].api]
             kept == IF calls[c].persist THEN store[n] ELSE NoList
             call == [calls[c] EXCEPT !.at = "done", !.answer = ids, !.merged = kept # NoList,
                                     !.result = ResultOf(answer, kept)]
  <1>1. calls[c] \in CallState /\ calls \in [Call -> CallState]
    BY DEF Inv, TypeOK
  <1>2. answer \in List /\ n \in Namespace /\ kept \in List \cup {NoList}
    BY <1>1 DEF Inv, TypeOK, CallState, List
  <1>3. Sound(ResultOf(answer, kept)) /\ Written(answer, kept) \in List
    BY <1>2, ResultSound
  <1>4. calls' = [calls EXCEPT ![c] = call] /\ UNCHANGED <<baseURL, wallet>>
        /\ store' = IF calls[c].persist
                    THEN [store EXCEPT ![n] = Keep(Written(answer, kept), kept, calls[c].overwrite)]
                    ELSE store
    BY DEF AnswerArrives
  <1>5. call \in CallState /\ call.result = ResultOf(answer, kept)
    BY <1>1, <1>3 DEF CallState, Sound
  <1>6. store' \in [Namespace -> List \cup {NoList}]
    <2>1. Keep(Written(answer, kept), kept, calls[c].overwrite) \in List \cup {NoList}
      BY <1>2, <1>3 DEF Keep
    <2>2. store \in [Namespace -> List \cup {NoList}]
      BY DEF Inv, TypeOK
    <2> HIDE DEF answer, n, kept, call
    <2>3. QED
      BY <1>4, <2>1, <2>2
  <1> HIDE DEF answer, n, kept, call
  <1>7. calls' \in [Call -> CallState]
    BY <1>1, <1>4, <1>5
  <1>8. \A d \in Call : Sound(calls'[d].result)
    <2> TAKE d \in Call
    <2>1. CASE d = c
      BY <1>1, <1>3, <1>4, <1>5, <2>1
    <2>2. CASE d # c
      BY <1>1, <1>4, <2>2 DEF Inv
    <2>3. QED
      BY <2>1, <2>2
  <1>9. QED
    BY <1>4, <1>6, <1>7, <1>8 DEF Inv, TypeOK, Sound, IndexOf, IndexedFor

LEMMA MoveKeeps ==
    ASSUME Inv, NEW api \in Api, NEW n \in Namespace, SetBaseURL(api, n)
    PROVE  Inv'
  <1>1. store \in [Namespace -> List \cup {NoList}] /\ baseURL \in [Api -> Namespace]
    BY DEF Inv, TypeOK
  <1>2. store' \in [Namespace -> List \cup {NoList}] /\ baseURL' \in [Api -> Namespace]
    BY <1>1 DEF SetBaseURL
  <1>3. UNCHANGED <<calls, wallet>>
    BY DEF SetBaseURL
  <1>4. QED
    BY <1>2, <1>3 DEF Inv, TypeOK, Sound, IndexOf, IndexedFor

\* The steps of the application: the wallet is sound again.
LEMMA WalletKeeps ==
    ASSUME Inv, Sound(wallet'), UNCHANGED <<baseURL, store, calls>>
    PROVE  Inv'
  BY DEF Inv, TypeOK, Sound, IndexOf, IndexedFor

LEMMA NextKeeps == Inv /\ [Next]_vars => Inv'
  <1> SUFFICES ASSUME Inv, [Next]_vars PROVE Inv'
    OBVIOUS
  <1>1. CASE \E c \in Call, api \in Api, persist, overwrite \in BOOLEAN, encoding \in Encoding :
                 GetUTXOs(c, api, persist, overwrite, encoding)
    BY <1>1, AskKeeps
  <1>2. CASE \E c \in Call, ids \in SUBSET UtxoId : AnswerArrives(c, ids)
    BY <1>2, AnswerKeeps
  <1>3. CASE \E c \in Call : RequestFails(c)
    BY <1>3, FailKeeps
  <1>4. CASE \E c \in Call, rule \in MergeRule : MergeResult(c, rule)
    <2>1. PICK c \in Call, rule \in MergeRule : MergeResult(c, rule)
      BY <1>4
    <2>2. Sound(wallet) /\ Sound(calls[c].result)
      BY DEF Inv
    <2>3. Sound(wallet')
      BY <2>1, <2>2, MergeByRuleSound DEF MergeResult
    <2>4. QED
      BY <2>1, <2>3, WalletKeeps DEF MergeResult
  <1>5. CASE \E api \in Api, n \in Namespace : SetBaseURL(api, n)
    BY <1>5, MoveKeeps
  <1>6. CASE \E ids \in SUBSET UtxoId : AddUtxos(ids) \/ RemoveUtxos(ids) \/ FilterUtxos(ids)
    <2>1. PICK ids \in SUBSET UtxoId : AddUtxos(ids) \/ RemoveUtxos(ids) \/ FilterUtxos(ids)
      BY <1>6
    <2>2. Sound(wallet)
      BY DEF Inv
    <2>3. Sound(wallet')
      BY <2>1, <2>2, AddArraySound, RemoveArraySound, FilterSound
         DEF AddUtxos, RemoveUtxos, FilterUtxos
    <2>4. UNCHANGED <<baseURL, store, calls>>
      BY <2>1 DEF AddUtxos, RemoveUtxos, FilterUtxos
    <2>5. QED
      BY <2>3, <2>4, WalletKeeps
  <1>7. CASE UNCHANGED vars
    BY <1>7 DEF vars, Inv, TypeOK, Sound, IndexOf, IndexedFor
  <1>8. QED
    BY <1>1, <1>2, <1>3, <1>4, <1>5, <1>6, <1>7 DEF Next

LEMMA AlwaysInv == Spec => []Inv
  BY InitSound, NextKeeps, PTL DEF Spec

\* Lists, calls and sets keep their shape: nothing a node answers, no list kept in
\* another encoding and no change of a base URL makes one that is not.
THEOREM StoreTypeCorrect == Spec => []TypeOK
  <1>1. Inv => TypeOK
    BY InvIsBoth
  <1>2. QED
    BY <1>1, AlwaysInv, PTL

\* The index from addresses to UTXOs, which every balance is computed with, names
\* exactly the UTXOs of the set, after any sequence of operations on any sets.
THEOREM IndexAlwaysAgrees == Spec => []IndexAgrees
  <1>1. Inv => IndexAgrees
    BY InvIsBoth
  <1>2. QED
    BY <1>1, AlwaysInv, PTL

-----------------------------------------------------------------------------
\* What a balance counts.

\* Of a finite set, as many as one likes can be taken.
LEMMA SubsetOfSize ==
    ASSUME NEW S, IsFiniteSet(S), NEW k \in Nat, k <= Cardinality(S)
    PROVE  \E T \in SUBSET S : Cardinality(T) = k
  <1> DEFINE Sizes(U) == \A n \in Nat : n <= Cardinality(U) => \E T \in SUBSET U : Cardinality(T) = n
             G == {U \in SUBSET S : Sizes(U)}
  <1>1. {} \in G
    <2>1. Cardinality({}) = 0
      BY FS_EmptySet
    <2>2. QED
      BY <2>1
  <1>2. ASSUME NEW U \in SUBSET S, NEW x \in S \ U, U \in G
        PROVE  U \cup {x} \in G
    <2>1. IsFiniteSet(U) /\ Cardinality(U) \in Nat
      BY FS_Subset, FS_CardinalityType
    <2>2. Cardinality(U \cup {x}) = Cardinality(U) + 1
      BY <2>1, FS_AddElement
    <2>3. ASSUME NEW n \in Nat, n <= Cardinality(U \cup {x})
          PROVE  \E T \in SUBSET (U \cup {x}) : Cardinality(T) = n
      <3>1. CASE n <= Cardinality(U)
        BY <1>2, <3>1
      <3>2. CASE n = Cardinality(U) + 1
        BY <2>2, <3>2
      <3>3. QED
        BY <2>1, <2>2, <2>3, <3>1, <3>2
    <2>4. QED
      BY <2>3
  <1> HIDE DEF G
  <1>3. SUBSET S \subseteq G
    BY <1>1, <1>2, SubsetInduction
  <1>4. S \in G
    BY <1>3
  <1>5. QED
    BY <1>4 DEF G

\* The signatures of some of them are the threshold when there are enough of them.
LEMMA EnoughSign ==
    ASSUME NEW o \in Output, NEW who
    PROVE  Cardinality(o.addresses \cap who) >= o.threshold
           <=> \E signers \in SUBSET (o.addresses \cap who) : Cardinality(signers) = o.threshold
  <1> DEFINE S == o.addresses \cap who
  <1>1. o.addresses \subseteq Address /\ o.threshold \in Nat
    BY DEF Output
  <1>2. IsFiniteSet(S) /\ Cardinality(S) \in Nat
    BY <1>1, AddressAssumption, FS_Subset, FS_CardinalityType
  <1> HIDE DEF S
  <1>3. \A T \in SUBSET S : Cardinality(T) \in Nat /\ Cardinality(T) <= Cardinality(S)
    BY <1>2, FS_Subset, FS_CardinalityType
  <1>4. Cardinality(S) >= o.threshold => \E T \in SUBSET S : Cardinality(T) = o.threshold
    BY <1>1, <1>2, SubsetOfSize
  <1>5. (\E T \in SUBSET S : Cardinality(T) = o.threshold) => Cardinality(S) >= o.threshold
    BY <1>1, <1>2, <1>3
  <1>6. QED
    BY <1>4, <1>5 DEF S

\* What getBalance finds by the index and its two tests.
Found(who, asset, now) ==
    {i \in GetUTXOIDs(wallet, who, now) \cap wallet.utxos :
        OutputOf[i].asset = asset /\ MeetsThreshold(OutputOf[i], who, now)}

\* It is found by the index of one of its addresses: a threshold is not 0, so who
\* can sign is named by it.
LEMMA FoundIsSpendable ==
    ASSUME Inv, NEW who \in SUBSET Address, NEW asset, NEW now \in Moment
    PROVE  Found(who, asset, now) = Spendable(who, asset, now)
  <1>1. IndexOf(wallet) /\ wallet.utxos \subseteq UtxoId
    BY SoundIds DEF Inv, Sound
  <1>2. now \in Nat
    BY MomentAssumption
  <1>3. ASSUME NEW i \in wallet.utxos
        PROVE  i \in Found(who, asset, now) <=> i \in Spendable(who, asset, now)
    <2> DEFINE o == OutputOf[i]
    <2>1. /\ o \in Output /\ o.addresses \subseteq Address
          /\ o.threshold \in Nat \ {0} /\ o.locktime \in Nat
      BY <1>1, OutputOfAssumption DEF Output
    <2>2. IsFiniteSet(o.addresses \cap who)
      BY <2>1, AddressAssumption, FS_Subset
    <2>3. ASSUME Cardinality(o.addresses \cap who) >= o.threshold
          PROVE  i \in UNION {IndexedFor(wallet, a) : a \in who}
      <3>1. o.addresses \cap who # {}
        BY <2>1, <2>3, FS_EmptySet
      <3>2. PICK a \in who : a \in o.addresses
        BY <3>1
      <3>3. a \in DOMAIN wallet.addressUTXOs
        BY <1>1, <1>3, <3>2 DEF IndexOf, AddressesOf
      <3>4. i \in IndexedFor(wallet, a)
        BY <1>1, <3>2, <3>3 DEF IndexOf, IndexedFor
      <3>5. QED
        BY <3>4
    <2> HIDE DEF o
    <2>4. i \in Found(who, asset, now)
          <=> /\ o.asset = asset /\ o.locktime < now
              /\ Cardinality(o.addresses \cap who) >= o.threshold
      BY <1>2, <2>1, <2>3 DEF Found, GetUTXOIDs, MeetsThreshold, o
    <2>5. QED
      BY <2>1, <2>4, EnoughSign DEF Spendable, o
  <1>4. QED
    BY <1>3 DEF Found, Spendable

\* Every balance of a wallet is what its addresses can spend of it at that moment,
\* whichever operations on sets and overlapping fetches it came from.
THEOREM BalancesAreSpendable == Spec => []BalanceIsSpendable
  <1>1. Inv => BalanceIsSpendable
    <2> SUFFICES ASSUME Inv, NEW who \in SUBSET Address, NEW asset \in Asset, NEW now \in Moment
                 PROVE  GetBalance(wallet, who, asset, now, now) = SumOver(Spendable(who, asset, now))
      BY DEF BalanceIsSpendable
    <2>1. GetBalance(wallet, who, asset, now, now) = SumOver(Found(who, asset, now))
      BY DEF GetBalance, SumOver, Found
    <2>2. QED
      BY <2>1, FoundIsSpendable
  <1>2. QED
    BY <1>1, AlwaysInv, PTL

-----------------------------------------------------------------------------
\* What is fetched is returned.

\* The answer of a call, once it has arrived, is in its result.
Fetched(call) == call.at = "done" /\ ~Unparsed(call) => call.answer \subseteq call.result.utxos

\* An answer that is not merged is converted first; one in cb58 need not be.
LEMMA ResultHasAnswer ==
    ASSUME NEW answer, NEW kept, kept = NoList \/ answer.encoding = "cb58"
    PROVE  answer.ids \subseteq ResultOf(answer, kept).utxos
  <1>1. \A set, ids : AddArray(set, ids).utxos = set.utxos \cup ids
    BY DEF AddArray
  <1>2. Converted(answer) = answer.ids /\ (answer.encoding = "cb58" => Parsed(answer) = answer.ids)
    BY DEF Parsed, Converted
  <1>3. QED
    BY <1>1, <1>2 DEF ResultOf

\* Whatever is in the store, however calls overlap and base URLs change, getUTXOs
\* returns all that the node has answered with, in cb58, and in hex when there is
\* nothing to merge it with.
THEOREM FetchedIsReturned == Spec => []NothingFetchedIsLost
  <1> DEFINE All == \A c \in Call : Fetched(calls[c])
  <1>1. Init => All
    BY DEF Init, Fetched
  <1>2. Inv /\ All /\ [Next]_vars => All'
    <2> SUFFICES ASSUME Inv, All, [Next]_vars, NEW d \in Call PROVE Fetched(calls'[d])
      BY DEF Fetched, Unparsed
    <2>1. calls \in [Call -> CallState] /\ calls[d] \in CallState /\ Fetched(calls[d])
      BY DEF Inv, TypeOK
    <2>2. ASSUME NEW c \in Call, NEW api \in Api, NEW persist \in BOOLEAN, NEW overwrite \in BOOLEAN,
                 NEW encoding \in Encoding, GetUTXOs(c, api, persist, overwrite, encoding)
          PROVE  Fetched(calls'[d])
      BY <2>1, <2>2 DEF GetUTXOs, Fetched, Unparsed, CallState
    <2>3. ASSUME NEW c \in Call, NEW ids \in SUBSET UtxoId, AnswerArrives(c, ids)
          PROVE  Fetched(calls'[d])
      <3> DEFINE answer == [ids |-> ids, encoding |-> calls[c].encoding]
                 kept == IF calls[c].persist THEN store[baseURL[calls[c].api]] ELSE NoList
                 call == [calls[c] EXCEPT !.at = "done", !.answer = ids, !.merged = kept # NoList,
                                          !.result = ResultOf(answer, kept)]
      <3>1. calls[c] \in CallState /\ calls[c].encoding \in {"hex", "cb58"}
        BY <2>1 DEF CallState
      <3>2. kept = NoList \/ calls[c].encoding = "cb58" => ids \subseteq ResultOf(answer, kept).utxos
        BY ResultHasAnswer
      <3>3. calls' = [calls EXCEPT ![c] = call]
        BY <2>3 DEF AnswerArrives
      <3> HIDE DEF answer, kept
      <3>4. /\ call.encoding = calls[c].encoding /\ call.answer = ids
            /\ call.merged = (kept # NoList) /\ call.result = ResultOf(answer, kept)
        BY <3>1 DEF CallState
      <3> HIDE DEF call
      <3>5. Fetched(call)
        BY <3>1, <3>2, <3>4 DEF Fetched, Unparsed
      <3>6. calls'[d] = IF d = c THEN call ELSE calls[d]
        BY <2>1, <3>3
      <3>7. QED
        BY <2>1, <3>5, <3>6
    <2>4. ASSUME NEW c \in Call, RequestFails(c)
          PROVE  Fetched(calls'[d])
      BY <2>1, <2>4 DEF RequestFails, Fetched, Unparsed, CallState
    <2>5. ASSUME UNCHANGED calls
          PROVE  Fetched(calls'[d])
      BY <2>1, <2>5
    <2>6. QED
      BY <2>2, <2>3, <2>4, <2>5 DEF Next, vars, MergeResult, SetBaseURL, AddUtxos, RemoveUtxos, FilterUtxos
  <1>3. All => NothingFetchedIsLost
    BY DEF Fetched, NothingFetchedIsLost
  <1>4. QED
    BY <1>1, <1>2, <1>3, AlwaysInv, PTL DEF Spec
=============================================================================
