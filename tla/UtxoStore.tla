----------------------------- MODULE UtxoStore -----------------------------
(***************************************************************************)
(* Fetching and keeping UTXOs: getUTXOs of the X- and P-chain APIs with    *)
(* its PersistanceOptions, the local store of APIBase (src/common/         *)
(* apibase.ts), which API objects with one base URL share, and the wallet  *)
(* of an application, a UTXOSet that follows what it fetches.              *)
(*                                                                         *)
(* A call of getUTXOs waits for the node; other calls, a change of the     *)
(* base URL and the application run in between.  The lists in the store    *)
(* are kept under one name.                                                *)
(***************************************************************************)
EXTENDS UtxoSet

CONSTANTS
    Api,            \* API objects
    Namespace,      \* base URLs, each with a namespace of the store
    Call,           \* calls of getUTXOs
    Encoding,       \* of "hex", "cb58": what getUTXOs is called with
    NoList,
    Moment          \* moments at which balances are asked for

ASSUME EncodingAssumption == Encoding \subseteq {"hex", "cb58"}

\* Strings of UTXOs in an encoding.
List == [ids : SUBSET UtxoId, encoding : {"hex", "cb58"}]

ASSUME NoListAssumption == NoList \notin List

\* An address is 20 bytes.
ASSUME AddressAssumption == IsFiniteSet(Address)

ASSUME MomentAssumption == Moment \subseteq Nat

VARIABLES
    baseURL,        \* API -> its namespace
    store,          \* namespace -> the list kept in it
    calls,          \* call -> what it is at, its arguments, the answer, its result, and
                    \* whether there was a list to merge the answer with
    wallet

vars == <<baseURL, store, calls, wallet>>

Init ==
    /\ baseURL \in [Api -> Namespace]
    /\ store = [n \in Namespace |-> NoList]
    /\ \E api \in Api, encoding \in Encoding :
        calls = [c \in Call |->
                    [at |-> "new", api |-> api, persist |-> FALSE, overwrite |-> FALSE,
                     encoding |-> encoding, answer |-> {}, merged |-> FALSE,
                     result |-> EmptyUtxoSet]]
    /\ wallet = EmptyUtxoSet

-----------------------------------------------------------------------------
\* The request is sent and awaited.
GetUTXOs(c, api, persist, overwrite, encoding) ==
    /\ calls[c].at = "new"
    /\ calls' = [calls EXCEPT ![c] = [@ EXCEPT !.at = "asked", !.api = api, !.persist = persist,
                                              !.overwrite = overwrite, !.encoding = encoding]]
    /\ UNCHANGED <<baseURL, store, wallet>>

\* addArray on strings: parseUTXO reads cb58 only, a string it cannot read is
\* logged and skipped.
Parsed(list) == IF list.encoding = "cb58" THEN list.ids ELSE {}

\* hex strings, recognised by their 0x, are converted at the end.
Converted(list) == list.ids

\* Mutant: only what the store had is returned.
ResultOfStored(answer, kept) ==
    AddArray(EmptyUtxoSet, IF kept = NoList THEN Converted(answer) ELSE Parsed(kept))

\* The UTXOs returned: those of the answer that could be parsed, then those in
\* data, which is what was in the store if there was something.
ResultOf(answer, kept) ==
    IF kept = NoList THEN AddArray(EmptyUtxoSet, Converted(answer))
    ELSE AddArray(AddArray(EmptyUtxoSet, Parsed(answer)), Parsed(kept))

\* What is written back: the set that mergeByRule returns is dropped, so it is
\* what was in the store.
Written(answer, kept) ==
    IF kept = NoList THEN answer ELSE [ids |-> Parsed(kept), encoding |-> "cb58"]

\* db.set(name, data, overwrite)
Keep(list, kept, overwrite) == IF kept # NoList /\ ~overwrite THEN kept ELSE list

\* The answer arrives; the store is that of the base URL of now.
AnswerArrives(c, ids) ==
    /\ calls[c].at = "asked"
    /\ LET answer == [ids |-> ids, encoding |-> calls[c].encoding]
           n == baseURL[calls[c].api]
           kept == IF calls[c].persist THEN store[n] ELSE NoList
       IN /\ calls' = [calls EXCEPT ![c] = [@ EXCEPT !.at = "done", !.answer = ids,
                                                   !.merged = kept # NoList,
                                                   !.result = ResultOf(answer, kept)]]
          /\ store' = IF calls[c].persist
                      THEN [store EXCEPT ![n] = Keep(Written(answer, kept), kept, calls[c].overwrite)]
                      ELSE store
    /\ UNCHANGED <<baseURL, wallet>>

RequestFails(c) ==
    /\ calls[c].at = "asked"
    /\ calls' = [calls EXCEPT ![c].at = "failed"]
    /\ UNCHANGED <<baseURL, store, wallet>>

\* What the store has under the old URL moves to the new one, whoever uses it.
SetBaseURL(api, n) ==
    /\ n # baseURL[api]
    /\ baseURL' = [baseURL EXCEPT ![api] = n]
    /\ LET backup == store[baseURL[api]]
       IN store' = [store EXCEPT ![baseURL[api]] = NoList, ![n] = IF backup = NoList THEN @ ELSE backup]
    /\ UNCHANGED <<calls, wallet>>

-----------------------------------------------------------------------------
\* The application.

AddUtxos(ids) ==
    /\ wallet' = AddArray(wallet, ids)
    /\ UNCHANGED <<baseURL, store, calls>>

RemoveUtxos(ids) ==
    /\ wallet' = RemoveArray(wallet, ids)
    /\ UNCHANGED <<baseURL, store, calls>>

FilterUtxos(keep) ==
    /\ wallet' = Filter(wallet, keep)
    /\ UNCHANGED <<baseURL, store, calls>>

MergeResult(c, rule) ==
    /\ calls[c].at = "done"
    /\ wallet' = MergeByRule(wallet, calls[c].result, rule)
    /\ UNCHANGED <<baseURL, store, calls>>

Next ==
    \/ \E c \in Call :
        \/ \E api \in Api, persist, overwrite \in BOOLEAN, encoding \in Encoding :
            GetUTXOs(c, api, persist, overwrite, encoding)
        \/ \E ids \in SUBSET UtxoId : AnswerArrives(c, ids)
        \/ RequestFails(c)
        \/ \E rule \in MergeRule : MergeResult(c, rule)
    \/ \E api \in Api, n \in Namespace : SetBaseURL(api, n)
    \/ \E ids \in SUBSET UtxoId : AddUtxos(ids) \/ RemoveUtxos(ids) \/ FilterUtxos(ids)

Spec == Init /\ [][Next]_vars

-----------------------------------------------------------------------------
CallState == [at : {"new", "asked", "done", "failed"}, api : Api, persist : BOOLEAN,
              overwrite : BOOLEAN, encoding : {"hex", "cb58"}, answer : SUBSET UtxoId,
              merged : BOOLEAN, result : UtxoSets]

TypeOK ==
    /\ baseURL \in [Api -> Namespace]
    /\ store \in [Namespace -> List \cup {NoList}]
    /\ calls \in [Call -> CallState]
    /\ wallet \in UtxoSets

\* However a set came about, by fetching, merging, filtering or removing, its index
\* names exactly the UTXOs it has: no balance counts a UTXO that is gone, and none
\* is overlooked.
IndexAgrees == IndexOf(wallet) /\ \A c \in Call : IndexOf(calls[c].result)

\* platformvm/api.ts:1428, "Retrieves the UTXOs related to the addresses provided":
\* whatever is in the store and whoever else uses it, the UTXOs that the node has
\* answered with are returned.
AnswerIsReturned == \A c \in Call : calls[c].at = "done" => calls[c].answer \subseteq calls[c].result.utxos

\* In hex, the default, an answer is not returned if there was a list to merge it
\* with: its strings are parsed before they are converted.
Unparsed(call) == call.encoding = "hex" /\ call.merged

\* In either encoding, with any list that other calls and clients have stored
\* meanwhile, all the UTXOs that the node has answered with are returned, unless
\* they are merged unparsed.
NothingFetchedIsLost ==
    \A c \in Call : calls[c].at = "done" /\ ~Unparsed(calls[c]) =>
        calls[c].answer \subseteq calls[c].result.utxos

SumOver(ids) == MapThenSumSet(LAMBDA i : OutputOf[i].amount, ids)

\* The UTXOs of the wallet which these addresses can spend now, found without the
\* index: the lock is over, and the signatures of some of them are the threshold.
Spendable(who, asset, now) ==
    {i \in wallet.utxos :
        /\ OutputOf[i].asset = asset
        /\ OutputOf[i].locktime < now
        /\ \E signers \in SUBSET (OutputOf[i].addresses \cap who) :
               Cardinality(signers) = OutputOf[i].threshold}

\* The balance, which is computed with the index and two tests of the lock, is what
\* the addresses can spend of the UTXOs now, counted without the index: everything
\* their signatures are enough for, the moment its lock is over.
BalanceIsSpendable ==
    \A who \in SUBSET Address, asset \in Asset, now \in Moment :
        GetBalance(wallet, who, asset, now, now) = SumOver(Spendable(who, asset, now))
=============================================================================
