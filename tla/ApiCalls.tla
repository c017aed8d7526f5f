------------------------------ MODULE ApiCalls ------------------------------
(***************************************************************************)
(* The calls of PlatformVMAPI, AVMAPI and EVMAPI that build or send        *)
(* transactions: src/apis/platformvm/api.ts, src/apis/avm/api.ts,          *)
(* src/apis/evm/api.ts.  A call is a program, a sequence of steps: it      *)
(* checks arguments, reads from the network of the client and from the     *)
(* caches of its API object, asks the node, builds.  It runs to its next   *)
(* await without interruption; there other calls run, and the client may   *)
(* change to another network and make new API objects, while calls in      *)
(* flight keep the old ones.                                               *)
(*                                                                         *)
(* Values are known by the network they come from, which is that of the    *)
(* node for an answer.  Calls of different APIs share nothing but the      *)
(* network, so a behaviour is of one of them.  setNetwork forgets the      *)
(* network and leads to another node; fetchNetworkSettings, here in one    *)
(* step, knows the network again and makes the APIs (NetworkSettings has   *)
(* it in detail).  External: the node, which answers or fails.             *)
(***************************************************************************)
EXTENDS Integers, SequencesExt

CONSTANTS
    Network,        \* networks, numbers from 1
    BondDeposit,    \* network -> lockModeBondDeposit
    CreationTxFee,  \* network -> createAssetTxFee, in AVAX
    Slot,           \* bound: calls that are made
    FlawsOf,        \* slot -> what may be wrong with its call
    MaxSwitches     \* bound: changes of the network

ASSUME NetworkAssumption == Network \subseteq Nat \ {0}

ASSUME CreationTxFeeAssumption == CreationTxFee \in [Network -> Nat]

\* undefined
Unset == 0

ONEAVAX == 1

VARIABLES
    api,            \* the API whose calls these are: "P", "X" or "C"
    node,           \* the network of the node of the URL, and the networkID
    network,        \* core.network, Unset between setNetwork and fetchNetworkSettings
    objects,        \* the objects of the API that were made, newest last
    calls,          \* slot -> its call
    switches,       \* calls of setNetwork so far
    adrift          \* objects whose baseURL some getAssetDescription did not put back right

vars == <<api, node, network, objects, calls, switches, adrift>>

-----------------------------------------------------------------------------
\* The programs: P-chain

PBuildBaseTx == <<"Args", "NetworkID", "TxFee", "AssetID", "Build", "GooseIgnored">>
PBuildImportTx == <<"Args", "Check", "Utxos", "AssetID", "NetworkID", "TxFee", "Build", "Goose">>
PBuildExportTx == <<"Check", "Args", "AssetID", "NetworkID", "TxFee", "Build", "Goose">>
PBuildAddSubnetValidatorTx ==
    <<"Args", "AssetID", "Check", "NetworkID", "DefaultTxFee", "Build", "Goose">>
PBuildAddDelegatorTx ==
    <<"Args", "MinStake", "Check", "AssetID", "CheckTime", "NoBonds", "NetworkID", "Build", "Goose">>
PBuildAddValidatorTx ==
    <<"Args", "MinStake", "Check", "AssetID", "CheckTime", "NetworkID", "Build", "Goose">>
PBuildCreateSubnetTx == <<"Args", "AssetID", "NetworkID", "DefaultTxFee", "Build", "GooseCreation">>
PBuildCreateChainTx == <<"Args", "AssetID", "NetworkID", "DefaultTxFee", "Build", "GooseCreation">>
PBuildCaminoAddValidatorTx ==
    <<"Args", "MinStake", "Check", "AssetID", "CheckTime", "NetworkID", "Build", "Goose">>
PBuildAddressStateTx == <<"Args", "AssetID", "NetworkID", "TxFee", "Check", "Build", "GooseCreation">>
PBuildRegisterNodeTx == <<"Args", "AssetID", "NetworkID", "TxFee", "Build", "GooseCreation">>
PBuildDepositTx == <<"Args", "AssetID", "NetworkID", "TxFee", "Check", "Build", "GooseCreation">>
PBuildUnlockDepositTx == <<"Args", "AssetID", "NetworkID", "TxFee", "Build", "GooseCreation">>
PBuildClaimTx == <<"Args", "Check", "AssetID", "NetworkID", "TxFee", "Build", "GooseCreation">>
PBuildMultisigAliasTx == <<"Args", "AssetID", "NetworkID", "TxFee", "Build", "GooseCreation">>
PBuildAddDepositOfferTx ==
    <<"Args", "AssetID", "NetworkID", "TxFee", "Check", "Build", "GooseCreation">>
PBuildAddProposalTx == <<"Args", "AssetID", "NetworkID", "TxFee", "Build", "GooseCreation">>
PBuildAddVoteTx == <<"Args", "AssetID", "NetworkID", "TxFee", "Check", "Build", "GooseCreation">>
PIssueTx == <<"Check", "Request">>

\* X-chain

XBuildBaseTx == <<"Args", "NetworkID", "TxFee", "AssetID", "Build", "Goose">>
XBuildNFTTransferTx == <<"Args", "AssetID", "NetworkID", "TxFee", "Build", "Goose">>
XBuildImportTx ==
    <<"Args", "Check", "Utxos", "AssetID", "Atomics", "NetworkID", "TxFee", "Build", "Goose">>
XBuildExportTx == <<"Check", "Args", "AssetID", "NetworkID", "TxFee", "Build", "Goose">>
XBuildCreateAssetTx ==
    <<"Args", "Check", "NetworkID", "AssetID", "DefaultTxFee", "Build", "GooseOfFee">>
XBuildSECPMintTx == <<"Args", "NetworkID", "AssetID", "MintTxFee", "Build", "Goose">>
XBuildCreateNFTAssetTx ==
    <<"Args", "Check", "NetworkID", "CreationTxFee", "AssetID", "Build", "GooseOfFee">>
XBuildCreateNFTMintTx == <<"Args", "AssetID", "NetworkID", "TxFee", "Build", "Goose">>
XIssueTx == <<"Check", "Request">>

\* C-chain: the fee is an argument, nothing is checked after the building.

CBuildImportTx == <<"Check", "Utxos", "NetworkID", "NetworkAssetID", "Atomics", "Build">>
CBuildImportGivenTx == <<"Check", "NetworkID", "NetworkAssetID", "Atomics", "Build">>
CBuildExportTx == <<"Check", "Describe", "NetworkID", "Build">>
CGetAVAXAssetID == <<"AssetID">>
CGetAssetDescription == <<"Describe">>
CIssueTx == <<"Check", "Request">>
CGetBaseFee == <<"RequestRpc">>

ProgramsOf ==
    [P |-> {PBuildBaseTx, PBuildImportTx, PBuildExportTx, PBuildAddSubnetValidatorTx, PBuildAddDelegatorTx,
            PBuildAddValidatorTx, PBuildCreateSubnetTx, PBuildCreateChainTx, PBuildCaminoAddValidatorTx,
            PBuildAddressStateTx, PBuildRegisterNodeTx, PBuildDepositTx, PBuildUnlockDepositTx,
            PBuildClaimTx, PBuildMultisigAliasTx, PBuildAddDepositOfferTx, PBuildAddProposalTx,
            PBuildAddVoteTx, PIssueTx},
     X |-> {XBuildBaseTx, XBuildNFTTransferTx, XBuildImportTx, XBuildExportTx, XBuildCreateAssetTx,
            XBuildSECPMintTx, XBuildCreateNFTAssetTx, XBuildCreateNFTMintTx, XIssueTx},
     C |-> {CBuildImportTx, CBuildImportGivenTx, CBuildExportTx, CGetAVAXAssetID,
            CGetAssetDescription, CIssueTx, CGetBaseFee}]

-----------------------------------------------------------------------------
\* What a new object of the API knows: its blockchainID, for the network of now.
\* minStake, alias (but for the P-chain) and the fees are filled in at their first use.
NewObject(n) == [made |-> n, url |-> api, alias |-> Unset, asset |-> Unset, txFee |-> Unset,
              creationTxFee |-> Unset, mintTxFee |-> Unset, minStake |-> Unset]

NoRequest == [url |-> "", node |-> Unset]

\* at: "idle" before it is made, "awaiting" an answer (request) or only its turn,
\* "returned" or "failed".  begun: steps begun.  steady: made on the newest object
\* with its network known, and no setNetwork since.
Idle == [at |-> "idle", program |-> <<>>, object |-> 1, begun |-> 0, request |-> NoRequest,
         flaw |-> "none", steady |-> FALSE, saved |-> "", networkID |-> Unset, fee |-> Unset,
         assetID |-> Unset, minStake |-> Unset, utxos |-> Unset, creationFee |-> Unset,
         checked |-> Unset]

Bearing(c) == c.program[c.begun]

\* What it burns and what goes to outputs, in AVAX: a Goose Egg, or fat with outputs.
BurnOf(flaw) == IF flaw \in {"egg", "fat"} THEN 20 ELSE 1

OutputTotalOf(flaw) == IF flaw = "fat" THEN 30 ELSE 0

-----------------------------------------------------------------------------
\* a: the call c and its object o, while it runs.

Throw(a) == [a EXCEPT !.c.at = "failed"]

Await(a) == IF a.c.at = "failed" THEN a ELSE [a EXCEPT !.c.at = "awaiting"]

\* callMethod: to the URL of the object, at the node of the moment.
CallMethod(a, url) == [Await(a) EXCEPT !.c.request = [url |-> url, node |-> node]]

\* A getter that reads the network at its first use.
Cached(a, field) ==
    IF a.o[field] # Unset THEN a
    ELSE IF network = Unset THEN Throw(a)
    ELSE [a EXCEPT !.o[field] = network]

\* The alias, for the addresses among the arguments: the API of the P-chain does not
\* keep it.
GetBlockchainAlias(a) ==
    IF api # "P" THEN Cached(a, "alias") ELSE IF network = Unset THEN Throw(a) ELSE a

GetFee(a, field, reg) == LET b == Cached(a, field) IN [b EXCEPT !.c[reg] = b.o[field]]

\* A getter that does not keep what it reads.
GetDefault(a, reg) == IF network = Unset THEN Throw(a) ELSE [a EXCEPT !.c[reg] = network]

DescribeAt(a, url) == CallMethod([a EXCEPT !.c.saved = a.o.url, !.o.url = url], url)

\* Every API but the one of the C-chain asks at its own URL.
GetAssetDescription(a) == IF api = "C" THEN DescribeAt(a, "X") ELSE CallMethod(a, a.o.url)

\* The value is read when it is there, not when the call gets its turn.
GetAVAXAssetID(a, reg) ==
    IF api = "P" \/ a.o.asset # Unset THEN Await(GetFee(a, "asset", reg)) ELSE GetAssetDescription(a)

IsGoose(step) == step \in {"Goose", "GooseCreation", "GooseOfFee", "GooseIgnored"}

\* The arguments of checkGooseEgg are there before it awaits the asset.
OutTotalKnown(a, step) ==
    CASE step = "GooseCreation" -> GetFee(a, "creationTxFee", "creationFee")
      [] step = "GooseOfFee" -> [a EXCEPT !.c.creationFee = a.c.fee]
      [] OTHER -> a

\* Only the builders of the P-chain are asynchronous.
Build(a) ==
    IF a.c.flaw = "poor" THEN Throw(a)
    ELSE IF api # "P" THEN a
    ELSE IF network = Unset THEN Throw(a)
    ELSE IF BondDeposit[network] THEN CallMethod(a, a.o.url)
    ELSE Await(a)

\* Up to the first await of the step.
Begin(a, step) ==
    CASE step = "Args" -> IF a.c.flaw = "args" THEN Throw(a) ELSE GetBlockchainAlias(a)
      [] step = "Check" -> IF a.c.flaw = "check" THEN Throw(a) ELSE a
      [] step = "CheckTime" -> IF a.c.flaw = "time" THEN Throw(a) ELSE a
      [] step = "NetworkID" -> [a EXCEPT !.c.networkID = node]
      [] step = "TxFee" -> GetFee(a, "txFee", "fee")
      [] step = "CreationTxFee" -> GetFee(a, "creationTxFee", "fee")
      [] step = "MintTxFee" -> GetFee(a, "mintTxFee", "fee")
      [] step = "DefaultTxFee" -> GetDefault(a, "fee")
      [] step = "NetworkAssetID" -> GetDefault(a, "assetID")
      [] step = "NoBonds" -> IF network = Unset THEN Throw(a)
                             ELSE IF BondDeposit[network] THEN Throw(a) ELSE a
      [] step = "Atomics" -> IF a.c.flaw = "empty" THEN Throw(a) ELSE a
      [] step = "MinStake" -> IF a.o.minStake # Unset THEN Await(GetFee(a, "minStake", "minStake"))
                              ELSE CallMethod(a, a.o.url)
      [] step = "AssetID" -> GetAVAXAssetID(a, "assetID")
      [] step = "Describe" -> GetAssetDescription(a)
      [] step \in {"Utxos", "Request"} -> CallMethod(a, a.o.url)
      [] step = "RequestRpc" -> CallMethod(a, "C/rpc")
      [] step = "Build" -> Build(a)
      [] IsGoose(step) -> LET b == OutTotalKnown(a, step)
                          IN IF b.c.at = "failed" THEN b ELSE GetAVAXAssetID(b, "checked")

-----------------------------------------------------------------------------
\* checkGooseEgg: a sum in another asset than that of the transaction is 0.
OfChecked(c, sum) == IF c.checked = c.assetID THEN sum ELSE 0

OutTotal(c) ==
    LET given == IF c.creationFee = Unset THEN 0 ELSE CreationTxFee[c.creationFee]
    IN IF given > 0 THEN given ELSE OfChecked(c, OutputTotalOf(c.flaw))

PassesGooseCheck(c) ==
    LET fee == OfChecked(c, BurnOf(c.flaw))
    IN fee <= 10 * ONEAVAX \/ fee <= OutTotal(c)

\* Mutant: the error is made and not thrown.
CheckGooseMade(a, step) == a

CheckGoose(a, step) == IF step # "GooseIgnored" /\ ~PassesGooseCheck(a.c) THEN Throw(a) ELSE a

\* Mutant: the URL stays.
PutBackNever(a) == a

\* getAssetDescription of the C-chain puts the URL back.
PutBack(a) == IF a.c.request.url = "X" /\ api = "C" THEN [a EXCEPT !.o.url = a.c.saved] ELSE a

Answered(a) == a.c.request # NoRequest

\* The answer is there, or the turn of a call that needed none.
Complete(a, step) ==
    LET answer == a.c.request.node
    IN CASE step \in {"Utxos", "Build"} /\ Answered(a) -> [a EXCEPT !.c.utxos = answer]
         [] step = "MinStake" /\ Answered(a) -> [a EXCEPT !.o.minStake = answer, !.c.minStake = answer]
         [] step = "Describe" -> [PutBack(a) EXCEPT !.c.assetID = answer]
         [] step = "AssetID" /\ Answered(a) -> [PutBack(a) EXCEPT !.o.asset = answer, !.c.assetID = answer]
         [] IsGoose(step) ->
                CheckGoose(IF Answered(a) THEN [a EXCEPT !.o.asset = answer, !.c.checked = answer] ELSE a, step)
         [] OTHER -> a

\* The next step, if the call is still running.
Advance(a, step) ==
    IF a.c.at # "running" THEN a ELSE Begin([a EXCEPT !.c.begun = @ + 1], step)

\* The only element of a set: TLC evaluates it once.
The(S) == CHOOSE x \in S : TRUE

AdvanceOnce(a, step) == The({Advance(b, step) : b \in {a}})

\* The steps up to the next await, or to the end.
Run(a) ==
    LET rest == SubSeq(a.c.program, a.c.begun + 1, Len(a.c.program))
        end == FoldLeft(AdvanceOnce, a, rest)
    IN The({IF b.c.at = "running" THEN [b EXCEPT !.c.at = "returned"] ELSE b : b \in {end}})

Continue(a) ==
    IF a.c.at = "failed" THEN a
    ELSE The({Run(b) : b \in {[a EXCEPT !.c.at = "running", !.c.request = NoRequest]}})

Describing(c) == c.at = "awaiting" /\ api = "C" /\ c.request.url = "X" /\ Bearing(c) \in {"AssetID", "Describe"}

DescribingOn(o) == {s \in Slot : Describing(calls[s]) /\ calls[s].object = o}

\* Of a call that has failed, or was overtaken by setNetwork, nothing more is asked.
Settled(c) ==
    IF c.at = "failed" \/ (c.at = "returned" /\ ~c.steady) THEN [Idle EXCEPT !.at = c.at] ELSE c

Proceed(s, a) ==
    /\ calls' = [calls EXCEPT ![s] = Settled(a.c)]
    /\ objects' = [objects EXCEPT ![a.c.object] = a.o]
    /\ UNCHANGED <<api, node, network, switches>>

\* A description that begins while another one is in flight has the wrong URL to put back.
OverlapNoted(s) ==
    LET o == calls'[s].object
    IN adrift' = IF Describing(calls[s])' /\ DescribingOn(o) \ {s} # {} THEN adrift \cup {o} ELSE adrift

-----------------------------------------------------------------------------
Init ==
    /\ api \in DOMAIN ProgramsOf
    /\ node \in Network
    /\ network = node
    /\ objects = <<NewObject(node)>>
    /\ calls = [s \in Slot |-> Idle]
    /\ switches = 0
    /\ adrift = {}

\* The step at which it matters what is wrong with a call.
StepOf == [args |-> "Args", check |-> "Check", time |-> "CheckTime", empty |-> "Atomics",
           poor |-> "Build", egg |-> "Build", fat |-> "Build"]

\* What may be wrong with a call of this program.
Bears(program, flaw) == flaw \in DOMAIN StepOf => StepOf[flaw] \in ToSet(program)

\* A caller may hold an object that is not the newest.
Call(s) ==
    /\ calls[s].at = "idle"
    /\ \A t \in Slot : t < s => calls[t].at # "idle"
    /\ \E program \in ProgramsOf[api], o \in DOMAIN objects, flaw \in FlawsOf[s] :
           /\ Bears(program, flaw)
           /\ LET c == [Idle EXCEPT !.at = "running", !.program = program, !.object = o, !.flaw = flaw,
                                    !.steady = (o = Len(objects) /\ network # Unset)]
              IN \E a \in {Run([o |-> objects[o], c |-> c])} : Proceed(s, a)
    /\ OverlapNoted(s)

\* What was awaited is there.
Resume(s) ==
    /\ calls[s].at = "awaiting"
    /\ LET now == [c |-> calls[s], o |-> objects[calls[s].object]]
       IN \E a \in {Complete(now, Bearing(calls[s]))} : \E b \in {Continue(a)} : Proceed(s, b)
    /\ OverlapNoted(s)

\* A request fails: what is thrown passes through everything.
AnswerFails(s) ==
    /\ calls[s].at = "awaiting"
    /\ calls[s].request # NoRequest
    /\ Proceed(s, Throw([c |-> calls[s], o |-> objects[calls[s].object]]))
    /\ adrift' = IF Describing(calls[s]) THEN adrift \cup {calls[s].object} ELSE adrift

SetNetwork ==
    /\ network # Unset
    /\ switches < MaxSwitches
    /\ switches' = switches + 1
    /\ node' \in Network \ {node}
    /\ network' = Unset
    /\ calls' = [s \in Slot |-> Settled([calls[s] EXCEPT !.steady = FALSE])]
    /\ UNCHANGED <<api, objects, adrift>>

\* Mutant: the object of the API keeps what it has read.
FetchNetworkSettingsKept ==
    /\ network = Unset
    /\ network' = node
    /\ objects' = Append(objects, [objects[Len(objects)] EXCEPT !.made = node])
    /\ UNCHANGED <<api, node, calls, switches, adrift>>

FetchNetworkSettings ==
    /\ network = Unset
    /\ network' = node
    /\ objects' = Append(objects, NewObject(node))
    /\ UNCHANGED <<api, node, calls, switches, adrift>>

CallStep(s) == Call(s) \/ Resume(s) \/ AnswerFails(s)

Next == SetNetwork \/ FetchNetworkSettings \/ \E s \in Slot : CallStep(s)

Spec == Init /\ [][Next]_vars

-----------------------------------------------------------------------------
\* A call that was made on the newest object with its network known, and was not
\* overtaken by setNetwork, has everything from that network: network id, fee,
\* asset, stake, UTXOs and blockchainID, whatever was cached by other calls, or
\* is cached by calls that are still in flight for another network.
OneNetwork ==
    \A s \in Slot :
        LET c == calls[s]
        IN c.at = "returned" /\ c.steady =>
               {c.networkID, c.fee, c.assetID, c.minStake, c.utxos} \subseteq {Unset, objects[c.object].made}

\* A Goose Egg is not returned: no transaction burns more than 10 AVAX and more
\* than what goes to its outputs (or than the fee for an asset, when it is
\* measured with that).  Not so for the base transactions of the P-chain, and for
\* a call that was overtaken by setNetwork: its asset may not be what is burnt.
NoGooseEggReturned ==
    \A s \in Slot :
        LET c == calls[s]
        IN /\ c.at = "returned" /\ c.steady
           /\ api # "C" /\ c.program \notin {PBuildBaseTx, PIssueTx}
           => \/ BurnOf(c.flaw) <= 10
              \/ BurnOf(c.flaw) <= OutputTotalOf(c.flaw)
              \/ c.creationFee # Unset /\ BurnOf(c.flaw) <= CreationTxFee[c.creationFee]

\* Requests of the API of the C-chain lead to the C-chain, but for descriptions
\* of assets, those made while a description is in flight, and those made after
\* one has failed or overlapped with another: the URL is the object's.
RequestsGoHome ==
    [][\A s \in Slot :
           LET c == calls'[s]
           IN /\ c.request # calls[s].request /\ c.request # NoRequest
              /\ ~Describing(calls[s])'
              => \/ c.request.url \in {api, "C/rpc"}
                 \/ c.object \in adrift
                 \/ DescribingOn(c.object) # {}]_vars
=============================================================================
