-------------------------- MODULE NetworkSettings --------------------------
(***************************************************************************)
(* The connection of an Avalanche object to a network: setNetwork and      *)
(* addAPI of src/camino.ts, fetchNetworkSettings and setupAPIs of          *)
(* src/index.ts, and the registry of src/utils/networks.ts, which all      *)
(* Avalanche objects share.                                                *)
(*                                                                         *)
(* fetchNetworkSettings awaits up to two answers; other calls run while it *)
(* waits, setNetwork among them, and every request goes to the URL of the  *)
(* moment it is made.  Each call of it is a member of Fetch and runs once. *)
(*                                                                         *)
(* Two parts of the state are history, which no guard reads: a call is     *)
(* "overtaken" when setNetwork comes in while it awaits an answer, and     *)
(* "late" says that a call has gone on with an answer all the same.        *)
(***************************************************************************)
EXTENDS Naturals

CONSTANTS
    Node,           \* the nodes that can be connected to
    NetworkID,
    NetworkOf,      \* node -> the id of its network
    Configured,     \* the nodes that have platform.getConfiguration
    Predefined,     \* the networks of networks.ts
    Fetch,          \* the calls of fetchNetworkSettings
    MaxChanges,     \* bound: calls of setNetwork
    NoID, NoNetwork, NoAPI, Unbound

ASSUME NetworkOfAssumption == NetworkOf \in [Node -> NetworkID]

ASSUME SubsetsAssumption == Configured \subseteq Node /\ Predefined \subseteq NetworkID

ASSUME MaxChangesAssumption == MaxChanges \in Nat

\* A Network: where its configuration and its fees come from.
Network == [net : NetworkID, fees : NetworkID, preDefined : BOOLEAN]

ASSUME NonesAssumption == NoID \notin NetworkID /\ NoNetwork \notin Network /\ Unbound # NoAPI
                          /\ {NoAPI, Unbound} \cap Network = {}

VARIABLES
    url,            \* the node of the URL
    networkID,
    network,
    registry,       \* networkID -> Network
    pchain,         \* apis.pchain: the network it was made for
    chains,         \* the other APIs that setupAPIs makes: the same for them
    info,           \* apis.info exists
    fetches,        \* what a fetchNetworkSettings is at, and its locals
    changes,        \* calls of setNetwork so far
    late            \* an overtaken call has used an answer

vars == <<url, networkID, network, registry, pchain, chains, info, fetches, changes, late>>

core == <<url, networkID, network, registry>>
apis == <<pchain, chains, info>>
count == <<changes, late>>

\* "configuring", "identifying", "pricing": awaiting getConfiguration,
\* getNetworkID, getTxFee; asked: the node the request went to; refused: it has
\* thrown "Configuration required".
Awaiting == {"configuring", "identifying", "pricing"}

PredefinedNetwork(id) == [net |-> id, fees |-> id, preDefined |-> TRUE]

\* Mutant: a network of the library counts as one that was fetched.
IsPredefinedInverted(id) == id \in NetworkID /\ registry[id] # NoNetwork /\ ~registry[id].preDefined

\* networks.isPredefined
IsPredefined(id) == id \in NetworkID /\ registry[id] # NoNetwork /\ registry[id].preDefined

-----------------------------------------------------------------------------
\* The constructor: the APIs are made if the network is predefined.
Init ==
    /\ url \in Node
    /\ networkID \in NetworkID \cup {NoID}
    /\ registry = [id \in NetworkID |-> IF id \in Predefined THEN PredefinedNetwork(id) ELSE NoNetwork]
    /\ network = IF IsPredefined(networkID) THEN registry[networkID] ELSE NoNetwork
    /\ pchain = IF network = NoNetwork THEN NoAPI ELSE network
    /\ chains = pchain
    /\ info = (network # NoNetwork)
    /\ fetches = [f \in Fetch |-> [at |-> "new", asked |-> url, response |-> NoID,
                                   pAPI |-> NoAPI, iAPI |-> FALSE, overtaken |-> FALSE]]
    /\ changes = 0
    /\ late = FALSE

\* Mutant: the network is forgotten only if the id is another one.
ForgottenIfOther(id) == networkID # id

\* The network is forgotten unless it is the same predefined one.
Forgotten(id) == networkID # id \/ ~IsPredefined(id)

\* The APIs stay as they are, and calls that are pending go on.
SetNetwork(node, id) ==
    /\ changes < MaxChanges
    /\ changes' = changes + 1
    /\ network' = IF Forgotten(id) THEN NoNetwork ELSE network
    /\ url' = node
    /\ networkID' = id
    /\ fetches' = [f \in Fetch |->
                      [fetches[f] EXCEPT !.overtaken = @ \/ fetches[f].at \in Awaiting]]
    /\ UNCHANGED <<registry, apis, late>>

-----------------------------------------------------------------------------
\* The request goes to the node of the URL.
Await(f, where, locals) ==
    fetches' = [fetches EXCEPT ![f] = [locals EXCEPT !.at = where, !.asked = url]]

Settle(f, how) == fetches' = [fetches EXCEPT ![f].at = how]

\* History: the call goes on with an answer.
GoesOn(f) == late' = (late \/ fetches[f].overtaken)

\* Mutant: an API that is there is not made again.
SetupMissingAPIs ==
    /\ pchain' = IF pchain = NoAPI THEN network' ELSE pchain
    /\ chains' = network'
    /\ info' = TRUE

\* setupAPIs, for the network as it is now.
SetupAPIs ==
    /\ pchain' = network'
    /\ chains' = network'
    /\ info' = TRUE

KnownNetwork(f) ==
    /\ fetches[f].at = "new"
    /\ network # NoNetwork
    /\ Settle(f, "returned")
    /\ UNCHANGED <<core, apis, count>>

\* The APIs needed for the requests replace those that are there; a PlatformVMAPI
\* made without a network has no blockchainID.
StartFetch(f) ==
    /\ fetches[f].at = "new"
    /\ network = NoNetwork
    /\ Await(f, "configuring", [fetches[f] EXCEPT !.pAPI = pchain, !.iAPI = info])
    /\ pchain' = Unbound
    /\ info' = TRUE
    /\ UNCHANGED <<core, chains, count>>

\* A network id that is predefined settles it, whoever answered with it.
UsePredefined(f, id) ==
    /\ IsPredefined(id)
    /\ networkID' = id
    /\ network' = registry[id]
    /\ SetupAPIs
    /\ Settle(f, "returned")
    /\ UNCHANGED <<url, registry, changes>>

\* Info() is undefined when another call has restored it to that: the call throws.
InfoIsGone(f) == ~info /\ Settle(f, "failed")

ConfigurationArrives(f) ==
    /\ fetches[f].at = "configuring"
    /\ fetches[f].asked \in Configured
    /\ GoesOn(f)
    /\ LET id == NetworkOf[fetches[f].asked]
       IN \/ UsePredefined(f, id)
          \/ /\ ~IsPredefined(id)
             /\ networkID' = id
             /\ \/ InfoIsGone(f)
                \/ info /\ Await(f, "pricing", [fetches[f] EXCEPT !.response = id])
             /\ UNCHANGED <<url, network, registry, apis, changes>>

\* The node does not know the method, or the request fails: its id is asked for.
ConfigurationFails(f) ==
    /\ fetches[f].at = "configuring"
    /\ \/ InfoIsGone(f)
       \/ info /\ Await(f, "identifying", fetches[f])
    /\ UNCHANGED <<core, apis, count>>

\* "Configuration required": the APIs found at the start are put back.
NetworkIDArrives(f) ==
    /\ fetches[f].at = "identifying"
    /\ GoesOn(f)
    /\ LET id == NetworkOf[fetches[f].asked]
       IN \/ UsePredefined(f, id)
          \/ /\ ~IsPredefined(id)
             /\ networkID' = id
             /\ pchain' = fetches[f].pAPI
             /\ info' = fetches[f].iAPI
             /\ Settle(f, "refused")
             /\ UNCHANGED <<url, network, registry, chains, changes>>

\* The network is registered under the id of now.
FeesArrive(f) ==
    /\ fetches[f].at = "pricing"
    /\ GoesOn(f)
    /\ network' = [net |-> fetches[f].response, fees |-> NetworkOf[fetches[f].asked], preDefined |-> FALSE]
    /\ registry' = [registry EXCEPT ![networkID] = network']
    /\ SetupAPIs
    /\ Settle(f, "returned")
    /\ UNCHANGED <<url, networkID, changes>>

\* Any other failed request is thrown on, and what was changed stays.
RequestFails(f) ==
    /\ fetches[f].at \in {"identifying", "pricing"}
    /\ Settle(f, "failed")
    /\ UNCHANGED <<core, apis, count>>

FetchStep(f) ==
    \/ KnownNetwork(f)
    \/ StartFetch(f)
    \/ ConfigurationArrives(f)
    \/ ConfigurationFails(f)
    \/ NetworkIDArrives(f)
    \/ FeesArrive(f)
    \/ RequestFails(f)

Next ==
    \/ \E node \in Node, id \in NetworkID : SetNetwork(node, id)
    \/ \E f \in Fetch : FetchStep(f)

Spec == Init /\ [][Next]_vars

-----------------------------------------------------------------------------
\* "Gets the current network": the network in use is the one of the network id,
\* settings and fees come from the same place, and a network that was fetched is
\* that of the node the URL leads to.  Contradicted when setNetwork comes in
\* while the answers are awaited.
CurrentNetwork ==
    network # NoNetwork =>
        /\ network.net = networkID
        /\ network.fees = networkID
        /\ ~network.preDefined => NetworkOf[url] = networkID

\* The same whatever calls overlap and whenever setNetwork comes in, as long as
\* no call that setNetwork has overtaken goes on with an answer: one that fails,
\* or is still waiting, does no harm.
NetworkIsCurrent == ~late => CurrentNetwork

\* The networks of the library are as they came, and every network is found under
\* its own id.
TrueRegistry ==
    \A id \in NetworkID :
        /\ id \in Predefined => registry[id] = PredefinedNetwork(id)
        /\ registry[id] # NoNetwork => registry[id].net = id

\* What some node answers never replaces a network that comes with the library,
\* for this Avalanche object or any other one, nor is it found under another id,
\* unless a call that setNetwork has overtaken goes on with an answer.
RegistryIsTrue == ~late => TrueRegistry

\* With the network known, the chains' APIs are made for it, whatever calls are
\* pending; unless a call has put back the APIs it found, which another call may
\* have put there for its own requests.
ApisAreBound ==
    /\ network # NoNetwork
    /\ \A f \in Fetch : fetches[f].at # "refused"
    => pchain = network /\ chains = network
=============================================================================
