----------------------- MODULE NetworkSettings_proofs -----------------------
(***************************************************************************)
(* What an Avalanche object knows of its network, for any number of nodes, *)
(* networks, pending calls of fetchNetworkSettings and calls of setNetwork.*)
(*                                                                         *)
(* That the network is the one of the URL holds as long as no call that    *)
(* setNetwork has overtaken goes on with an answer: until then, whatever a *)
(* call that was not overtaken is at, it asked the node the URL still      *)
(* leads to.  That the APIs are made for the network needs no such care.   *)
(***************************************************************************)
EXTENDS NetworkSettings, TLAPS

API == Network \cup {NoNetwork, NoAPI, Unbound}

FetchState ==
    [at : Awaiting \cup {"new", "returned", "failed", "refused"}, asked : Node,
     response : NetworkID \cup {NoID}, pAPI : API, iAPI : BOOLEAN, overtaken : BOOLEAN]

TypeOK ==
    /\ url \in Node
    /\ networkID \in NetworkID \cup {NoID}
    /\ network \in Network \cup {NoNetwork}
    /\ registry \in [NetworkID -> Network \cup {NoNetwork}]
    /\ pchain \in API
    /\ chains \in API
    /\ info \in BOOLEAN
    /\ fetches \in [Fetch -> FetchState]
    /\ \A f \in Fetch : fetches[f].at = "pricing" => fetches[f].response \in NetworkID
    /\ changes \in Nat
    /\ late \in BOOLEAN

\* The registry knows a network of the library as it came, and no other one as
\* predefined.
Registered ==
    /\ TrueRegistry
    /\ \A id \in NetworkID \ Predefined : registry[id] # NoNetwork => ~registry[id].preDefined

\* What a pending call asked, it asked of the node of the URL, unless it was
\* overtaken; a network that is known meanwhile is the one of that node, and so is the answer that waits for
\* its fees, which is no network of the library.
PendingIsCurrent ==
    \A f \in Fetch :
        fetches[f].at \in Awaiting /\ ~fetches[f].overtaken =>
            /\ fetches[f].asked = url
            /\ network # NoNetwork => networkID = NetworkOf[url]
            /\ fetches[f].at = "pricing" =>
                   /\ fetches[f].response = networkID
                   /\ networkID = NetworkOf[url]
                   /\ networkID \notin Predefined

\* The network in use is predefined if its id is.
UsesPredefined ==
    network # NoNetwork => (network.preDefined <=> networkID \in Predefined)

Current == Registered /\ PendingIsCurrent /\ UsesPredefined /\ CurrentNetwork

\* As long as no overtaken call has gone on with an answer.
Inv == TypeOK /\ (~late => Current)

\* The chains' APIs follow the network, and only a call that was refused can have
\* taken the one of the P-chain back.
ApisFollow ==
    network # NoNetwork =>
        /\ chains = network
        /\ pchain = network \/ \E f \in Fetch : fetches[f].at = "refused"
-----------------------------------------------------------------------------
LEMMA PredefinedFacts ==
    ASSUME NEW id \in NetworkID
    PROVE  /\ PredefinedNetwork(id) \in Network
           /\ PredefinedNetwork(id).net = id /\ PredefinedNetwork(id).fees = id
           /\ PredefinedNetwork(id).preDefined
           /\ PredefinedNetwork(id) # NoNetwork
  <1>1. PredefinedNetwork(id) \in Network
    BY DEF PredefinedNetwork, Network
  <1>2. /\ PredefinedNetwork(id).net = id /\ PredefinedNetwork(id).fees = id
        /\ PredefinedNetwork(id).preDefined
    BY DEF PredefinedNetwork
  <1>3. QED
    BY <1>1, <1>2, NonesAssumption

\* isPredefined says what came with the library, once the registry is true.
LEMMA IsPredefinedExactly ==
    ASSUME TypeOK, Registered, NEW id \in NetworkID \cup {NoID}
    PROVE  /\ IsPredefined(id) <=> id \in Predefined
           /\ IsPredefined(id) => registry[id] = PredefinedNetwork(id) /\ id \in NetworkID
  <1>1. CASE id = NoID
    BY <1>1, NonesAssumption, SubsetsAssumption DEF IsPredefined
  <1>2. CASE id \in NetworkID
    <2>1. id \in Predefined => registry[id] = PredefinedNetwork(id)
      BY <1>2 DEF Registered, TrueRegistry
    <2>2. id \notin Predefined /\ registry[id] # NoNetwork => ~registry[id].preDefined
      BY <1>2 DEF Registered
    <2>3. QED
      BY <1>2, <2>1, <2>2, PredefinedFacts DEF IsPredefined
  <1>3. QED
    BY <1>1, <1>2

LEMMA FetchFacts ==
    ASSUME TypeOK, NEW f \in Fetch
    PROVE  /\ fetches[f] \in FetchState
           /\ fetches[f].at \in Awaiting \cup {"new", "returned", "failed", "refused"}
           /\ fetches[f].asked \in Node
           /\ NetworkOf[fetches[f].asked] \in NetworkID
           /\ fetches[f].response \in NetworkID \cup {NoID}
           /\ fetches[f].pAPI \in API /\ fetches[f].iAPI \in BOOLEAN
           /\ fetches[f].overtaken \in BOOLEAN
  BY NetworkOfAssumption DEF TypeOK, FetchState

\* How a call's own record changes.
LEMMA Settled ==
    ASSUME TypeOK, NEW f \in Fetch, NEW how \in {"returned", "failed", "refused"}, Settle(f, how)
    PROVE  /\ fetches' \in [Fetch -> FetchState]
           /\ fetches'[f].at = how
           /\ fetches'[f].overtaken = fetches[f].overtaken
           /\ \A g \in Fetch : g # f => fetches'[g] = fetches[g]
  BY DEF Settle, TypeOK, FetchState

LEMMA Awaited ==
    ASSUME TypeOK, NEW f \in Fetch, NEW where \in Awaiting, NEW locals \in FetchState,
           Await(f, where, locals)
    PROVE  /\ fetches' \in [Fetch -> FetchState]
           /\ fetches'[f].at = where
           /\ fetches'[f].asked = url
           /\ fetches'[f].response = locals.response
           /\ fetches'[f].overtaken = locals.overtaken
           /\ \A g \in Fetch : g # f => fetches'[g] = fetches[g]
  BY DEF Await, TypeOK, FetchState

-----------------------------------------------------------------------------
\* The initial states.

LEMMA InitInv == Init => Inv /\ ApisFollow
  <1> SUFFICES ASSUME Init PROVE Inv /\ ApisFollow
    OBVIOUS
  <1> USE SubsetsAssumption
  <1>1. /\ registry \in [NetworkID -> Network \cup {NoNetwork}]
        /\ \A id \in NetworkID : registry[id] = IF id \in Predefined THEN PredefinedNetwork(id) ELSE NoNetwork
    BY PredefinedFacts DEF Init
  <1>2. Registered
    BY <1>1, PredefinedFacts DEF Registered, TrueRegistry
  <1>3. /\ networkID \in NetworkID \cup {NoID}
        /\ IsPredefined(networkID) => networkID \in NetworkID
        /\ IsPredefined(networkID) <=> networkID \in Predefined
    BY <1>1, PredefinedFacts, NonesAssumption DEF Init, IsPredefined
  <1>4. network = IF networkID \in Predefined THEN PredefinedNetwork(networkID) ELSE NoNetwork
    BY <1>1, <1>3 DEF Init
  <1>5. network \in Network \cup {NoNetwork}
    BY <1>4, PredefinedFacts
  <1>6. \A f \in Fetch : fetches[f].at = "new"
    BY DEF Init
  <1>7. fetches \in [Fetch -> FetchState]
    BY DEF Init, FetchState, API
  <1>8. TypeOK
    BY <1>1, <1>5, <1>6, <1>7 DEF TypeOK, Init, API
  <1>9. PendingIsCurrent
    BY <1>6 DEF PendingIsCurrent, Awaiting
  <1>10. UsesPredefined /\ CurrentNetwork
    BY <1>4, PredefinedFacts DEF UsesPredefined, CurrentNetwork
  <1>11. ApisFollow
    BY DEF ApisFollow, Init
  <1>12. QED
    BY <1>2, <1>8, <1>9, <1>10, <1>11 DEF Inv, Current

-----------------------------------------------------------------------------
\* The steps, typed.

LEMMA TypeStep ==
    ASSUME TypeOK, [Next]_vars
    PROVE  TypeOK'
  <1> USE DEF core, apis, count
  <1>1. CASE UNCHANGED vars
    BY <1>1 DEF vars, TypeOK
  <1>2. ASSUME NEW node \in Node, NEW id \in NetworkID, SetNetwork(node, id) PROVE TypeOK'
    <2>1. fetches' \in [Fetch -> FetchState]
      BY <1>2 DEF SetNetwork, TypeOK, FetchState
    <2>2. \A f \in Fetch : /\ fetches'[f].at = fetches[f].at
                           /\ fetches'[f].response = fetches[f].response
      BY <1>2 DEF SetNetwork, TypeOK, FetchState
    <2>3. QED
      BY <1>2, <2>1, <2>2 DEF SetNetwork, TypeOK
  <1>3. ASSUME NEW f \in Fetch, FetchStep(f) PROVE TypeOK'
    <2> DEFINE Pricing == \A g \in Fetch : fetches[g].at = "pricing" => fetches[g].response \in NetworkID
    <2>0. /\ Pricing
          /\ API = Network \cup {NoNetwork, NoAPI, Unbound}
      BY DEF TypeOK, API
    <2>1. ASSUME NEW how \in {"returned", "failed", "refused"}, Settle(f, how)
          PROVE  fetches' \in [Fetch -> FetchState] /\ Pricing'
      BY <2>0, <2>1, Settled
    <2>2. ASSUME NEW id \in NetworkID, UsePredefined(f, id), GoesOn(f) PROVE TypeOK'
      <3>1. registry[id] \in Network
        BY <2>2 DEF UsePredefined, IsPredefined, TypeOK
      <3>2. QED
        BY <2>0, <2>1, <2>2, <3>1, FetchFacts DEF UsePredefined, SetupAPIs, GoesOn, TypeOK
    <2>3. CASE KnownNetwork(f)
      BY <2>1, <2>3 DEF KnownNetwork, TypeOK
    <2>4. CASE StartFetch(f)
      <3> DEFINE locals == [fetches[f] EXCEPT !.pAPI = pchain, !.iAPI = info]
      <3>1. locals \in FetchState
        BY FetchFacts DEF FetchState, TypeOK
      <3>2. Await(f, "configuring", locals)
        BY <2>4 DEF StartFetch
      <3> HIDE DEF locals
      <3>3. fetches' \in [Fetch -> FetchState] /\ Pricing'
        BY <2>0, <3>1, <3>2, Awaited DEF Awaiting
      <3>4. QED
        BY <2>0, <2>4, <3>3 DEF StartFetch, TypeOK
    <2>5. CASE ConfigurationArrives(f)
      <3> DEFINE id == NetworkOf[fetches[f].asked]
                 locals == [fetches[f] EXCEPT !.response = id]
      <3>1. id \in NetworkID
        BY FetchFacts
      <3>2. locals \in FetchState /\ locals.response = id
        BY <3>1, FetchFacts DEF FetchState
      <3>3. CASE UsePredefined(f, id)
        BY <2>2, <2>5, <3>1, <3>3 DEF ConfigurationArrives
      <3>4. CASE ~UsePredefined(f, id)
        <4>0. late' \in BOOLEAN
          BY <2>5, FetchFacts DEF ConfigurationArrives, GoesOn, TypeOK
        <4>1. /\ networkID' = id
              /\ Settle(f, "failed") \/ Await(f, "pricing", locals)
              /\ UNCHANGED <<url, network, registry, apis, changes>>
          BY <2>5, <3>4 DEF ConfigurationArrives, InfoIsGone
        <4> HIDE DEF id, locals
        <4>2. fetches' \in [Fetch -> FetchState] /\ Pricing'
          BY <2>0, <2>1, <3>1, <3>2, <4>1, Awaited DEF Awaiting
        <4>3. QED
          BY <3>1, <4>0, <4>1, <4>2 DEF TypeOK
      <3>5. QED
        BY <3>3, <3>4
    <2>6. CASE ConfigurationFails(f)
      <3>1. Settle(f, "failed") \/ Await(f, "identifying", fetches[f])
        BY <2>6 DEF ConfigurationFails, InfoIsGone
      <3>2. fetches' \in [Fetch -> FetchState] /\ Pricing'
        BY <2>0, <2>1, <3>1, Awaited, FetchFacts DEF Awaiting
      <3>3. QED
        BY <2>6, <3>2 DEF ConfigurationFails, TypeOK
    <2>7. CASE NetworkIDArrives(f)
      <3>1. CASE UsePredefined(f, NetworkOf[fetches[f].asked])
        BY <2>2, <2>7, <3>1, FetchFacts DEF NetworkIDArrives
      <3>2. CASE ~UsePredefined(f, NetworkOf[fetches[f].asked])
        BY <2>1, <2>7, <3>2, FetchFacts DEF NetworkIDArrives, GoesOn, TypeOK
      <3>3. QED
        BY <3>1, <3>2
    <2>8. CASE FeesArrive(f)
      <3>1. network' \in Network
        BY <2>0, <2>8, FetchFacts DEF FeesArrive, Network
      <3>2. QED
        BY <2>0, <2>1, <2>8, <3>1, FetchFacts DEF FeesArrive, SetupAPIs, GoesOn, TypeOK
    <2>9. CASE RequestFails(f)
      BY <2>1, <2>9 DEF RequestFails, TypeOK
    <2>10. QED
      BY <1>3, <2>3, <2>4, <2>5, <2>6, <2>7, <2>8, <2>9 DEF FetchStep
  <1>4. QED
    BY <1>1, <1>2, <1>3 DEF Next

-----------------------------------------------------------------------------
\* The steps of a call, one by one, under what is known before them.

\* A network of the library is taken over: it is the one the answer named.
LEMMA UsePredefinedStep ==
    ASSUME TypeOK, Current, NEW f \in Fetch, fetches[f].at \in Awaiting, ~fetches[f].overtaken,
           UsePredefined(f, NetworkOf[fetches[f].asked])
    PROVE  Current'
  <1> DEFINE id == NetworkOf[fetches[f].asked]
  <1>1. TypeOK /\ Registered /\ PendingIsCurrent
    BY DEF Current
  <1>2. id \in NetworkID /\ id = NetworkOf[url]
    BY <1>1, FetchFacts DEF PendingIsCurrent
  <1>3. /\ networkID' = id /\ network' = registry[id]
        /\ UNCHANGED <<url, registry>>
        /\ IsPredefined(id) /\ Settle(f, "returned")
    BY DEF UsePredefined
  <1> HIDE DEF id
  <1>4. network' = PredefinedNetwork(id) /\ id \in Predefined
    BY <1>1, <1>2, <1>3, IsPredefinedExactly
  <1>5. Registered'
    BY <1>1, <1>3 DEF Registered, TrueRegistry
  <1>6. UsesPredefined' /\ CurrentNetwork'
    BY <1>2, <1>3, <1>4, PredefinedFacts DEF UsesPredefined, CurrentNetwork
  <1>7. PendingIsCurrent'
    <2> SUFFICES ASSUME NEW g \in Fetch, fetches'[g].at \in Awaiting, ~fetches'[g].overtaken
                 PROVE  /\ fetches'[g].asked = url
                        /\ fetches'[g].at = "pricing" =>
                               fetches'[g].response = id /\ id \notin Predefined
      BY <1>2, <1>3 DEF PendingIsCurrent
    <2>1. g # f /\ fetches'[g] = fetches[g]
      BY <1>1, <1>3, Settled DEF Awaiting
    <2>2. QED
      BY <1>1, <1>2, <2>1 DEF PendingIsCurrent
  <1>8. QED
    BY <1>5, <1>6, <1>7 DEF Current

\* A call that settles changes nothing for the others.
LEMMA SettleStep ==
    ASSUME TypeOK, Current, NEW f \in Fetch, NEW how \in {"returned", "failed", "refused"}, Settle(f, how),
           UNCHANGED <<url, network, registry>>,
           \/ networkID' = networkID
           \/ /\ networkID' = NetworkOf[url] /\ networkID' \notin Predefined
              /\ fetches[f].at \in Awaiting /\ ~fetches[f].overtaken
    PROVE  Current'
  <1>1. TypeOK /\ Registered /\ PendingIsCurrent /\ UsesPredefined /\ CurrentNetwork
    BY DEF Current
  <1>2. Registered'
    BY <1>1 DEF Registered, TrueRegistry
  <1>3. network # NoNetwork => networkID' = networkID
    BY <1>1 DEF PendingIsCurrent
  <1>4. UsesPredefined' /\ CurrentNetwork'
    BY <1>1, <1>3 DEF UsesPredefined, CurrentNetwork
  <1>5. PendingIsCurrent'
    <2> SUFFICES ASSUME NEW g \in Fetch, fetches'[g].at \in Awaiting, ~fetches'[g].overtaken
                 PROVE  /\ fetches'[g].asked = url
                        /\ network # NoNetwork => networkID' = NetworkOf[url]
                        /\ fetches'[g].at = "pricing" =>
                               /\ fetches'[g].response = networkID'
                               /\ networkID' = NetworkOf[url]
                               /\ networkID' \notin Predefined
      BY DEF PendingIsCurrent
    <2>1. g # f /\ fetches'[g] = fetches[g]
      BY <1>1, Settled DEF Awaiting
    <2>2. QED
      BY <1>1, <1>3, <2>1 DEF PendingIsCurrent
  <1>6. QED
    BY <1>2, <1>4, <1>5 DEF Current

\* A request goes out: to the node of the URL, and waits for the fees only of a
\* network that is that of the node and none of the library.
LEMMA AwaitStep ==
    ASSUME TypeOK, Current, NEW f \in Fetch, NEW where \in Awaiting, NEW locals \in FetchState,
           Await(f, where, locals), UNCHANGED <<url, network, registry>>,
           network # NoNetwork => networkID' = networkID,
           network # NoNetwork /\ ~locals.overtaken => networkID' = NetworkOf[url],
           networkID' = networkID \/ (networkID' = NetworkOf[url] /\ networkID' \notin Predefined),
           where = "pricing" => /\ locals.response = networkID'
                                /\ networkID' = NetworkOf[url] /\ networkID' \notin Predefined
    PROVE  Current'
  <1>1. TypeOK /\ Registered /\ PendingIsCurrent /\ UsesPredefined /\ CurrentNetwork
    BY DEF Current
  <1>2. Registered'
    BY <1>1 DEF Registered, TrueRegistry
  <1>3. UsesPredefined' /\ CurrentNetwork'
    BY <1>1 DEF UsesPredefined, CurrentNetwork
  <1>4. PendingIsCurrent'
    <2> SUFFICES ASSUME NEW g \in Fetch, fetches'[g].at \in Awaiting, ~fetches'[g].overtaken
                 PROVE  /\ fetches'[g].asked = url
                        /\ network # NoNetwork => networkID' = NetworkOf[url]
                        /\ fetches'[g].at = "pricing" =>
                               /\ fetches'[g].response = networkID'
                               /\ networkID' = NetworkOf[url]
                               /\ networkID' \notin Predefined
      BY DEF PendingIsCurrent
    <2>1. CASE g = f
      BY <1>1, <2>1, Awaited
    <2>2. CASE g # f
      <3>1. fetches'[g] = fetches[g]
        BY <1>1, <2>2, Awaited
      <3>2. QED
        BY <1>1, <3>1 DEF PendingIsCurrent
    <2>3. QED
      BY <2>1, <2>2
  <1>5. QED
    BY <1>2, <1>3, <1>4 DEF Current

\* The fees arrive: the network is registered under the id of the answer, which
\* is none of the library's.
LEMMA FeesArriveStep ==
    ASSUME TypeOK, Current, NEW f \in Fetch, FeesArrive(f), ~fetches[f].overtaken
    PROVE  Current'
  <1>1. TypeOK /\ Registered /\ PendingIsCurrent
    BY DEF Current
  <1>2. /\ fetches[f].at = "pricing" /\ fetches[f].asked = url
        /\ fetches[f].response = networkID /\ networkID = NetworkOf[url]
        /\ networkID \notin Predefined
    BY <1>1 DEF FeesArrive, PendingIsCurrent, Awaiting
  <1>3. networkID \in NetworkID
    BY <1>1, <1>2, FetchFacts
  <1>4. /\ network' = [net |-> networkID, fees |-> networkID, preDefined |-> FALSE]
        /\ registry' = [registry EXCEPT ![networkID] = network']
        /\ UNCHANGED <<url, networkID>> /\ Settle(f, "returned")
    BY <1>2 DEF FeesArrive
  <1>5. network'.net = networkID /\ network'.fees = networkID /\ network'.preDefined = FALSE
    BY <1>4
  <1>6. /\ registry'[networkID] = network'
        /\ \A id \in NetworkID : id # networkID => registry'[id] = registry[id]
    BY <1>1, <1>3, <1>4 DEF TypeOK
  <1>7. Registered'
    BY <1>1, <1>2, <1>5, <1>6 DEF Registered, TrueRegistry
  <1>8. UsesPredefined' /\ CurrentNetwork'
    BY <1>2, <1>4, <1>5 DEF UsesPredefined, CurrentNetwork
  <1>9. PendingIsCurrent'
    <2> SUFFICES ASSUME NEW g \in Fetch, fetches'[g].at \in Awaiting, ~fetches'[g].overtaken
                 PROVE  /\ fetches'[g].asked = url
                        /\ fetches'[g].at = "pricing" => fetches'[g].response = networkID
      BY <1>2, <1>4 DEF PendingIsCurrent
    <2>1. fetches'[g] = fetches[g]
      BY <1>1, <1>4, Settled DEF Awaiting
    <2>2. QED
      BY <1>1, <2>1 DEF PendingIsCurrent
  <1>10. QED
    BY <1>7, <1>8, <1>9 DEF Current

\* setNetwork overtakes whatever is pending, and a network that it keeps is one of
\* the library, and that of the id.
LEMMA SetNetworkStep ==
    ASSUME TypeOK, Current, NEW node \in Node, NEW id \in NetworkID, SetNetwork(node, id)
    PROVE  Current'
  <1>1. Registered /\ UsesPredefined /\ CurrentNetwork
    BY DEF Current
  <1>2. /\ network' = IF networkID # id \/ ~IsPredefined(id) THEN NoNetwork ELSE network
        /\ networkID' = id /\ registry' = registry
    BY DEF SetNetwork, Forgotten, apis
  <1>3. Registered'
    BY <1>1, <1>2 DEF Registered, TrueRegistry
  <1>4. PendingIsCurrent'
    <2>1. ASSUME NEW g \in Fetch, fetches'[g].at \in Awaiting PROVE fetches'[g].overtaken
      BY <2>1 DEF SetNetwork, TypeOK, FetchState
    <2>2. QED
      BY <2>1 DEF PendingIsCurrent
  <1>5. network' # NoNetwork => network' = network /\ networkID = id /\ id \in Predefined
    BY <1>1, <1>2, IsPredefinedExactly
  <1>6. UsesPredefined' /\ CurrentNetwork'
    BY <1>1, <1>2, <1>5 DEF UsesPredefined, CurrentNetwork
  <1>7. QED
    BY <1>3, <1>4, <1>6 DEF Current

LEMMA CurrentStep ==
    ASSUME TypeOK, Current, [Next]_vars, ~late'
    PROVE  Current'
  <1> USE DEF core, apis, count
  <1>0. TypeOK /\ Registered /\ PendingIsCurrent
    BY DEF Current
  <1>1. CASE UNCHANGED vars
    BY <1>1 DEF vars, Current, Registered, TrueRegistry, PendingIsCurrent, UsesPredefined,
                CurrentNetwork
  <1>2. ASSUME NEW node \in Node, NEW id \in NetworkID, SetNetwork(node, id) PROVE Current'
    BY <1>2, SetNetworkStep
  <1>3. ASSUME NEW f \in Fetch, FetchStep(f) PROVE Current'
    <2> DEFINE answer == NetworkOf[fetches[f].asked]
    <2>0. /\ answer \in NetworkID
          /\ fetches[f].at \in Awaiting /\ ~fetches[f].overtaken =>
                 fetches[f].asked = url /\ answer = NetworkOf[url]
          /\ fetches[f].at \in Awaiting /\ ~fetches[f].overtaken /\ network # NoNetwork =>
                 networkID = NetworkOf[url]
          /\ ~IsPredefined(answer) => answer \notin Predefined
      BY <1>0, FetchFacts, IsPredefinedExactly DEF PendingIsCurrent
    <2>1. CASE KnownNetwork(f)
      BY <2>1, SettleStep DEF KnownNetwork
    <2>2. CASE StartFetch(f)
      <3> DEFINE locals == [fetches[f] EXCEPT !.pAPI = pchain, !.iAPI = info]
      <3>1. locals \in FetchState
        BY <1>0, FetchFacts DEF FetchState, TypeOK
      <3>2. Await(f, "configuring", locals) /\ UNCHANGED <<url, networkID, network, registry>>
            /\ network = NoNetwork
        BY <2>2 DEF StartFetch
      <3> HIDE DEF locals
      <3>3. QED
        BY <3>1, <3>2, AwaitStep DEF Awaiting
    <2>3. CASE ConfigurationArrives(f)
      <3> DEFINE locals == [fetches[f] EXCEPT !.response = answer]
      <3>1. fetches[f].at \in Awaiting /\ ~fetches[f].overtaken
        BY <2>3 DEF ConfigurationArrives, GoesOn, Awaiting
      <3>2. CASE UsePredefined(f, answer)
        BY <3>1, <3>2, UsePredefinedStep
      <3>3. CASE ~UsePredefined(f, answer)
        <4>1. /\ networkID' = answer /\ ~IsPredefined(answer)
              /\ Settle(f, "failed") \/ Await(f, "pricing", locals)
              /\ UNCHANGED <<url, network, registry>>
          BY <2>3, <3>3 DEF ConfigurationArrives, InfoIsGone
        <4>2. locals \in FetchState /\ locals.response = answer /\ locals.overtaken = fetches[f].overtaken
          BY <1>0, <2>0, FetchFacts DEF FetchState
        <4> HIDE DEF answer, locals
        <4>3. CASE Settle(f, "failed")
          BY <2>0, <3>1, <4>1, <4>3, SettleStep
        <4>4. CASE Await(f, "pricing", locals)
          BY <2>0, <3>1, <4>1, <4>2, <4>4, AwaitStep DEF Awaiting
        <4>5. QED
          BY <4>1, <4>3, <4>4
      <3>4. QED
        BY <3>2, <3>3
    <2>4. CASE ConfigurationFails(f)
      <3>1. /\ Settle(f, "failed") \/ Await(f, "identifying", fetches[f])
            /\ UNCHANGED <<url, networkID, network, registry>> /\ fetches[f].at \in Awaiting
        BY <2>4 DEF ConfigurationFails, InfoIsGone, Awaiting
      <3>2. CASE Settle(f, "failed")
        BY <3>1, <3>2, SettleStep
      <3>3. CASE Await(f, "identifying", fetches[f])
        BY <1>0, <2>0, <3>1, <3>3, FetchFacts, AwaitStep DEF Awaiting
      <3>4. QED
        BY <3>1, <3>2, <3>3
    <2>5. CASE NetworkIDArrives(f)
      <3>1. fetches[f].at \in Awaiting /\ ~fetches[f].overtaken
        BY <2>5 DEF NetworkIDArrives, GoesOn, Awaiting
      <3>2. CASE UsePredefined(f, answer)
        BY <3>1, <3>2, UsePredefinedStep
      <3>3. CASE ~UsePredefined(f, answer)
        <4>1. /\ networkID' = answer /\ ~IsPredefined(answer)
              /\ Settle(f, "refused")
              /\ UNCHANGED <<url, network, registry>>
          BY <2>5, <3>3 DEF NetworkIDArrives
        <4> HIDE DEF answer
        <4>2. QED
          BY <2>0, <3>1, <4>1, SettleStep
      <3>4. QED
        BY <3>2, <3>3
    <2>6. CASE FeesArrive(f)
      BY <2>6, FeesArriveStep DEF FeesArrive, GoesOn
    <2>7. CASE RequestFails(f)
      BY <2>7, SettleStep DEF RequestFails
    <2>8. QED
      BY <1>3, <2>1, <2>2, <2>3, <2>4, <2>5, <2>6, <2>7 DEF FetchStep
  <1>4. QED
    BY <1>1, <1>2, <1>3 DEF Next

-----------------------------------------------------------------------------
\* The APIs: only a refused call takes one back, and a call that starts finds no
\* network.
LEMMA FollowStep ==
    ASSUME TypeOK, ApisFollow, [Next]_vars
    PROVE  ApisFollow'
  <1> USE DEF core, apis
  <1>1. CASE UNCHANGED vars
    BY <1>1 DEF vars, ApisFollow
  <1>2. ASSUME NEW node \in Node, NEW id \in NetworkID, SetNetwork(node, id) PROVE ApisFollow'
    <2>1. \A g \in Fetch : fetches'[g].at = fetches[g].at
      BY <1>2 DEF SetNetwork, TypeOK, FetchState
    <2>2. QED
      BY <1>2, <2>1 DEF SetNetwork, ApisFollow
  <1>3. ASSUME NEW f \in Fetch, FetchStep(f) PROVE ApisFollow'
    <2>0. ASSUME fetches[f].at # "refused", NEW how \in {"returned", "failed", "refused"}, Settle(f, how),
                 UNCHANGED <<network, pchain, chains>>
          PROVE  ApisFollow'
      <3>1. ASSUME NEW g \in Fetch, fetches[g].at = "refused" PROVE fetches'[g].at = "refused"
        BY <2>0, <3>1, Settled
      <3>2. QED
        BY <2>0, <3>1 DEF ApisFollow
    <2>1. ASSUME NEW where \in Awaiting, NEW locals \in FetchState, Await(f, where, locals),
                 fetches[f].at # "refused", UNCHANGED <<network, pchain, chains>>
          PROVE  ApisFollow'
      <3>1. ASSUME NEW g \in Fetch, fetches[g].at = "refused" PROVE fetches'[g].at = "refused"
        BY <2>1, <3>1, Awaited
      <3>2. QED
        BY <2>1, <3>1 DEF ApisFollow
    <2>2. ASSUME NEW id, UsePredefined(f, id) PROVE ApisFollow'
      BY <2>2 DEF UsePredefined, SetupAPIs, ApisFollow
    <2>3. CASE KnownNetwork(f)
      BY <2>0, <2>3 DEF KnownNetwork
    <2>4. CASE StartFetch(f)
      BY <2>4 DEF StartFetch, ApisFollow
    <2>5. CASE ConfigurationArrives(f)
      <3> DEFINE answer == NetworkOf[fetches[f].asked]
                 locals == [fetches[f] EXCEPT !.response = answer]
      <3>1. CASE UsePredefined(f, answer)
        BY <2>2, <3>1
      <3>2. CASE ~UsePredefined(f, answer)
        <4>1. /\ Settle(f, "failed") \/ Await(f, "pricing", locals)
              /\ UNCHANGED <<network, pchain, chains>> /\ fetches[f].at # "refused"
          BY <2>5, <3>2 DEF ConfigurationArrives, InfoIsGone
        <4>2. locals \in FetchState
          BY FetchFacts DEF FetchState
        <4> HIDE DEF locals
        <4>3. QED
          BY <2>0, <2>1, <4>1, <4>2 DEF Awaiting
      <3>3. QED
        BY <3>1, <3>2
    <2>6. CASE ConfigurationFails(f)
      BY <2>0, <2>1, <2>6, FetchFacts DEF ConfigurationFails, InfoIsGone, Awaiting
    <2>7. CASE NetworkIDArrives(f)
      <3>1. CASE UsePredefined(f, NetworkOf[fetches[f].asked])
        BY <2>2, <3>1
      <3>2. CASE ~UsePredefined(f, NetworkOf[fetches[f].asked])
        <4>1. Settle(f, "refused") /\ UNCHANGED <<network, chains>>
          BY <2>7, <3>2 DEF NetworkIDArrives
        <4>2. fetches'[f].at = "refused"
          BY <4>1, Settled
        <4>3. QED
          BY <4>1, <4>2 DEF ApisFollow
      <3>3. QED
        BY <3>1, <3>2
    <2>8. CASE FeesArrive(f)
      BY <2>8 DEF FeesArrive, SetupAPIs, ApisFollow
    <2>9. CASE RequestFails(f)
      BY <2>0, <2>9 DEF RequestFails
    <2>10. QED
      BY <1>3, <2>3, <2>4, <2>5, <2>6, <2>7, <2>8, <2>9 DEF FetchStep
  <1>4. QED
    BY <1>1, <1>2, <1>3 DEF Next

-----------------------------------------------------------------------------
\* Whatever calls are pending and whenever setNetwork comes in, the variables have
\* the types the code gives them: a network that is put in use or in the registry
\* is always a whole one.
THEOREM TypeCorrect == Spec => []TypeOK
  <1>1. Init => TypeOK
    BY InitInv DEF Inv
  <1>2. TypeOK /\ [Next]_vars => TypeOK'
    BY TypeStep
  <1>3. QED
    BY <1>1, <1>2, PTL DEF Spec

\* The APIs of the chains are made for the network in use, whenever setNetwork
\* comes in: setupAPIs comes with every change to another network, and only a call
\* that ended in "Configuration required" can have put an older API back.
THEOREM ApisCorrect == Spec => []ApisAreBound
  <1> DEFINE IInv == TypeOK /\ ApisFollow
  <1>1. Init => IInv
    BY InitInv DEF Inv
  <1>2. IInv /\ [Next]_vars => IInv'
    BY TypeStep, FollowStep
  <1>3. IInv => ApisAreBound
    BY DEF ApisFollow, ApisAreBound
  <1>4. QED
    BY <1>1, <1>2, <1>3, PTL DEF Spec

\* Once a call is late it stays so.
LEMMA LateStays ==
    ASSUME TypeOK, [Next]_vars, ~late'
    PROVE  ~late
  <1> USE DEF count
  <1>1. CASE UNCHANGED vars
    BY <1>1 DEF vars
  <1>2. ASSUME NEW node \in Node, NEW id \in NetworkID, SetNetwork(node, id) PROVE late' = late
    BY <1>2 DEF SetNetwork
  <1>3. ASSUME NEW f \in Fetch, FetchStep(f) PROVE late' = late \/ GoesOn(f)
    BY <1>3 DEF FetchStep, KnownNetwork, StartFetch, ConfigurationArrives, ConfigurationFails,
                NetworkIDArrives, FeesArrive, RequestFails
  <1>4. QED
    BY <1>1, <1>2, <1>3 DEF Next, GoesOn

LEMMA InvHolds == Spec => []Inv
  <1>1. Init => Inv
    BY InitInv
  <1>2. Inv /\ [Next]_vars => Inv'
    BY CurrentStep, TypeStep, LateStays DEF Inv
  <1>3. QED
    BY <1>1, <1>2, PTL DEF Spec

\* fetchNetworkSettings, called as often as one likes, leaves the network of the
\* node that the URL leads to, under its id and with its own fees, whenever
\* setNetwork comes in, until a call that it has overtaken goes on with an answer.
THEOREM NetworkCorrect == Spec => []NetworkIsCurrent
  <1>1. Inv => NetworkIsCurrent
    BY DEF Inv, Current, NetworkIsCurrent
  <1>2. QED
    BY <1>1, InvHolds, PTL

\* As long as that has not happened, no answer of a node replaces a network of the
\* library, and every network is registered under its own id.
THEOREM RegistryCorrect == Spec => []RegistryIsTrue
  <1>1. Inv => RegistryIsTrue
    BY DEF Inv, Current, Registered, RegistryIsTrue
  <1>2. QED
    BY <1>1, InvHolds, PTL
=============================================================================
