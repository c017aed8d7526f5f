------------------------- MODULE MCMultisigKeyChain -------------------------
(* Small instances of MultisigKeyChain, and the promise it implements. *)
EXTENDS MultisigKeyChain, TLC

CONSTANTS
    SmallAddress,   \* the addresses of the owners that are enumerated
    MaxAddresses,   \* how many of them an owner has at most
    Thresholds

\* Sorted lists of distinct addresses, as the constructor of OutputOwners makes
\* them.
MCAddressLists ==
    {s \in UNION {[1..n -> SmallAddress] : n \in 1..MaxAddresses} :
        \A i, j \in 1..Len(s) : i < j => s[i] < s[j]}

MCOwners ==
    {o \in [threshold : Thresholds, addresses : MCAddressLists] : o.threshold <= Len(o.addresses)}

\* Up to two aliases, which may refer to themselves and to each other.
MCAliasMaps == UNION {[D -> MCOwners] : D \in SUBSET {1, 3}}

MCOneOwner == {<<o>> : o \in {q \in MCOwners : Len(q.addresses) = 2}}

Over(threshold, addrs) == [threshold |-> threshold, addresses |-> addrs]

\* Alias 1 over three addresses, under every threshold, beside alias 3 or nested
\* in it.  The constructor of OutputOwners turns threshold 0 into 1.
MCNestedMaps ==
    {1 :> a @@ 3 :> b : a \in {Over(t, <<2, 4, 5>>) : t \in 1..3},
                        b \in {Over(2, <<1, 2, 4>>), Over(1, <<1, 5>>), Over(2, <<4, 5>>)}}

\* Two inputs: the first behind alias 3 or 1 with a plain address beside it, or
\* behind both of them.
MCNestedOwners ==
    {<<o, p>> : o \in {Over(1, <<3>>), Over(2, <<3, 4>>), Over(1, <<2, 3>>), Over(2, <<1, 3>>), Over(2, <<1, 5>>)},
                p \in {Over(1, <<2>>), Over(1, <<1>>)}}

\* Three aliases in a circle, under every threshold: deeper than MaxSignatures
\* before the first one is met again.
MCCircles == {1 :> Over(t, <<2, 4>>) @@ 2 :> Over(u, <<3, 4>>) @@ 3 :> Over(v, <<1, 4>>) : t, u, v \in 1..2}

\* What is walked: every owner over every map, enumerated, nested or a circle.
MCMaps == MCAliasMaps \cup MCNestedMaps \cup MCCircles

MCTxOwners == MCOneOwner \cup MCNestedOwners

MCOwnersSet == MCOwners \cup UNION {{m[1], m[3]} : m \in MCNestedMaps} \cup UNION {{t[1], t[2]} : t \in MCNestedOwners}

\* The promise, with the partial result of a failed call hidden.
Promise == INSTANCE MultisigPromise WITH
    sigIdxs <- IF outcome = "built" THEN sigIdxs ELSE <<>>

-----------------------------------------------------------------------------
\* The stack walk with its rollback answers every call as the promise allows:
\* an exact selection for every owner, or a justified refusal.
ImplementsPromise == Promise!Spec

\* A call that returned covers every owner with a selection that satisfies all
\* nested thresholds, at the positions and for the addresses of the walk, and
\* carries no signature that could be spared.
BuiltIsExact ==
    outcome = "built" =>
        /\ Len(sigIdxs) = Len(txOwners)
        /\ \A o \in 1..Len(txOwners) :
               LET S == Promise!Indices(sigIdxs[o])
               IN /\ Promise!Satisfied(o, S)
                  /\ \A p \in S : ~Promise!Satisfied(o, S \ {p})
                  /\ \A k \in 1..Len(sigIdxs[o]) :
                         Promise!OwnerLeaves(o)[sigIdxs[o][k].index + 1] = sigIdxs[o][k].source

\* "Not enough signatures" is thrown only when all keys of the chain together
\* do not satisfy the owner: the greedy walk and its rollback miss nothing.
RefusalIsJustified ==
    [][(outcome = "running" /\ outcome' = "not enough") =>
           LET o == Len(sigIdxs) + 1
           IN ~Promise!Satisfied(o, Promise!Signable(o))]_vars

\* Keys come and go between the build and the credentials: credentials taken
\* from a complete build are still signed at every position they name.
CredentialsStillSigned ==
    [][credentials' # credentials /\ credentials'.status = "ok" /\ outcome = "built" =>
           \A o \in 1..Len(txOwners) :
               Promise!Indices(credentials'.creds[o]) \subseteq Promise!Signable(o)]_vars

-----------------------------------------------------------------------------
\* Contradicted: the error says the alias is cyclic, yet it is thrown for an
\* owner whose aliases form no cycle and which the keys satisfy: the alias is
\* merely referred to twice.
CyclicMeansCycle ==
    [][(outcome = "running" /\ outcome' = "cyclic") =>
           LET o == Len(sigIdxs) + 1
           IN Promise!Satisfied(o, Promise!Signable(o)) => Promise!HasCycle(txOwners[o].addresses, {})]_vars
=============================================================================
