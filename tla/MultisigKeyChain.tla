-------------------------- MODULE MultisigKeyChain --------------------------
(***************************************************************************)
(* The keychain of multi-signature aliases, src/common/multisigkeychain.ts.*)
(* buildSignatureIndices walks the owners of every input of a transaction  *)
(* with an explicit stack, descending into aliases, and selects the        *)
(* signatures which meet every nested threshold; getCredentials turns the  *)
(* selection into one credential per owner.  One iteration of either       *)
(* "while" loop of _traverseOwner is one action.                           *)
(***************************************************************************)
EXTENDS Integers, Sequences

CONSTANTS
    Address,        \* addresses; the program sorts them, so numbers stand for them
    KeyAddress,     \* those the caller may hold a signature for
    OwnersSet,      \* the OutputOwners a txOwner or an alias may have
    AliasMaps,      \* the msigAliases maps the constructor may be given
    TxOwnersSet,    \* the txOwners arrays the constructor may be given
    MaxSignatures   \* MaxSignatures, 256 in the program

ASSUME MaxSignaturesAssumption == MaxSignatures \in Nat

ASSUME KeyAddressAssumption == KeyAddress \subseteq Address

\* getThreshold() and the sorted getAddresses() of an OutputOwners.
Owners == [threshold : Nat, addresses : Seq(Address)]

ASSUME OwnersAssumption == OwnersSet \subseteq Owners

ASSUME AliasMapsAssumption ==
    \A m \in AliasMaps : DOMAIN m \subseteq Address /\ \A a \in DOMAIN m : m[a] \in OwnersSet

ASSUME TxOwnersAssumption == TxOwnersSet \subseteq Seq(OwnersSet)

VARIABLES
    keys,           \* addresses with a MultisigKeyPair
    msigAliases,    \* alias address -> owners
    txOwners,       \* owners of the inputs, in order
    sigIdxs,        \* this.sigIdxs: one selection per completed owner
    outcome,        \* how the last buildSignatureIndices stands
    credentials,    \* what the last getCredentials returned
    stack,          \* locals of _traverseOwner from here on
    selected,       \* the local sigIdxs
    addrVisited,
    addrVerified,
    cycleCheck

locals == <<stack, selected, addrVisited, addrVerified, cycleCheck>>
input == <<msigAliases, txOwners>>
vars == <<keys, input, sigIdxs, outcome, credentials, locals>>

SigIdx == [source : Address, index : Nat]

Frame == [index : Nat, verified : Nat, addrVerifiedTotal : Nat,
          parentVerified : BOOLEAN, owners : OwnersSet]

\* SignatureErrors and the Error of a repeated alias.
Errors == {"not enough", "cyclic", "too many"}

Outcomes == {"fresh", "running", "built"} \cup Errors

\* The return value of getCredentials, or the TypeError of a missing key.
NoCredentials == [status |-> "none", creds |-> <<>>]

-----------------------------------------------------------------------------
\* Reads of the head of the stack.

Top == stack[Len(stack)]

Below == SubSeq(stack, 1, Len(stack) - 1)

ThresholdMet(frame) == frame.verified >= frame.owners.threshold

Exhausted(frame) == frame.index >= Len(frame.owners.addresses)

\* Mutants: only the own level is looked at, or only the enclosing ones.
NeededOnOwnLevel(frame) == ~ThresholdMet(frame)
NeededAbove(frame) == ~frame.parentVerified

\* A signature still counts: no enclosing level is satisfied already.
Needed(frame) == ~frame.parentVerified /\ ~ThresholdMet(frame)

\* getAddress(currentStack.index)
Current == Top.owners.addresses[Top.index + 1]

NewFrame(owners, verifiedTotal, covered) ==
    [index |-> 0, verified |-> 0, addrVerifiedTotal |-> verifiedTotal,
     parentVerified |-> covered, owners |-> owners]

Advanced(frame) == [frame EXCEPT !.index = @ + 1]

Counted(frame) == [frame EXCEPT !.verified = @ + 1]

\* Mutant: a satisfied child is never counted.
ApplyChildNever(frame) == frame

\* The parent counts a satisfied child unless it is satisfied itself.
ApplyChild(frame) ==
    IF ThresholdMet(frame) THEN frame ELSE Counted(frame)

-----------------------------------------------------------------------------
Init ==
    /\ keys = {}
    /\ msigAliases \in AliasMaps
    /\ txOwners \in TxOwnersSet
    /\ sigIdxs = <<>>
    /\ outcome = "fresh"
    /\ credentials = NoCredentials
    /\ stack = <<>>
    /\ selected = <<>>
    /\ addrVisited = 0
    /\ addrVerified = 0
    /\ cycleCheck = {}

\* The caller changes the keychain only between two calls: the walk is synchronous.
AddKey(a) ==
    /\ outcome # "running"
    /\ keys' = keys \cup {a}
    /\ UNCHANGED <<input, sigIdxs, outcome, credentials, locals>>

RemoveKey(a) ==
    /\ outcome # "running"
    /\ a \in keys
    /\ keys' = keys \ {a}
    /\ UNCHANGED <<input, sigIdxs, outcome, credentials, locals>>

BuildSignatureIndices ==
    /\ outcome # "running"
    /\ sigIdxs' = <<>>
    /\ outcome' = "running"
    /\ UNCHANGED <<keys, input, credentials, locals>>

-----------------------------------------------------------------------------
\* _traverseOwner

\* Mutant: the selection outlives the owner it was made for.
SelectionKept ==
    /\ stack' = <<>>
    /\ addrVisited' = 0
    /\ addrVerified' = 0
    /\ cycleCheck' = {}
    /\ UNCHANGED selected

LocalsReleased ==
    /\ stack' = <<>>
    /\ selected' = <<>>
    /\ addrVisited' = 0
    /\ addrVerified' = 0
    /\ cycleCheck' = {}

Throw(error) ==
    /\ outcome' = error
    /\ LocalsReleased
    /\ UNCHANGED <<keys, input, sigIdxs, credentials>>

TraverseOwner ==
    /\ outcome = "running"
    /\ stack = <<>>
    /\ Len(sigIdxs) < Len(txOwners)
    /\ stack' = <<NewFrame(txOwners[Len(sigIdxs) + 1], 0, FALSE)>>
    /\ UNCHANGED <<keys, input, sigIdxs, outcome, credentials,
                   selected, addrVisited, addrVerified, cycleCheck>>

AllOwnersTraversed ==
    /\ outcome = "running"
    /\ stack = <<>>
    /\ Len(sigIdxs) = Len(txOwners)
    /\ outcome' = "built"
    /\ UNCHANGED <<keys, input, sigIdxs, credentials, locals>>

Visiting ==
    /\ outcome = "running"
    /\ stack # <<>>
    /\ ~Exhausted(Top)

VisitingAlias == Visiting /\ Current \in DOMAIN msigAliases

PushAlias ==
    /\ VisitingAlias
    /\ Len(stack) <= MaxSignatures
    /\ Current \notin cycleCheck
    /\ cycleCheck' = cycleCheck \cup {Current}
    /\ stack' = Append(Append(Below, Advanced(Top)),
                       NewFrame(msigAliases[Current], addrVerified,
                                Top.parentVerified \/ ThresholdMet(Top)))
    /\ UNCHANGED <<keys, input, sigIdxs, outcome, credentials,
                   selected, addrVisited, addrVerified>>

AliasTooDeep ==
    /\ VisitingAlias
    /\ Len(stack) > MaxSignatures
    /\ Throw("too many")

\* Mutant: a repeated alias is ignored, before the index has moved on.
AliasRepeatedIgnored ==
    /\ VisitingAlias
    /\ Len(stack) <= MaxSignatures
    /\ Current \in cycleCheck
    /\ UNCHANGED vars

AliasRepeated ==
    /\ VisitingAlias
    /\ Len(stack) <= MaxSignatures
    /\ Current \in cycleCheck
    /\ Throw("cyclic")

VisitingAddress == Visiting /\ Current \notin DOMAIN msigAliases

SelectSignature ==
    /\ VisitingAddress
    /\ Needed(Top)
    /\ Current \in keys
    /\ addrVisited <= MaxSignatures
    /\ selected' = Append(selected, [source |-> Current, index |-> addrVisited])
    /\ stack' = Append(Below, Counted(Advanced(Top)))
    /\ addrVerified' = addrVerified + 1
    /\ addrVisited' = addrVisited + 1
    /\ UNCHANGED <<keys, input, sigIdxs, outcome, credentials, cycleCheck>>

TooManySignatures ==
    /\ VisitingAddress
    /\ Needed(Top)
    /\ Current \in keys
    /\ addrVisited > MaxSignatures
    /\ Throw("too many")

\* Mutant: an address without a signature takes no position.
SkipAddressUncounted ==
    /\ VisitingAddress
    /\ ~Needed(Top) \/ Current \notin keys
    /\ stack' = Append(Below, Advanced(Top))
    /\ UNCHANGED <<keys, input, sigIdxs, outcome, credentials,
                   addrVisited, selected, addrVerified, cycleCheck>>

SkipAddress ==
    /\ VisitingAddress
    /\ ~Needed(Top) \/ Current \notin keys
    /\ stack' = Append(Below, Advanced(Top))
    /\ addrVisited' = addrVisited + 1
    /\ UNCHANGED <<keys, input, sigIdxs, outcome, credentials,
                   selected, addrVerified, cycleCheck>>

Leaving ==
    /\ outcome = "running"
    /\ stack # <<>>
    /\ Exhausted(Top)

OwnerUnmet ==
    /\ Leaving
    /\ ~ThresholdMet(Top)
    /\ Len(stack) = 1
    /\ Throw("not enough")

\* Mutants of the rollback: the counter or the selection is left alone.
UnmetKeepsCounter ==
    /\ Leaving /\ ~ThresholdMet(Top) /\ Len(stack) > 1
    /\ stack' = Below
    /\ selected' = SubSeq(selected, 1, Top.addrVerifiedTotal)
    /\ UNCHANGED <<keys, input, sigIdxs, outcome, credentials, addrVerified, addrVisited, cycleCheck>>

UnmetKeepsSelection ==
    /\ Leaving /\ ~ThresholdMet(Top) /\ Len(stack) > 1
    /\ stack' = Below
    /\ addrVerified' = Top.addrVerifiedTotal
    /\ UNCHANGED <<keys, input, sigIdxs, outcome, credentials, selected, addrVisited, cycleCheck>>

\* The child failed: forget what was selected below it.
AliasUnmet ==
    /\ Leaving
    /\ ~ThresholdMet(Top)
    /\ Len(stack) > 1
    /\ stack' = Below
    /\ addrVerified' = Top.addrVerifiedTotal
    /\ selected' = SubSeq(selected, 1, Top.addrVerifiedTotal)
    /\ UNCHANGED <<keys, input, sigIdxs, outcome, credentials, addrVisited, cycleCheck>>

AliasMet ==
    /\ Leaving
    /\ ThresholdMet(Top)
    /\ Len(stack) > 1
    /\ stack' = [Below EXCEPT ![Len(stack) - 1] = ApplyChild(@)]
    /\ UNCHANGED <<keys, input, sigIdxs, outcome, credentials,
                   selected, addrVisited, addrVerified, cycleCheck>>

OwnerMet ==
    /\ Leaving
    /\ ThresholdMet(Top)
    /\ Len(stack) = 1
    /\ sigIdxs' = Append(sigIdxs, selected)
    /\ LocalsReleased
    /\ UNCHANGED <<keys, input, outcome, credentials>>

-----------------------------------------------------------------------------
\* getCredentials before the first build iterates over undefined and is left out.

\* Mutant: a signature is assumed to be there since the build found it.
KeysAssumed == TRUE

KeysPresent == \A o \in 1..Len(sigIdxs) : \A i \in 1..Len(sigIdxs[o]) : sigIdxs[o][i].source \in keys

GetCredentials ==
    /\ outcome \notin {"fresh", "running"}
    /\ credentials' = IF KeysPresent
                      THEN [status |-> "ok", creds |-> sigIdxs]
                      ELSE [status |-> "missing key", creds |-> <<>>]
    /\ UNCHANGED <<keys, input, sigIdxs, outcome, locals>>

-----------------------------------------------------------------------------
\* What one call of buildSignatureIndices does before it returns or throws.
Walk ==
    \/ TraverseOwner
    \/ AllOwnersTraversed
    \/ PushAlias
    \/ AliasTooDeep
    \/ AliasRepeated
    \/ SelectSignature
    \/ TooManySignatures
    \/ SkipAddress
    \/ OwnerUnmet
    \/ AliasUnmet
    \/ AliasMet
    \/ OwnerMet

Next ==
    \/ \E a \in KeyAddress : AddKey(a)
    \/ \E a \in KeyAddress : RemoveKey(a)
    \/ BuildSignatureIndices
    \/ GetCredentials
    \/ Walk

\* The walk is synchronous code: once called it runs to its return or throw.
Spec == Init /\ [][Next]_vars /\ WF_vars(Walk)

-----------------------------------------------------------------------------
TypeOK ==
    /\ keys \subseteq KeyAddress
    /\ msigAliases \in AliasMaps
    /\ txOwners \in TxOwnersSet
    /\ sigIdxs \in Seq(Seq(SigIdx))
    /\ outcome \in Outcomes
    /\ credentials \in [status : {"none", "ok", "missing key"}, creds : Seq(Seq(SigIdx))]
    /\ stack \in Seq(Frame)
    /\ selected \in Seq(SigIdx)
    /\ addrVisited \in Nat
    /\ addrVerified \in Nat
    /\ cycleCheck \subseteq Address

\* Positions are recorded in the order of the walk, each at most once: a
\* credential lists its signature indices strictly increasing.
Increasing(s) == \A i, j \in 1..Len(s) : i < j => s[i].index < s[j].index

\* The counters of _traverseOwner agree with the selection and with every
\* snapshot a rollback may restore.
CountersConsistent ==
    /\ Len(selected) = addrVerified
    /\ addrVerified <= addrVisited
    /\ \A k \in 1..Len(selected) : selected[k].index < addrVisited
    /\ \A f \in 1..Len(stack) : stack[f].addrVerifiedTotal <= addrVerified
    /\ \A f, g \in 1..Len(stack) : f <= g => stack[f].addrVerifiedTotal <= stack[g].addrVerifiedTotal

\* Once an enclosing level is satisfied nothing below it adds a signature.
NothingBelowSatisfied ==
    \A f \in 1..Len(stack) : stack[f].parentVerified => addrVerified = stack[f].addrVerifiedTotal

\* A credential never carries more than MaxSignatures + 1 signatures, and its
\* positions are strictly increasing, whether it is complete or being selected.
WellFormed(s) == Increasing(s) /\ Len(s) <= MaxSignatures + 1

SelectionsWellFormed ==
    /\ WellFormed(selected)
    /\ \A o \in 1..Len(sigIdxs) : WellFormed(sigIdxs[o])

\* Every level has collected at most its threshold, so no superfluous
\* signature is ever attached.
NeverAboveThreshold == \A f \in 1..Len(stack) : stack[f].verified <= stack[f].owners.threshold

\* Levels below a satisfied one know it: what makes the invariants inductive.
CoverageInherited ==
    \A f, g \in 1..Len(stack) : f <= g /\ stack[f].parentVerified => stack[g].parentVerified

\* The inductive invariant of the proofs.
WalkInvariant ==
    /\ CountersConsistent
    /\ CoverageInherited
    /\ NothingBelowSatisfied
    /\ SelectionsWellFormed
    /\ NeverAboveThreshold

\* buildSignatureIndices always returns or throws, however aliases refer to
\* each other.
WalkTerminates == (outcome = "running") ~> (outcome # "running")
=============================================================================
