----------------------- MODULE MultisigKeyChain_proofs -----------------------
(***************************************************************************)
(* Type correctness and safety of the stack walk of MultisigKeyChain, for  *)
(* all owners, aliases, keys and limits.  TypeOK and WalkInvariant are one *)
(* inductive invariant: the rollback of AliasUnmet yields a sequence only  *)
(* because the snapshot it restores is never longer than the selection.    *)
(***************************************************************************)
EXTENDS MultisigKeyChain, SequenceTheorems, TLAPS

-----------------------------------------------------------------------------
\* Sequences and frames.

LEMMA PrefixFacts ==
    ASSUME NEW S, NEW s \in Seq(S), NEW n \in 0..Len(s)
    PROVE  /\ SubSeq(s, 1, n) \in Seq(S)
           /\ Len(SubSeq(s, 1, n)) = n
           /\ \A i \in 1..n : SubSeq(s, 1, n)[i] = s[i]
  <1>1. \A i \in 1..n : s[i] \in S
    BY LenProperties, ElementOfSeq
  <1>2. n \in Int /\ 1 \in Int /\ n - 1 + 1 = n
    BY LenProperties
  <1>3. /\ SubSeq(s, 1, n) \in Seq(S)
        /\ Len(SubSeq(s, 1, n)) = (IF 1 <= n THEN n - 1 + 1 ELSE 0)
        /\ \A i \in 1..n - 1 + 1 : SubSeq(s, 1, n)[i] = s[1 + i - 1]
    BY <1>1, <1>2, SubSeqProperties
  <1>4. QED
    BY <1>2, <1>3

LEMMA EmptySequences ==
    /\ <<>> \in Seq(Frame)
    /\ <<>> \in Seq(SigIdx)
    /\ <<>> \in Seq(Seq(SigIdx))
  BY EmptySeq

LEMMA FrameUpdates ==
    ASSUME NEW frame \in Frame
    PROVE  /\ Advanced(frame) \in Frame
           /\ Counted(frame) \in Frame
           /\ ApplyChild(frame) \in Frame
  BY DEF Frame, Advanced, Counted, ApplyChild

LEMMA NewFrameIsFrame ==
    ASSUME NEW owners \in OwnersSet, NEW total \in Nat, NEW covered \in BOOLEAN
    PROVE  NewFrame(owners, total, covered) \in Frame
  BY DEF Frame, NewFrame

\* What the actions use of a non-empty stack.
LEMMA StackFacts ==
    ASSUME stack \in Seq(Frame), stack # <<>>
    PROVE  /\ Len(stack) \in Nat \ {0}
           /\ Top \in Frame
           /\ Top.owners \in Owners
           /\ Below \in Seq(Frame)
           /\ Len(Below) = Len(stack) - 1
           /\ \A i \in 1..Len(stack) - 1 : Below[i] = stack[i] /\ Below[i] \in Frame
  <1>1. Len(stack) \in Nat \ {0}
    BY EmptySeq
  <1>2. \A i \in 1..Len(stack) : stack[i] \in Frame
    BY ElementOfSeq
  <1>3. Top \in Frame
    BY <1>1, <1>2 DEF Top
  <1>4. Top.owners \in Owners
    BY <1>3, OwnersAssumption DEF Frame
  <1>5. Len(stack) - 1 \in 0..Len(stack)
    BY <1>1
  <1>6. /\ Below \in Seq(Frame)
        /\ Len(Below) = Len(stack) - 1
        /\ \A i \in 1..Len(stack) - 1 : Below[i] = stack[i]
    BY <1>5, PrefixFacts DEF Below
  <1>7. QED
    BY <1>1, <1>2, <1>3, <1>4, <1>6

\* Replacing the head of the stack changes only the head.
LEMMA ReplacedHead ==
    ASSUME stack \in Seq(Frame), stack # <<>>, NEW frame \in Frame,
           stack' = Append(Below, frame)
    PROVE  /\ stack' \in Seq(Frame)
           /\ Len(stack') = Len(stack)
           /\ stack'[Len(stack)] = frame
           /\ \A i \in 1..Len(stack) - 1 : stack'[i] = stack[i]
  BY StackFacts

-----------------------------------------------------------------------------
LEMMA InitTyped == Init => TypeOK
  <1> SUFFICES ASSUME Init PROVE TypeOK
    OBVIOUS
  <1>1. credentials \in [status : {"none", "ok", "missing key"}, creds : Seq(Seq(SigIdx))]
    BY EmptySequences DEF Init, NoCredentials
  <1>2. QED
    BY <1>1, EmptySequences DEF Init, TypeOK, Outcomes

\* Steps of the caller.
LEMMA CallerTyped ==
    ASSUME TypeOK,
           \/ \E a \in KeyAddress : AddKey(a) \/ RemoveKey(a)
           \/ BuildSignatureIndices
           \/ GetCredentials
    PROVE  TypeOK'
  <1>1. ASSUME NEW a \in KeyAddress, AddKey(a) \/ RemoveKey(a) PROVE TypeOK'
    BY <1>1 DEF AddKey, RemoveKey, input, locals, TypeOK
  <1>2. CASE BuildSignatureIndices
    <2>1. sigIdxs' \in Seq(Seq(SigIdx)) /\ outcome' \in Outcomes
      BY <1>2, EmptySequences DEF BuildSignatureIndices, Outcomes
    <2>2. UNCHANGED <<keys, msigAliases, txOwners, credentials,
                      stack, selected, addrVisited, addrVerified, cycleCheck>>
      BY <1>2 DEF BuildSignatureIndices, input, locals
    <2>3. QED
      BY <2>1, <2>2 DEF TypeOK
  <1>3. CASE GetCredentials
    <2>1. credentials' \in [status : {"none", "ok", "missing key"}, creds : Seq(Seq(SigIdx))]
      BY <1>3, EmptySequences DEF GetCredentials, TypeOK
    <2>2. UNCHANGED <<keys, msigAliases, txOwners, sigIdxs, outcome,
                      stack, selected, addrVisited, addrVerified, cycleCheck>>
      BY <1>3 DEF GetCredentials, input, locals
    <2>3. QED
      BY <2>1, <2>2 DEF TypeOK
  <1>4. QED
    BY <1>1, <1>2, <1>3

\* The locals are typed again once they are released.
LEMMA ReleasedTyped ==
    ASSUME LocalsReleased
    PROVE  /\ stack' \in Seq(Frame)
           /\ selected' \in Seq(SigIdx)
           /\ addrVisited' \in Nat
           /\ addrVerified' \in Nat
           /\ cycleCheck' \subseteq Address
  BY EmptySequences DEF LocalsReleased

LEMMA WalkTyped ==
    ASSUME TypeOK, CountersConsistent, Walk
    PROVE  TypeOK'
  <1>0. /\ stack \in Seq(Frame)
        /\ selected \in Seq(SigIdx)
        /\ sigIdxs \in Seq(Seq(SigIdx))
        /\ addrVisited \in Nat
        /\ addrVerified \in Nat
        /\ txOwners \in Seq(OwnersSet)
    BY TxOwnersAssumption DEF TypeOK
  <1>1. ASSUME NEW error \in Errors, Throw(error) PROVE TypeOK'
    <2>1. outcome' \in Outcomes
      BY <1>1 DEF Throw, Outcomes
    <2>2. LocalsReleased /\ UNCHANGED <<keys, msigAliases, txOwners, sigIdxs, credentials>>
      BY <1>1 DEF Throw, input
    <2>3. QED
      BY <2>1, <2>2, ReleasedTyped DEF TypeOK
  <1>2. CASE TraverseOwner
    <2>1. Len(sigIdxs) + 1 \in 1..Len(txOwners)
      BY <1>0, <1>2, LenProperties DEF TraverseOwner
    <2>2. txOwners[Len(sigIdxs) + 1] \in OwnersSet
      BY <1>0, <2>1, ElementOfSeq
    <2> DEFINE root == NewFrame(txOwners[Len(sigIdxs) + 1], 0, FALSE)
    <2>3. root \in Frame /\ stack' = <<root>>
      BY <1>2, <2>2, NewFrameIsFrame DEF TraverseOwner
    <2> HIDE DEF root
    <2>4. stack' \in Seq(Frame)
      BY <2>3
    <2>5. QED
      BY <1>2, <2>4 DEF TraverseOwner, input, TypeOK
  <1>3. CASE AllOwnersTraversed
    BY <1>3 DEF AllOwnersTraversed, input, locals, Outcomes, TypeOK
  <1>4. CASE PushAlias
    <2> DEFINE child == NewFrame(msigAliases[Current], addrVerified,
                                 Top.parentVerified \/ ThresholdMet(Top))
    <2>1. stack # <<>> /\ Current \in DOMAIN msigAliases
      BY <1>4 DEF PushAlias, VisitingAlias, Visiting
    <2>2. msigAliases[Current] \in OwnersSet /\ Current \in Address
      BY <2>1, AliasMapsAssumption DEF TypeOK
    <2>3. (Top.parentVerified \/ ThresholdMet(Top)) \in BOOLEAN
      OBVIOUS
    <2>4. child \in Frame
      BY <1>0, <2>2, <2>3, NewFrameIsFrame
    <2>5. Advanced(Top) \in Frame /\ Below \in Seq(Frame)
      BY <1>0, <2>1, StackFacts, FrameUpdates
    <2>6. stack' = Append(Append(Below, Advanced(Top)), child)
      BY <1>4 DEF PushAlias
    <2> HIDE DEF child
    <2>7. stack' \in Seq(Frame)
      BY <2>4, <2>5, <2>6
    <2>8. cycleCheck' \subseteq Address
      BY <1>4, <2>2 DEF PushAlias, TypeOK
    <2>9. QED
      BY <1>4, <2>7, <2>8 DEF PushAlias, input, TypeOK
  <1>5. CASE SelectSignature
    <2>1. stack # <<>> /\ Current \in Address
      BY <1>5, KeyAddressAssumption DEF SelectSignature, VisitingAddress, Visiting, TypeOK
    <2>2. Counted(Advanced(Top)) \in Frame
      BY <1>0, <2>1, StackFacts, FrameUpdates
    <2>3. stack' \in Seq(Frame)
      BY <1>0, <1>5, <2>1, <2>2, ReplacedHead DEF SelectSignature
    <2>4. selected' \in Seq(SigIdx)
      <3>1. [source |-> Current, index |-> addrVisited] \in SigIdx
        BY <2>1, <1>0 DEF SigIdx
      <3>2. selected' = Append(selected, [source |-> Current, index |-> addrVisited])
        BY <1>5 DEF SelectSignature
      <3>3. QED
        BY <1>0, <3>1, <3>2
    <2>5. addrVisited' \in Nat /\ addrVerified' \in Nat
      BY <1>0, <1>5 DEF SelectSignature
    <2>6. QED
      BY <1>5, <2>3, <2>4, <2>5 DEF SelectSignature, input, TypeOK
  <1>6. CASE SkipAddress
    <2>1. stack # <<>>
      BY <1>6 DEF SkipAddress, VisitingAddress, Visiting
    <2>2. stack' \in Seq(Frame)
      BY <1>0, <1>6, <2>1, StackFacts, FrameUpdates, ReplacedHead DEF SkipAddress
    <2>3. addrVisited' \in Nat
      BY <1>0, <1>6 DEF SkipAddress
    <2>4. QED
      BY <1>6, <2>2, <2>3 DEF SkipAddress, input, TypeOK
  <1>7. CASE AliasUnmet
    <2>1. stack # <<>>
      BY <1>7 DEF AliasUnmet, Leaving
    <2>2. Top.addrVerifiedTotal \in Nat /\ stack' \in Seq(Frame)
      BY <1>0, <1>7, <2>1, StackFacts DEF AliasUnmet, Frame
    <2>3. Top.addrVerifiedTotal \in 0..Len(selected)
      BY <1>0, <2>1, <2>2, StackFacts DEF Top, CountersConsistent
    <2>4. selected' \in Seq(SigIdx)
      BY <1>0, <1>7, <2>3, PrefixFacts DEF AliasUnmet
    <2>5. QED
      BY <1>7, <2>2, <2>4 DEF AliasUnmet, input, TypeOK
  <1>8. CASE AliasMet
    <2>1. stack # <<>> /\ Len(stack) > 1
      BY <1>8 DEF AliasMet, Leaving
    <2>2. Len(stack) - 1 \in 1..Len(Below)
      BY <1>0, <2>1, StackFacts
    <2>3. ApplyChild(Below[Len(stack) - 1]) \in Frame
      BY <1>0, <2>1, <2>2, StackFacts, FrameUpdates
    <2>4. stack' \in Seq(Frame)
      BY <1>0, <1>8, <2>1, <2>2, <2>3, StackFacts, ExceptSeq DEF AliasMet
    <2>5. QED
      BY <1>8, <2>4 DEF AliasMet, input, TypeOK
  <1>9. CASE OwnerMet
    <2>1. sigIdxs' \in Seq(Seq(SigIdx))
      BY <1>0, <1>9 DEF OwnerMet
    <2>2. QED
      BY <1>9, <2>1, ReleasedTyped DEF OwnerMet, input, TypeOK
  <1>10. QED
    BY <1>1, <1>2, <1>3, <1>4, <1>5, <1>6, <1>7, <1>8, <1>9
       DEF Walk, AliasTooDeep, AliasRepeated, TooManySignatures, OwnerUnmet, Errors

-----------------------------------------------------------------------------
\* What the invariant says of the locals.
LocalsInvariant ==
    /\ CountersConsistent
    /\ CoverageInherited
    /\ NothingBelowSatisfied
    /\ WellFormed(selected)
    /\ NeverAboveThreshold

LEMMA LocalsSplit == WalkInvariant <=> /\ LocalsInvariant
                                       /\ \A o \in 1..Len(sigIdxs) : WellFormed(sigIdxs[o])
  BY DEF WalkInvariant, LocalsInvariant, SelectionsWellFormed

LEMMA EmptyLocals ==
    ASSUME stack = <<>>, selected = <<>>, addrVisited = 0, addrVerified = 0
    PROVE  LocalsInvariant
  BY MaxSignaturesAssumption
     DEF LocalsInvariant, CountersConsistent, CoverageInherited, NothingBelowSatisfied,
         WellFormed, Increasing, NeverAboveThreshold

LEMMA ReleasedInvariant ==
    ASSUME LocalsReleased
    PROVE  LocalsInvariant'
  BY MaxSignaturesAssumption
     DEF LocalsReleased, LocalsInvariant, CountersConsistent, CoverageInherited, NothingBelowSatisfied,
         WellFormed, Increasing, NeverAboveThreshold

LEMMA InitInvariant == Init => WalkInvariant
  BY EmptyLocals, LocalsSplit DEF Init

LEMMA UnchangedInvariant ==
    ASSUME LocalsInvariant, UNCHANGED locals
    PROVE  LocalsInvariant'
  BY DEF locals, LocalsInvariant, CountersConsistent, CoverageInherited, NothingBelowSatisfied,
         WellFormed, Increasing, NeverAboveThreshold

LEMMA NewFrameFields ==
    ASSUME NEW owners, NEW total, NEW covered
    PROVE  /\ NewFrame(owners, total, covered).verified = 0
           /\ NewFrame(owners, total, covered).addrVerifiedTotal = total
           /\ NewFrame(owners, total, covered).parentVerified = covered
           /\ NewFrame(owners, total, covered).owners = owners
  BY DEF NewFrame

LEMMA FrameUpdateFields ==
    ASSUME NEW frame \in Frame
    PROVE  /\ Advanced(frame).verified = frame.verified
           /\ Advanced(frame).addrVerifiedTotal = frame.addrVerifiedTotal
           /\ Advanced(frame).parentVerified = frame.parentVerified
           /\ Advanced(frame).owners = frame.owners
           /\ Counted(Advanced(frame)).verified = frame.verified + 1
           /\ Counted(Advanced(frame)).addrVerifiedTotal = frame.addrVerifiedTotal
           /\ Counted(Advanced(frame)).parentVerified = frame.parentVerified
           /\ Counted(Advanced(frame)).owners = frame.owners
           /\ ApplyChild(frame).addrVerifiedTotal = frame.addrVerifiedTotal
           /\ ApplyChild(frame).parentVerified = frame.parentVerified
           /\ ApplyChild(frame).owners = frame.owners
           /\ frame.verified <= frame.owners.threshold =>
                  ApplyChild(frame).verified <= frame.owners.threshold
  <1>1. frame.verified \in Nat /\ frame.owners.threshold \in Nat
    BY OwnersAssumption DEF Frame, Owners
  <1>2. QED
    BY <1>1 DEF Frame, Advanced, Counted, ApplyChild, ThresholdMet

\* A stack that differs only in index and verified keeps what is said of snapshots.
LEMMA SnapshotsKept ==
    ASSUME CountersConsistent, CoverageInherited, NothingBelowSatisfied,
           UNCHANGED <<selected, addrVerified, addrVisited>>,
           Len(stack') \in 0..Len(stack), Len(stack) \in Nat,
           \A i \in 1..Len(stack') : /\ stack'[i].addrVerifiedTotal = stack[i].addrVerifiedTotal
                                     /\ stack'[i].parentVerified = stack[i].parentVerified
    PROVE  CountersConsistent' /\ CoverageInherited' /\ NothingBelowSatisfied'
  <1>1. \A i \in 1..Len(stack') : i \in 1..Len(stack)
    OBVIOUS
  <1>2. CountersConsistent'
    BY <1>1 DEF CountersConsistent
  <1>3. CoverageInherited'
    BY <1>1 DEF CoverageInherited
  <1>4. NothingBelowSatisfied'
    BY <1>1 DEF NothingBelowSatisfied
  <1>5. QED
    BY <1>2, <1>3, <1>4

LEMMA StackTypes ==
    ASSUME stack \in Seq(Frame)
    PROVE  \A f \in 1..Len(stack) :
               /\ stack[f] \in Frame
               /\ stack[f].addrVerifiedTotal \in Nat
               /\ stack[f].verified \in Nat
               /\ stack[f].owners.threshold \in Nat
  <1>1. \A f \in 1..Len(stack) : stack[f] \in Frame
    BY ElementOfSeq
  <1>2. QED
    BY <1>1, OwnersAssumption DEF Frame, Owners

LEMMA SelectedIndices ==
    ASSUME selected \in Seq(SigIdx)
    PROVE  \A k \in 1..Len(selected) : selected[k].index \in Nat
  <1>1. \A k \in 1..Len(selected) : selected[k] \in SigIdx
    BY ElementOfSeq
  <1>2. QED
    BY <1>1 DEF SigIdx

LEMMA SkipInvariant ==
    ASSUME TypeOK, LocalsInvariant, SkipAddress
    PROVE  LocalsInvariant'
  <1>1. /\ stack \in Seq(Frame) /\ stack # <<>> /\ addrVisited \in Nat /\ addrVerified \in Nat
        /\ selected \in Seq(SigIdx) /\ addrVisited' = addrVisited + 1
        /\ UNCHANGED <<selected, addrVerified>>
    BY DEF TypeOK, SkipAddress, VisitingAddress, Visiting
  <1>2. /\ Len(stack') = Len(stack) /\ Len(stack) \in Nat \ {0}
        /\ \A i \in 1..Len(stack) - 1 : stack'[i] = stack[i]
        /\ stack'[Len(stack)] = Advanced(Top) /\ Top \in Frame /\ Top = stack[Len(stack)]
    BY <1>1, StackFacts, ReplacedHead, FrameUpdates DEF SkipAddress, Top
  <1>3. \A i \in 1..Len(stack) :
            /\ stack'[i].addrVerifiedTotal = stack[i].addrVerifiedTotal
            /\ stack'[i].parentVerified = stack[i].parentVerified
            /\ stack'[i].verified = stack[i].verified
            /\ stack'[i].owners = stack[i].owners
    BY <1>2, FrameUpdateFields
  <1>4. \A k \in 1..Len(selected) : selected[k].index \in Nat
    BY <1>1, SelectedIndices
  <1>5. CountersConsistent'
    BY <1>1, <1>2, <1>3, <1>4 DEF LocalsInvariant, CountersConsistent
  <1>6. CoverageInherited' /\ NothingBelowSatisfied' /\ NeverAboveThreshold'
    BY <1>1, <1>2, <1>3 DEF LocalsInvariant, CoverageInherited, NothingBelowSatisfied, NeverAboveThreshold
  <1>7. WellFormed(selected)'
    BY <1>1 DEF LocalsInvariant, WellFormed, Increasing
  <1>8. QED
    BY <1>5, <1>6, <1>7 DEF LocalsInvariant

LEMMA SelectInvariant ==
    ASSUME TypeOK, LocalsInvariant, SelectSignature
    PROVE  LocalsInvariant'
  <1> DEFINE sig == [source |-> Current, index |-> addrVisited]
  <1>1. /\ stack \in Seq(Frame) /\ stack # <<>> /\ addrVisited \in Nat /\ addrVerified \in Nat
        /\ selected \in Seq(SigIdx) /\ addrVisited' = addrVisited + 1
        /\ addrVerified' = addrVerified + 1 /\ addrVisited <= MaxSignatures
        /\ selected' = Append(selected, sig)
        /\ Current \in Address
        /\ Needed(Top)
    BY KeyAddressAssumption DEF TypeOK, SelectSignature, VisitingAddress, Visiting
  <1>2. /\ Len(stack') = Len(stack) /\ Len(stack) \in Nat \ {0}
        /\ \A i \in 1..Len(stack) - 1 : stack'[i] = stack[i]
        /\ stack'[Len(stack)] = Counted(Advanced(Top))
        /\ Top \in Frame /\ Top = stack[Len(stack)]
    BY <1>1, StackFacts, ReplacedHead, FrameUpdates DEF SelectSignature, Top
  <1>3. \A i \in 1..Len(stack) :
            /\ stack'[i].addrVerifiedTotal = stack[i].addrVerifiedTotal
            /\ stack'[i].parentVerified = stack[i].parentVerified
            /\ stack'[i].owners = stack[i].owners
    BY <1>2, FrameUpdateFields
  <1>4. \A k \in 1..Len(selected) : selected[k].index \in Nat
    BY <1>1, SelectedIndices
  <1>5. /\ Len(selected') = Len(selected) + 1 /\ Len(selected) \in Nat
        /\ \A k \in 1..Len(selected) : selected'[k] = selected[k]
        /\ selected'[Len(selected) + 1].index = addrVisited
    <2>1. sig \in SigIdx /\ sig.index = addrVisited
      BY <1>1 DEF SigIdx
    <2> HIDE DEF sig
    <2>2. QED
      BY <1>1, <2>1
  <1>6. /\ Len(selected) = addrVerified /\ addrVerified <= addrVisited
        /\ \A k \in 1..Len(selected) : selected[k].index < addrVisited
    BY DEF LocalsInvariant, CountersConsistent
  <1>7. \A k \in 1..Len(selected') : selected'[k].index < addrVisited'
    BY <1>1, <1>4, <1>5, <1>6
  <1>8. \A f \in 1..Len(stack) : stack[f].addrVerifiedTotal \in Nat
    BY <1>1, StackTypes
  <1>9. CountersConsistent'
    <2>1. Len(selected') = addrVerified' /\ addrVerified' <= addrVisited'
      BY <1>1, <1>5, <1>6
    <2>2. \A f \in 1..Len(stack') : stack'[f].addrVerifiedTotal <= addrVerified'
      <3>1. \A f \in 1..Len(stack) : stack[f].addrVerifiedTotal <= addrVerified
        BY DEF LocalsInvariant, CountersConsistent
      <3>2. SUFFICES ASSUME NEW f \in 1..Len(stack)
                     PROVE  stack[f].addrVerifiedTotal <= addrVerified + 1
        BY <1>1, <1>2, <1>3
      <3>3. QED
        BY <1>1, <1>8, <3>1
    <2>3. \A f, g \in 1..Len(stack') :
             f <= g => stack'[f].addrVerifiedTotal <= stack'[g].addrVerifiedTotal
      <3>1. \A f, g \in 1..Len(stack) :
               f <= g => stack[f].addrVerifiedTotal <= stack[g].addrVerifiedTotal
        BY DEF LocalsInvariant, CountersConsistent
      <3>2. QED
        BY <1>2, <1>3, <3>1
    <2>4. QED
      BY <1>7, <2>1, <2>2, <2>3 DEF CountersConsistent
  <1>10. \A f \in 1..Len(stack) : ~stack[f].parentVerified
    BY <1>1, <1>2 DEF Needed, LocalsInvariant, CoverageInherited
  <1>11. CoverageInherited' /\ NothingBelowSatisfied'
    BY <1>2, <1>3, <1>10 DEF CoverageInherited, NothingBelowSatisfied
  <1>12. NeverAboveThreshold'
    <2>1. Top.verified \in Nat /\ Top.owners.threshold \in Nat
      BY <1>2, OwnersAssumption DEF Frame, Owners
    <2>2. Top.verified + 1 <= Top.owners.threshold
      BY <1>1, <2>1 DEF Needed, ThresholdMet
    <2>3. stack'[Len(stack)].verified <= stack'[Len(stack)].owners.threshold
      BY <1>2, <2>2, FrameUpdateFields
    <2>4. QED
      BY <1>2, <2>3 DEF LocalsInvariant, NeverAboveThreshold
  <1>13. WellFormed(selected)'
    <2>1. Increasing(selected)'
      BY <1>4, <1>5, <1>6 DEF LocalsInvariant, WellFormed, Increasing
    <2>2. Len(selected') <= MaxSignatures + 1
      BY <1>1, <1>5, <1>6, MaxSignaturesAssumption
    <2>3. QED
      BY <2>1, <2>2 DEF WellFormed
  <1>14. QED
    BY <1>9, <1>11, <1>12, <1>13 DEF LocalsInvariant

LEMMA PushInvariant ==
    ASSUME TypeOK, LocalsInvariant, PushAlias
    PROVE  LocalsInvariant'
  <1> DEFINE n == Len(stack)
             covered == Top.parentVerified \/ ThresholdMet(Top)
             child == NewFrame(msigAliases[Current], addrVerified, covered)
  <1>1. /\ stack \in Seq(Frame) /\ stack # <<>> /\ addrVisited \in Nat /\ addrVerified \in Nat
        /\ UNCHANGED <<selected, addrVisited, addrVerified>>
        /\ stack' = Append(Append(Below, Advanced(Top)), child)
    BY DEF TypeOK, PushAlias, VisitingAlias, Visiting
  <1>2. msigAliases[Current] \in OwnersSet
    BY AliasMapsAssumption DEF TypeOK, PushAlias, VisitingAlias
  <1>3. child \in Frame
    BY <1>1, <1>2, NewFrameIsFrame
  <1>4. /\ n \in Nat \ {0} /\ Below \in Seq(Frame) /\ Len(Below) = n - 1
        /\ \A i \in 1..n - 1 : Below[i] = stack[i]
        /\ Top \in Frame /\ Top = stack[n] /\ Advanced(Top) \in Frame
    BY <1>1, StackFacts, FrameUpdates DEF Top
  <1>5. /\ child.verified = 0 /\ child.addrVerifiedTotal = addrVerified
        /\ child.parentVerified = covered /\ child.owners = msigAliases[Current]
    BY NewFrameFields
  <1> HIDE DEF child
  <1>6. /\ Len(stack') = n + 1 /\ stack'[n + 1] = child /\ stack'[n] = Advanced(Top)
        /\ \A i \in 1..n - 1 : stack'[i] = stack[i]
    BY <1>1, <1>3, <1>4
  <1>7. \A i \in 1..n :
            /\ stack'[i].addrVerifiedTotal = stack[i].addrVerifiedTotal
            /\ stack'[i].parentVerified = stack[i].parentVerified
            /\ stack'[i].verified = stack[i].verified
            /\ stack'[i].owners = stack[i].owners
    BY <1>4, <1>6, FrameUpdateFields
  <1>8. \A f \in 1..n : stack[f].addrVerifiedTotal \in Nat
    BY <1>1, StackTypes
  <1>9. CountersConsistent'
    <2>1. \A f \in 1..n : stack'[f].addrVerifiedTotal <= addrVerified
      BY <1>7 DEF LocalsInvariant, CountersConsistent
    <2>2. stack'[n + 1].addrVerifiedTotal = addrVerified
      BY <1>5, <1>6
    <2>3. \A f, g \in 1..n : f <= g => stack'[f].addrVerifiedTotal <= stack'[g].addrVerifiedTotal
      BY <1>7 DEF LocalsInvariant, CountersConsistent
    <2>4. \A f \in 1..n + 1 : stack'[f].addrVerifiedTotal <= addrVerified
      BY <1>1, <1>4, <2>1, <2>2
    <2>5. \A f, g \in 1..n + 1 : f <= g => stack'[f].addrVerifiedTotal <= stack'[g].addrVerifiedTotal
      BY <1>1, <1>4, <2>2, <2>3, <2>4
    <2>6. QED
      BY <1>1, <1>6, <2>4, <2>5 DEF LocalsInvariant, CountersConsistent
  <1>10. CoverageInherited'
    <2>1. \A f, g \in 1..n : f <= g /\ stack'[f].parentVerified => stack'[g].parentVerified
      BY <1>7 DEF LocalsInvariant, CoverageInherited
    <2>2. \A f \in 1..n : stack'[f].parentVerified => Top.parentVerified
      BY <1>4, <1>7 DEF LocalsInvariant, CoverageInherited
    <2>3. Top.parentVerified => stack'[n + 1].parentVerified
      BY <1>5, <1>6
    <2>4. QED
      BY <1>4, <1>6, <2>1, <2>2, <2>3 DEF CoverageInherited
  <1>11. NothingBelowSatisfied'
    BY <1>1, <1>4, <1>5, <1>6, <1>7 DEF LocalsInvariant, NothingBelowSatisfied
  <1>12. NeverAboveThreshold'
    <2>1. 0 <= child.owners.threshold
      BY <1>2, <1>5, OwnersAssumption DEF Owners
    <2>2. QED
      BY <1>4, <1>5, <1>6, <1>7, <2>1 DEF LocalsInvariant, NeverAboveThreshold
  <1>13. WellFormed(selected)'
    BY <1>1 DEF LocalsInvariant, WellFormed, Increasing
  <1>14. QED
    BY <1>9, <1>10, <1>11, <1>12, <1>13 DEF LocalsInvariant

LEMMA UnmetInvariant ==
    ASSUME TypeOK, LocalsInvariant, AliasUnmet
    PROVE  LocalsInvariant'
  <1> DEFINE n == Len(stack)
             total == Top.addrVerifiedTotal
  <1>1. /\ stack \in Seq(Frame) /\ stack # <<>> /\ addrVisited \in Nat /\ addrVerified \in Nat
        /\ selected \in Seq(SigIdx) /\ UNCHANGED addrVisited
        /\ stack' = Below /\ addrVerified' = total
        /\ selected' = SubSeq(selected, 1, total)
    BY DEF TypeOK, AliasUnmet, Leaving
  <1>2. /\ n \in Nat \ {0} /\ Len(stack') = n - 1 /\ Top = stack[n]
        /\ \A i \in 1..n - 1 : stack'[i] = stack[i]
    BY <1>1, StackFacts DEF Top
  <1>3. total \in 0..Len(selected)
    BY <1>1, <1>2, StackTypes DEF LocalsInvariant, CountersConsistent
  <1>4. /\ Len(selected') = total /\ Len(selected) \in Nat
        /\ \A k \in 1..total : selected'[k] = selected[k] /\ k \in 1..Len(selected)
    BY <1>1, <1>3, PrefixFacts
  <1>5. total <= addrVerified /\ addrVerified <= addrVisited /\ total \in Nat
    BY <1>2, <1>3 DEF LocalsInvariant, CountersConsistent
  <1>6. \A f \in 1..n - 1 : f \in 1..n /\ f <= n
    BY <1>2
  <1>7. CountersConsistent'
    <2>1. \A f \in 1..n - 1 : stack'[f].addrVerifiedTotal <= total
      BY <1>2, <1>6 DEF LocalsInvariant, CountersConsistent
    <2>2. \A f, g \in 1..n - 1 : f <= g => stack'[f].addrVerifiedTotal <= stack'[g].addrVerifiedTotal
      BY <1>2, <1>6 DEF LocalsInvariant, CountersConsistent
    <2>3. \A k \in 1..total : selected'[k].index < addrVisited
      BY <1>4 DEF LocalsInvariant, CountersConsistent
    <2>4. total <= addrVisited
      BY <1>1, <1>5
    <2>5. QED
      BY <1>1, <1>2, <1>4, <2>1, <2>2, <2>3, <2>4 DEF CountersConsistent
  <1>8. CoverageInherited' /\ NeverAboveThreshold'
    BY <1>2, <1>6 DEF LocalsInvariant, CoverageInherited, NeverAboveThreshold
  <1>9. NothingBelowSatisfied'
    <2>1. ASSUME NEW f \in 1..n - 1, stack[f].parentVerified
          PROVE  stack[f].addrVerifiedTotal = total
      <3>1. Top.parentVerified
        BY <1>2, <1>6, <2>1 DEF LocalsInvariant, CoverageInherited
      <3>2. QED
        BY <1>2, <1>6, <2>1, <3>1 DEF LocalsInvariant, NothingBelowSatisfied
    <2>2. QED
      BY <1>1, <1>2, <2>1 DEF NothingBelowSatisfied
  <1>10. WellFormed(selected)'
    <2>1. Increasing(selected)'
      BY <1>4 DEF LocalsInvariant, WellFormed, Increasing
    <2>2. Len(selected') <= MaxSignatures + 1
      BY <1>3, <1>4, MaxSignaturesAssumption DEF LocalsInvariant, WellFormed
    <2>3. QED
      BY <2>1, <2>2 DEF WellFormed
  <1>11. QED
    BY <1>7, <1>8, <1>9, <1>10 DEF LocalsInvariant

LEMMA MetInvariant ==
    ASSUME TypeOK, LocalsInvariant, AliasMet
    PROVE  LocalsInvariant'
  <1> DEFINE n == Len(stack)
             parent == ApplyChild(stack[n - 1])
  <1>1. /\ stack \in Seq(Frame) /\ stack # <<>> /\ n > 1
        /\ UNCHANGED <<selected, addrVisited, addrVerified>>
        /\ stack' = [Below EXCEPT ![n - 1] = ApplyChild(Below[n - 1])]
    BY DEF TypeOK, AliasMet, Leaving
  <1>2. /\ n \in Nat \ {0} /\ Below \in Seq(Frame) /\ Len(Below) = n - 1
        /\ \A i \in 1..n - 1 : Below[i] = stack[i]
        /\ \A i \in 1..n : stack[i] \in Frame
    BY <1>1, StackFacts, StackTypes
  <1>3. n - 1 \in 1..n - 1 /\ stack[n - 1] \in Frame /\ parent \in Frame
    BY <1>1, <1>2, FrameUpdates
  <1>4. stack' = [Below EXCEPT ![n - 1] = parent]
    BY <1>1, <1>2, <1>3
  <1> HIDE DEF parent
  <1>5. /\ Len(stack') = n - 1 /\ stack'[n - 1] = parent
        /\ \A i \in 1..n - 1 : i # n - 1 => stack'[i] = stack[i]
    BY <1>2, <1>3, <1>4, ExceptSeq
  <1>6. \A i \in 1..n - 1 :
            /\ stack'[i].addrVerifiedTotal = stack[i].addrVerifiedTotal
            /\ stack'[i].parentVerified = stack[i].parentVerified
    BY <1>3, <1>5, FrameUpdateFields DEF parent
  <1>7. CountersConsistent' /\ CoverageInherited' /\ NothingBelowSatisfied'
    BY <1>1, <1>2, <1>5, <1>6, SnapshotsKept DEF LocalsInvariant
  <1>8. NeverAboveThreshold'
    <2>1. \A i \in 1..n - 1 : stack[i].verified <= stack[i].owners.threshold
      BY <1>2 DEF LocalsInvariant, NeverAboveThreshold
    <2>2. parent.verified <= parent.owners.threshold
      BY <1>3, <2>1, FrameUpdateFields DEF parent
    <2>3. QED
      BY <1>5, <2>1, <2>2 DEF NeverAboveThreshold
  <1>9. WellFormed(selected)'
    BY <1>1 DEF LocalsInvariant, WellFormed, Increasing
  <1>10. QED
    BY <1>7, <1>8, <1>9 DEF LocalsInvariant

LEMMA TraverseInvariant ==
    ASSUME TypeOK, LocalsInvariant, TraverseOwner
    PROVE  LocalsInvariant'
  <1> DEFINE root == NewFrame(txOwners[Len(sigIdxs) + 1], 0, FALSE)
  <1>1. /\ UNCHANGED <<selected, addrVisited, addrVerified>>
        /\ stack' = <<root>> /\ addrVerified \in Nat
    BY DEF TypeOK, TraverseOwner
  <1>2. root.owners.threshold \in Nat
    <2>1. /\ txOwners \in Seq(OwnersSet) /\ sigIdxs \in Seq(Seq(SigIdx))
          /\ Len(sigIdxs) < Len(txOwners)
      BY TxOwnersAssumption DEF TypeOK, TraverseOwner
    <2>2. Len(sigIdxs) + 1 \in 1..Len(txOwners)
      BY <2>1, LenProperties
    <2>3. txOwners[Len(sigIdxs) + 1] \in OwnersSet
      BY <2>1, <2>2, ElementOfSeq
    <2>4. root.owners = txOwners[Len(sigIdxs) + 1]
      BY DEF NewFrame
    <2>5. QED
      BY <2>3, <2>4, OwnersAssumption DEF Owners
  <1>3. root.verified = 0 /\ root.addrVerifiedTotal = 0 /\ ~root.parentVerified
    BY DEF NewFrame
  <1> HIDE DEF root
  <1>4. Len(stack') = 1 /\ stack'[1] = root
    BY <1>1
  <1>5. CountersConsistent' /\ CoverageInherited' /\ NothingBelowSatisfied' /\ NeverAboveThreshold'
    BY <1>1, <1>2, <1>3, <1>4
       DEF LocalsInvariant, CountersConsistent, CoverageInherited, NothingBelowSatisfied, NeverAboveThreshold
  <1>6. WellFormed(selected)'
    BY <1>1 DEF LocalsInvariant, WellFormed, Increasing
  <1>7. QED
    BY <1>5, <1>6 DEF LocalsInvariant

-----------------------------------------------------------------------------
LEMMA StepInvariant ==
    ASSUME TypeOK, WalkInvariant, [Next]_vars
    PROVE  WalkInvariant'
  <1>1. LocalsInvariant /\ \A o \in 1..Len(sigIdxs) : WellFormed(sigIdxs[o])
    BY LocalsSplit
  <1>2. CASE OwnerMet
    <2>1. sigIdxs' = Append(sigIdxs, selected) /\ sigIdxs \in Seq(Seq(SigIdx)) /\ selected \in Seq(SigIdx)
      BY <1>2 DEF OwnerMet, TypeOK
    <2>2. WellFormed(selected)
      BY <1>1 DEF LocalsInvariant
    <2>3. \A o \in 1..Len(sigIdxs') : WellFormed(sigIdxs'[o])
      BY <1>1, <2>1, <2>2
    <2>4. LocalsInvariant'
      BY <1>2, ReleasedInvariant DEF OwnerMet
    <2>5. QED
      BY <2>3, <2>4, LocalsSplit
         DEF WalkInvariant, LocalsInvariant, SelectionsWellFormed, WellFormed, Increasing
  <1>3. ASSUME LocalsInvariant', sigIdxs' = sigIdxs \/ sigIdxs' = <<>>
        PROVE  WalkInvariant'
    BY <1>1, <1>3 DEF WalkInvariant, LocalsInvariant, SelectionsWellFormed, WellFormed, Increasing
  <1>4. ASSUME UNCHANGED locals, sigIdxs' = sigIdxs \/ sigIdxs' = <<>>
        PROVE  WalkInvariant'
    BY <1>1, <1>3, <1>4, UnchangedInvariant
  <1>5. CASE \E a \in KeyAddress : AddKey(a) \/ RemoveKey(a)
    BY <1>4, <1>5 DEF AddKey, RemoveKey
  <1>6. CASE BuildSignatureIndices \/ GetCredentials \/ AllOwnersTraversed \/ UNCHANGED vars
    BY <1>4, <1>6 DEF BuildSignatureIndices, GetCredentials, AllOwnersTraversed, vars
  <1>7. ASSUME NEW error, Throw(error) PROVE WalkInvariant'
    BY <1>3, <1>7, ReleasedInvariant DEF Throw
  <1>8. CASE TraverseOwner
    BY <1>1, <1>3, <1>8, TraverseInvariant DEF TraverseOwner
  <1>9. CASE PushAlias
    BY <1>1, <1>3, <1>9, PushInvariant DEF PushAlias
  <1>10. CASE SelectSignature
    BY <1>1, <1>3, <1>10, SelectInvariant DEF SelectSignature
  <1>11. CASE SkipAddress
    BY <1>1, <1>3, <1>11, SkipInvariant DEF SkipAddress
  <1>12. CASE AliasUnmet
    BY <1>1, <1>3, <1>12, UnmetInvariant DEF AliasUnmet
  <1>13. CASE AliasMet
    BY <1>1, <1>3, <1>13, MetInvariant DEF AliasMet
  <1>14. QED
    BY <1>2, <1>5, <1>6, <1>7, <1>8, <1>9, <1>10, <1>11, <1>12, <1>13
       DEF Next, Walk, AliasTooDeep, AliasRepeated, TooManySignatures, OwnerUnmet

LEMMA StepTyped ==
    ASSUME TypeOK, WalkInvariant, [Next]_vars
    PROVE  TypeOK'
  <1>1. CASE UNCHANGED vars
    BY <1>1 DEF vars, input, locals, TypeOK
  <1>2. QED
    BY <1>1, CallerTyped, WalkTyped DEF Next, WalkInvariant

LEMMA InductiveInvariant == Spec => [](TypeOK /\ WalkInvariant)
  <1>1. Init => TypeOK /\ WalkInvariant
    BY InitTyped, InitInvariant
  <1>2. TypeOK /\ WalkInvariant /\ [Next]_vars => (TypeOK /\ WalkInvariant)'
    BY StepTyped, StepInvariant
  <1>3. QED
    BY <1>1, <1>2, PTL DEF Spec

\* Every field of the keychain and every local of the walk keeps its shape; in
\* particular the rollback never restores more than was selected.
THEOREM TypeCorrect == Spec => []TypeOK
  BY InductiveInvariant, PTL

\* The counter of verified addresses, the positions and all snapshots agree
\* with the selection at every moment of the walk.
THEOREM CountersAlwaysConsistent == Spec => []CountersConsistent
  <1>1. WalkInvariant => CountersConsistent
    BY DEF WalkInvariant
  <1>2. QED
    BY <1>1, InductiveInvariant, PTL

\* Once an enclosing level is satisfied, nothing below it adds a signature.
THEOREM NothingAddedBelowSatisfied == Spec => []NothingBelowSatisfied
  <1>1. WalkInvariant => NothingBelowSatisfied
    BY DEF WalkInvariant
  <1>2. QED
    BY <1>1, InductiveInvariant, PTL

\* Signature indices are strictly increasing and at most MaxSignatures + 1, in
\* the walk and in every finished credential.
THEOREM CredentialsWellFormed == Spec => []SelectionsWellFormed
  <1>1. WalkInvariant => SelectionsWellFormed
    BY DEF WalkInvariant
  <1>2. QED
    BY <1>1, InductiveInvariant, PTL

\* No level ever collects more than its threshold.
THEOREM ThresholdNeverExceeded == Spec => []NeverAboveThreshold
  <1>1. WalkInvariant => NeverAboveThreshold
    BY DEF WalkInvariant
  <1>2. QED
    BY <1>1, InductiveInvariant, PTL
=============================================================================
