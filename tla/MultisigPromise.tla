-------------------------- MODULE MultisigPromise ---------------------------
(***************************************************************************)
(* What buildSignatureIndices of src/common/multisigkeychain.ts promises,  *)
(* said without stack, counters or rollback: a call either returns one     *)
(* exact selection of signatures per owner or reports why there is none.   *)
(* Nested thresholds have their recursive reading here, so this module is  *)
(* for TLC only; MCMultisigKeyChain shows that the stack walk implements it.*)
(***************************************************************************)
EXTENDS Integers, Sequences

CONSTANTS Address, AliasMaps, TxOwnersSet, MaxSignatures

VARIABLES keys, msigAliases, txOwners, sigIdxs, outcome

vars == <<keys, msigAliases, txOwners, sigIdxs, outcome>>

\* The addresses that are no alias, in the order of a depth first walk.
\* A cyclic alias is not entered again.
RECURSIVE Leaves(_, _)
Leaves(addrs, path) ==
    IF addrs = <<>> THEN <<>>
    ELSE LET a == Head(addrs)
             below == IF a \notin DOMAIN msigAliases THEN <<a>>
                      ELSE IF a \in path THEN <<>>
                      ELSE Leaves(msigAliases[a].addresses, path \cup {a})
         IN below \o Leaves(Tail(addrs), path)

\* Every occurrence of an alias in that walk.
RECURSIVE AliasOccurrences(_, _)
AliasOccurrences(addrs, path) ==
    IF addrs = <<>> THEN <<>>
    ELSE LET a == Head(addrs)
             below == IF a \notin DOMAIN msigAliases THEN <<>>
                      ELSE IF a \in path THEN <<a>>
                      ELSE <<a>> \o AliasOccurrences(msigAliases[a].addresses, path \cup {a})
         IN below \o AliasOccurrences(Tail(addrs), path)

\* A cycle proper: an alias which is met again below itself.
RECURSIVE HasCycle(_, _)
HasCycle(addrs, path) ==
    \E i \in 1..Len(addrs) :
        /\ addrs[i] \in DOMAIN msigAliases
        /\ \/ addrs[i] \in path
           \/ HasCycle(msigAliases[addrs[i]].addresses, path \cup {addrs[i]})

\* How many of addrs are satisfied by signatures at the positions in signed,
\* the first leaf of addrs standing at position offset.
RECURSIVE Score(_, _, _)
Score(addrs, signed, offset) ==
    IF addrs = <<>> THEN 0
    ELSE LET a == Head(addrs)
             satisfied == IF a \notin DOMAIN msigAliases THEN offset \in signed
                          ELSE Score(msigAliases[a].addresses, signed, offset) >= msigAliases[a].threshold
         IN (IF satisfied THEN 1 ELSE 0)
            + Score(Tail(addrs), signed, offset + Len(Leaves(<<a>>, {})))

OwnerLeaves(o) == Leaves(txOwners[o].addresses, {})

Satisfied(o, signed) == Score(txOwners[o].addresses, signed, 0) >= txOwners[o].threshold

RepeatsAlias(o) ==
    LET found == AliasOccurrences(txOwners[o].addresses, {})
    IN \E i, j \in 1..Len(found) : i < j /\ found[i] = found[j]

\* The positions whose address has a key.
Signable(o) == {p \in 0..(Len(OwnerLeaves(o)) - 1) : OwnerLeaves(o)[p + 1] \in keys}

Indices(selection) == {selection[k].index : k \in 1..Len(selection)}

\* A selection is exact: it names the right addresses, satisfies the owner,
\* and no signature of it can be spared.
Exact(o, selection) ==
    /\ \A k \in 1..Len(selection) :
           /\ selection[k].index \in Signable(o)
           /\ OwnerLeaves(o)[selection[k].index + 1] = selection[k].source
    /\ \A j, k \in 1..Len(selection) : j < k => selection[j].index < selection[k].index
    /\ Satisfied(o, Indices(selection))
    /\ \A p \in Indices(selection) : ~Satisfied(o, Indices(selection) \ {p})

-----------------------------------------------------------------------------
Init ==
    /\ keys = {}
    /\ msigAliases \in AliasMaps
    /\ txOwners \in TxOwnersSet
    /\ sigIdxs = <<>>
    /\ outcome = "fresh"

ChangeKeys ==
    /\ outcome # "running"
    /\ keys' \in SUBSET Address
    /\ UNCHANGED <<msigAliases, txOwners, sigIdxs, outcome>>

Call ==
    /\ outcome # "running"
    /\ outcome' = "running"
    /\ sigIdxs' = <<>>
    /\ UNCHANGED <<keys, msigAliases, txOwners>>

Return ==
    /\ outcome = "running"
    /\ outcome' = "built"
    /\ Len(sigIdxs') = Len(txOwners)
    /\ \A o \in 1..Len(txOwners) : ~RepeatsAlias(o) /\ Exact(o, sigIdxs'[o])
    /\ UNCHANGED <<keys, msigAliases, txOwners>>

Refuse(error) ==
    /\ outcome = "running"
    /\ outcome' = error
    /\ sigIdxs' = <<>>
    /\ UNCHANGED <<keys, msigAliases, txOwners>>

\* Refused only if not even all keys together satisfy some owner.
RefuseNotEnough ==
    /\ \E o \in 1..Len(txOwners) : ~RepeatsAlias(o) /\ ~Satisfied(o, Signable(o))
    /\ Refuse("not enough")

RefuseRepeatedAlias ==
    /\ \E o \in 1..Len(txOwners) : RepeatsAlias(o)
    /\ Refuse("cyclic")

\* Only an owner with more than MaxSignatures + 1 addresses below it, or as
\* many aliases as that, is too large.
RefuseTooMany ==
    /\ \E o \in 1..Len(txOwners) :
           \/ \E p \in Signable(o) : p > MaxSignatures
           \/ Len(AliasOccurrences(txOwners[o].addresses, {})) > MaxSignatures
    /\ Refuse("too many")

Next ==
    \/ ChangeKeys
    \/ Call
    \/ Return
    \/ RefuseNotEnough
    \/ RefuseRepeatedAlias
    \/ RefuseTooMany

Spec == Init /\ [][Next]_vars
=============================================================================
