-------------------------- MODULE MCPlatformBuilder --------------------------
(* Small instances of PlatformBuilder. *)
EXTENDS PlatformBuilder

CONSTANTS CAM, GOLD   \* the asset of the fees and another one

MCInput(i, a, amt) == [id |-> i, asset |-> a, amount |-> amt]

MCFunds == {MCInput(1, CAM, 3), MCInput(2, CAM, 1), MCInput(3, GOLD, 3)}

\* A call of nothing in particular.
Plain(knd) == [kind |-> knd, asset |-> CAM, amount |-> 0, feeAsset |-> CAM, fee |-> 1, valid |-> TRUE,
               version |-> 0, imports |-> <<>>, auth |-> <<0>>, named |-> FALSE, claims |-> <<>>]

\* What is imported, in the order of the other chain's UTXO set: nothing, too
\* little for a fee of 2 or 3, out of order, another asset before and after.
MCImports ==
    {<<>>, <<MCInput(5, CAM, 1)>>, <<MCInput(5, CAM, 1), MCInput(6, CAM, 1)>>,
     <<MCInput(6, CAM, 1), MCInput(5, CAM, 2)>>,
     <<MCInput(6, CAM, 1), MCInput(5, GOLD, 2)>>, <<MCInput(5, GOLD, 1), MCInput(6, CAM, 3)>>}

MCClaim(amt, flt) == [amount |-> amt, fault |-> flt]

MCClaims ==
    {<<MCClaim(2, "none")>>, <<MCClaim(1, "none"), MCClaim(2, "none")>>,
     <<MCClaim(1, "none"), MCClaim(2, "count")>>}

MCCalls ==
    {[Plain(knd) EXCEPT !.fee = f] : knd \in FeeOnlyKinds \ {"Claim", "MultisigAlias"}, f \in 0..2}
    \cup {[Plain(knd) EXCEPT !.fee = f, !.named = TRUE, !.version = v] :
              knd \in {"AddressState", "RegisterNode"}, f \in 0..1, v \in 0..1}
    \cup {[Plain("MultisigAlias") EXCEPT !.fee = f, !.named = (x # <<>>), !.auth = x] :
              f \in 0..1, x \in {<<>>, <<0>>, <<0, 1>>}}
    \cup {[Plain("Claim") EXCEPT !.fee = f, !.claims = c] : f \in 0..1, c \in MCClaims}
    \cup {[Plain("AddSubnetValidator") EXCEPT !.valid = FALSE]}
    \cup {[Plain(knd) EXCEPT !.auth = x] :
              knd \in {"AddSubnetValidator", "CreateChain"}, x \in {<<>>, <<0, 1>>}}
    \cup {[Plain("Import") EXCEPT !.fee = f, !.imports = i] : f \in 0..3, i \in MCImports}
    \cup {[Plain(knd) EXCEPT !.fee = f, !.amount = n, !.asset = a, !.valid = v] :
              knd \in {"Base", "Export"}, f \in 0..1, n \in {0, 2}, a \in {CAM, GOLD}, v \in BOOLEAN}
    \cup {[Plain(knd) EXCEPT !.fee = f, !.amount = 2, !.asset = a, !.valid = v] :
              knd \in {"AddValidator", "AddDelegator", "CaminoAddValidator", "AddProposal"},
              f \in 0..1, a \in {CAM, GOLD}, v \in BOOLEAN}
    \cup {[Plain("Deposit") EXCEPT !.fee = f, !.amount = 2, !.version = v, !.auth = x] :
              f \in 0..1, v \in 0..1, x \in {<<>>, <<0>>, <<1>>, <<0, 1>>, <<1, 2>>}}
=============================================================================
