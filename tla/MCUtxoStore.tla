----------------------------- MODULE MCUtxoStore -----------------------------
(* Small instances of UtxoStore. *)
EXTENDS UtxoStore, TLC

CONSTANTS CAM, Ann, Bob

MCOutput(who, n, lock, amt) ==
    [addresses |-> who, threshold |-> n, locktime |-> lock, asset |-> CAM, amount |-> amt]

\* A shared output that needs both, one under a lock that either may spend, one of
\* Ann alone without an amount.
MCOutputOf ==
    1 :> MCOutput({Ann, Bob}, 2, 0, 5) @@ 2 :> MCOutput({Ann, Bob}, 1, 2, 3) @@ 3 :> MCOutput({Ann}, 1, 0, 0)

MCMoment == 1..3

\* Clients, base URLs and calls may be renamed: no property names one.
MCSymmetry == Permutations(Api) \cup Permutations(Namespace) \cup Permutations(Call)
=============================================================================
