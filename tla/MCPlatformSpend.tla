--------------------------- MODULE MCPlatformSpend ---------------------------
(* Small instances of PlatformSpend. *)
EXTENDS PlatformSpend, TLC

CONSTANTS CAM, GOLD   \* the staked asset and another one

MCUtxo(a, amt, knd, lock, may) ==
    [asset |-> a, amount |-> amt, kind |-> knd, stakeableLocktime |-> lock, spendable |-> may]

\* Locks that ended, end at AsOf (2) and end later, an output of the other asset,
\* one the senders may not spend and one without an amount.
MCUtxos ==
    {MCUtxo(CAM, 1, "transfer", 0, TRUE), MCUtxo(CAM, 3, "transfer", 0, TRUE),
     MCUtxo(CAM, 2, "stakeable", 1, TRUE), MCUtxo(CAM, 1, "stakeable", 2, TRUE),
     MCUtxo(CAM, 3, "stakeable", 3, TRUE), MCUtxo(CAM, 1, "stakeable", 4, TRUE),
     MCUtxo(GOLD, 2, "transfer", 0, TRUE), MCUtxo(CAM, 4, "transfer", 0, FALSE),
     MCUtxo(CAM, 1, "owner", 0, TRUE)}

MCUtxoSets == [UtxoId -> MCUtxos]

Ask(amt, brn) == [amount |-> amt, burn |-> brn]

\* An amount with its fee, a fee alone, and a fee paid in another asset.
MCRequests ==
    {CAM :> Ask(3, 0), CAM :> Ask(3, 1), CAM :> Ask(0, 1), CAM :> Ask(2, 0) @@ GOLD :> Ask(0, 1)}
=============================================================================
