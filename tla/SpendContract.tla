--------------------------- MODULE SpendContract ---------------------------
(***************************************************************************)
(* What a builder may rely on when its spender has answered without an     *)
(* error: how the tokens consumed are divided between destination, change  *)
(* and burn.  PlatformSpend is shown to keep it, PlatformBuilder builds on *)
(* it.                                                                     *)
(***************************************************************************)
EXTENDS Integers

CONSTANT Asset

Nothing == [a \in Asset |-> 0]

\* Amounts by asset, added up.
Plus(f, g) == [a \in Asset |-> f[a] + g[a]]

\* ask: asset -> amount and burn.  All that is asked for is consumed, what is in
\* excess of it is change, the amount is sent, and the rest is burned.  In Stake
\* mode locked tokens can stand in for the burn: they are sent with the amount.
Honours(ask, lockMode, consumed, sent, change) ==
    \A a \in Asset :
        IF a \in DOMAIN ask
        THEN /\ consumed[a] >= ask[a].amount + ask[a].burn
             /\ change[a] = consumed[a] - ask[a].amount - ask[a].burn
             /\ sent[a] >= ask[a].amount
             /\ sent[a] <= ask[a].amount + (IF lockMode = "Stake" THEN ask[a].burn ELSE 0)
        ELSE consumed[a] = 0 /\ sent[a] = 0 /\ change[a] = 0
=============================================================================
