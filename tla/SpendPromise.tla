---------------------------- MODULE SpendPromise ----------------------------
(***************************************************************************)
(* A call of getMinimumSpendable as its caller sees it: one step, in which *)
(* the request is met according to the contract, or refused.               *)
(***************************************************************************)
EXTENDS SpendContract

VARIABLES
    ask,        \* asset -> amount and burn asked for
    lockMode,
    outcome,    \* "open", "kept", "refused"
    consumed,   \* asset -> what the inputs consume
    sent,       \* asset -> what the outputs for the destinations hold
    change      \* asset -> what the change outputs hold

call == <<ask, lockMode>>
vars == <<call, outcome, consumed, sent, change>>

Init ==
    /\ outcome = "open"
    /\ consumed = Nothing
    /\ sent = Nothing
    /\ change = Nothing

Keep ==
    /\ outcome = "open"
    /\ outcome' = "kept"
    /\ consumed' \in [Asset -> Nat]
    /\ sent' \in [Asset -> Nat]
    /\ change' \in [Asset -> Nat]
    /\ Honours(ask, lockMode, consumed', sent', change')
    /\ UNCHANGED call

Refuse ==
    /\ outcome = "open"
    /\ outcome' = "refused"
    /\ UNCHANGED <<call, consumed, sent, change>>

Next == Keep \/ Refuse

Spec == Init /\ [][Next]_vars
=============================================================================
