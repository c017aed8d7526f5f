----------------------------- MODULE MCApiCalls -----------------------------
(***************************************************************************)
(* Two calls, on two networks of which the second is in the lock mode of   *)
(* Camino and makes assets for 25 AVAX, one of the calls with anything     *)
(* that may be wrong with it.                                              *)
(***************************************************************************)
EXTENDS ApiCalls

MCNetwork == {1, 2}
MCBondDeposit == <<FALSE, TRUE>>
MCCreationTxFee == <<0, 25>>
MCSlot == {1, 2}
MCFlawsOf == <<{"none", "args", "check", "time", "empty", "poor", "egg", "fat"}, {"none"}>>
=============================================================================
