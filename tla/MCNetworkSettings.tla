-------------------------- MODULE MCNetworkSettings --------------------------
(* A node of a predefined network, one of another network, and one of a third
   network that does not have the method that gives the configuration. *)
EXTENDS NetworkSettings, TLC

MCNode == {"camino", "private", "old"}

MCNetworkOf == "camino" :> 1 @@ "private" :> 2 @@ "old" :> 3
=============================================================================
