---------------------------- MODULE MCDownFlows -----------------------------
(* Two ports of one address and one port of another. *)
EXTENDS DownFlows, TLC
CONSTANTS a1, a2, b1, ipA, ipB

MCIpOf == (a1 :> ipA) @@ (a2 :> ipA) @@ (b1 :> ipB)
=============================================================================
