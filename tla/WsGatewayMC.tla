------------------------------ MODULE WsGatewayMC ------------------------------
(***************************************************************************)
(* The connections, the devices and the rooms are interchangeable.         *)
(***************************************************************************)
EXTENDS WsGateway, TLC

Symmetry == Permutations(Conns) \cup Permutations(Devices) \cup Permutations(Rooms)

===============================================================================
