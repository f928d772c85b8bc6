-------------------------------- MODULE MCP2P --------------------------------
(***************************************************************************)
(* Peers for model checking: the two clients of readme.md, each the        *)
(* other's neighbour; and both connected to the first (main.c mentions     *)
(* 127.0.0.1 for testing), so that one P2P server has two connections.     *)
(***************************************************************************)
EXTENDS P2PExchange, TLC

CONSTANTS p1, p2

Both == {p1, p2}
EachOther == p1 :> p2 @@ p2 :> p1
ServedByFirst == p1 :> p1 @@ p2 :> p1
=============================================================================
