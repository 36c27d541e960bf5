------------------------------- MODULE MCPeers -------------------------------
(***************************************************************************)
(* Module Peers for TLC: two peers, and packets with one address twice,    *)
(* with an address of a foreign network and with both peers.               *)
(***************************************************************************)
EXTENDS Peers

CONSTANTS p1, p2

MCPeersSet    == {p1, p2}
MCAddrPackets == {<<p1, p1>>, <<Foreign, p2>>, <<p2, p1>>}
=============================================================================
