---------------------------- MODULE MCPeerLease ----------------------------
\* Instances of PeerLease for TLC.
EXTENDS PeerLease, TLC

Peers == Permutations(Node)
=============================================================================
