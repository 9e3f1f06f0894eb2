-------------------------- MODULE MCPeerAdmission --------------------------
\* Two peers that may use the same two nonces.
EXTENDS PeerAdmission, TLC

CONSTANTS p, q, x, y

MCSources == {p, q}
MCNonces == {x, y}
Symmetry == Permutations(MCSources) \cup Permutations(MCNonces)
=============================================================================
