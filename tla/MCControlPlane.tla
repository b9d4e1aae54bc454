--------------------------- MODULE MCControlPlane ---------------------------
\* Instances of ControlPlane for TLC.
EXTENDS ControlPlane, TLC

\* Peers and request slots are interchangeable where no constant names one.
Slots == Permutations(Node) \cup Permutations(Req)
=============================================================================
