---------------------------- MODULE MCDataPlane -----------------------------
EXTENDS DataPlane, TLC

\* Addresses and TEIDs are only compared.
Symmetry == Permutations(Addrs) \cup Permutations(Peers)
=============================================================================
