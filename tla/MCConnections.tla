--------------------------- MODULE MCConnections ---------------------------
\* Instances of Connections for TLC.
EXTENDS Connections, TLC

Symmetry == Permutations(Reqs) \cup Permutations(Things)

=============================================================================
