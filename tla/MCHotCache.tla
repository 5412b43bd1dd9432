----------------------------- MODULE MCHotCache -----------------------------
\* Instances of HotCache for TLC.
EXTENDS HotCache, TLC

Symmetry == Permutations(Reqs)

=============================================================================
