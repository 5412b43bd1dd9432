------------------------------ MODULE MCLinks ------------------------------
\* Instances of Links for TLC.
EXTENDS Links, TLC

\* Requests, links and codes are interchangeable; the names of users are not.
Symmetry == Permutations(Reqs) \cup Permutations(Ids) \cup Permutations(Codes)

=============================================================================
