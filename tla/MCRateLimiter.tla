--------------------------- MODULE MCRateLimiter ---------------------------
\* Instances of RateLimiter for TLC.
EXTENDS RateLimiter, TLC

\* Requests are interchangeable.
Symmetry == Permutations(Reqs)

=============================================================================
