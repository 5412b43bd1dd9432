---------------------------- MODULE MCAccounts ----------------------------
\* Instances of Accounts for TLC.
EXTENDS Accounts, TLC

\* Requests are interchangeable, and so are the keys of users.
Symmetry == Permutations(Reqs) \cup Permutations(Ids)

=============================================================================
