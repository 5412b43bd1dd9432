-------------------------- MODULE MCClickPipeline --------------------------
\* Instances of ClickPipeline for TLC.
EXTENDS ClickPipeline, TLC

\* Links are interchangeable, and so are the clicks that fit their columns.
Symmetry == Permutations(Links) \cup Permutations(Clicks \ Oversized)

=============================================================================
