---------------------------- MODULE MCSummaries ----------------------------
\* Instances of Summaries for TLC.
EXTENDS Summaries, TLC

CONSTANTS c1, c2, c3 \* the clicks

\* The breakdowns of get_summary, in its order.
AllDimensions == <<"country", "browser", "os", "device", "referrer">>

\* Two of them: one that is always recorded, one that may be missing.
TwoDimensions == <<"browser", "referrer">>

\* Three clicks: with a limit of one row, a browser is left out, and which one depends on
\* what is recorded when.  One came without an address, one without a referrer.
ThreeClicks ==
  c1 :> [visitor_hash |-> "v", country |-> None, browser |-> "x", os |-> "x", device |-> "x",
         referrer |-> None]
  @@ c2 :> [visitor_hash |-> None, country |-> None, browser |-> "y", os |-> "x",
            device |-> "y", referrer |-> "z"]
  @@ c3 :> [visitor_hash |-> "v", country |-> None, browser |-> "y", os |-> "x",
            device |-> "y", referrer |-> "z"]

OneClick == [c \in {c1} |-> ThreeClicks[c]]

\* Requests and links are interchangeable.
Symmetry == Permutations(Reqs) \cup Permutations(Links)

=============================================================================
