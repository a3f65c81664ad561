---------------------------- MODULE MCDiscStrategy ----------------------------
(* DiscStrategy with a few pairs of distances.                               *)
EXTENDS DiscStrategy, TLC

See(l, r) == [left |-> l, right |-> r]

\* One pair is out of range.
TornViews == {See(9000, 50), See(30, 90), See(90, 30)}

AllSources == DOMAIN FAKE_VALUES \cup {"sensor", "none"}
=============================================================================
