----------------------------- MODULE MCPlatform -----------------------------
\* Values for the constants of Platform that a configuration cannot write.
EXTENDS Platform, TLC

CONSTANTS c1, c2, c3, w1, w2

Callers == {c1, c2, c3}
Processes == {w1, w2}
Interchangeable == Permutations(Callers) \cup Permutations(Processes)

TwoShares == <<2, 1>>
OneReplica == [w \in Processes |-> "p1"]
Homes == [b1 |-> "p1", b2 |-> "p2"]

\* A summer price by the night in two overlapping seasons, a tax by percentage everywhere
\* and one by the night in one city.
Seasons == {[from |-> 1, to |-> 3, price |-> 30], [from |-> 0, to |-> 2, price |-> 7]}
TaxRules == {[kind |-> "percent", city |-> "any", amount |-> 10, cap |-> 0],
             [kind |-> "perNight", city |-> "lis", amount |-> 2, cap |-> 1]}

\* Routing with two domestic providers and none abroad, one provider that is named, and
\* routing with no provider at all.
Settings == {[provider |-> "auto", keys |-> {"gpayangola", "appypay"}],
             [provider |-> "stripe", keys |-> {"stripe", "appypay"}],
             [provider |-> "auto", keys |-> {}]}
=============================================================================
