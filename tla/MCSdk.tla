------------------------------- MODULE MCSdk --------------------------------
\* The Python SDK and the Go cache on small instances.
EXTENDS Sdk, TLC

Symmetry == Permutations(Actors)

\* A pack of each kind the evaluator tells apart, and a bundle
Pack(tier, status, sensitive) ==
    [tier |-> tier, active |-> status, sensitive |-> sensitive]
SmallPacks   == {Pack("low", TRUE, TRUE), Pack("high", TRUE, FALSE),
                 Pack("high", FALSE, FALSE)}
Policy(fresh, enforce) == [fresh |-> fresh, enforce |-> enforce]
SmallBundles == {Policy(TRUE, "permit"), Policy(FALSE, "permit"),
                 Policy(TRUE, "forbid"), Policy(TRUE, "raises")}
=============================================================================
