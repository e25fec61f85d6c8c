------------------------------ MODULE MCRouting ------------------------------
\* One run of three stops, whose optimization is overtaken by its start.
EXTENDS Routing, TLC

CONSTANTS h1, s1, s2, s3

\* On either side of the depot.
Line == {-2, 1, 5}

\* The origin first, then any numbers.
Arrays == {<<0>> \o array : array \in [1 .. 3 -> 1 .. 3]}
==============================================================================
