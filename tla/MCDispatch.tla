----------------------------- MODULE MCDispatch -----------------------------
\* Model-checking instances of Dispatch.
EXTENDS Dispatch

CONSTANTS h1, h2, r1, r2, s1, s2, s3, d1, d2, t1

\* filter() of a JavaScript array, for every sequence and set that a run meets.
ASSUME KeptIsFilter ==
    \A n \in 0 .. Cardinality(Shipments) : \A seq \in [1 .. n -> Shipments] :
        \A ids \in SUBSET Shipments :
            Kept(seq, ids) = SelectSeq(seq, LAMBDA s : s \notin ids)

\* Calls, runs, shipments and drivers are interchangeable.
DispatchSymmetry ==
    Permutations(Handlers) \cup Permutations(Runs)
        \cup Permutations(Shipments) \cup Permutations(Drivers)
==============================================================================
