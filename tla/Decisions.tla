----------------------------- MODULE Decisions ------------------------------
(***************************************************************************)
(* What the workflows with an approval promise: a matter is opened, granted*)
(* or refused once, and only a granted one is closed.  Expenses, relations *)
(* between companies and verifications implement it.                       *)
(***************************************************************************)
CONSTANT Matters

VARIABLE stage \* Matters -> Stages

Stages == {"none", "open", "granted", "refused", "closed", "withdrawn"}

Init == stage = [m \in Matters |-> "none"]

Moves ==
    {<<"none", "open">>, <<"open", "granted">>, <<"open", "refused">>,
     <<"granted", "closed">>, <<"open", "withdrawn">>, <<"granted", "withdrawn">>,
     <<"refused", "withdrawn">>}

Move(m, next) ==
    /\ <<stage[m], next>> \in Moves
    /\ stage' = [stage EXCEPT ![m] = next]

Next == \E m \in Matters, next \in Stages : Move(m, next)

Spec == Init /\ [][Next]_stage
=============================================================================
