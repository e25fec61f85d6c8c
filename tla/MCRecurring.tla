----------------------------- MODULE MCRecurring -----------------------------
\* Model-checking instances of RecurringTemplates: Friday 30, Sunday 1 and
\* Monday 2 stand for three days that a month and a week may separate.
EXTENDS RecurringTemplates, TLC

CONSTANTS h1, h2, r1, r2, r3, t1, t2

Calendar == <<5, 7, 1>>

ThreeWeekdays == [d \in 0 .. 2 |-> Calendar[d + 1]]

ThreeMonthDays == [d \in 0 .. 2 |-> <<30, 1, 2>>[d + 1]]

Daily == [pattern |-> "daily", days |-> {}, start |-> 0, end |-> 1, exceptions |-> {}]

OnSundays == [pattern |-> "weekly", days |-> {7}, start |-> 0, end |-> Null, exceptions |-> {}]

OnTheFirst == [pattern |-> "monthly", days |-> {}, start |-> 1, end |-> Null, exceptions |-> {}]

ByHand == [pattern |-> "custom", days |-> {}, start |-> 0, end |-> Null, exceptions |-> {1}]

AutomaticPlans == {Daily, OnSundays}

AllPlans == {Daily, OnSundays, OnTheFirst, ByHand}

\* Calls, runs and templates are interchangeable.
RecurringSymmetry ==
    Permutations(Handlers) \cup Permutations(Runs) \cup Permutations(Templates)
=============================================================================
