------------------------------ MODULE MCBilling ------------------------------
\* Model-checking instances of SubscriptionBilling.
EXTENDS SubscriptionBilling, TLC

CONSTANTS h1, h2, h3, p1, s1, s2, free, pro, max

\* Calls are interchangeable.
HandlerSymmetry == Permutations(Handlers)
==============================================================================
