----------------------------- MODULE Assignment -----------------------------
(***************************************************************************)
(* What the fleet promises of drivers and trucks: a truck has at most one  *)
(* driver and a driver at most one truck, at every moment.                 *)
(***************************************************************************)
CONSTANTS Trucks, Drivers, Null

VARIABLE driverOf \* Trucks -> its driver, or Null

Init == driverOf = [t \in Trucks |-> Null]

Free(d, t) == d = Null \/ \A x \in Trucks \ {t} : driverOf[x] # d

\* A truck gets a driver who has no other, or is left without one.
Assign(t, d) ==
    /\ Free(d, t)
    /\ driverOf' = [driverOf EXCEPT ![t] = d]

Next == \E t \in Trucks, d \in Drivers \cup {Null} : Assign(t, d)

Spec == Init /\ [][Next]_driverOf
=============================================================================
