---------------------------- MODULE FleetProofs -----------------------------
(***************************************************************************)
(* Theorems about Fleet for any number of trucks, drivers and overlapping  *)
(* calls: the fleet implements Assignment, and overlapping calls exceed    *)
(* the limits of the plan by at most one row for each other call.          *)
(***************************************************************************)
EXTENDS Fleet, FiniteSetTheorems, TLAPS

-----------------------------------------------------------------------------
\* What the requests have in common.

Call == TruckCall \cup DriverCall

\* A call that removes a row has found it, and rows are never deleted.
Found(call) ==
    /\ call.step = "removeTruck" => trucks[call.truck] # Null
    /\ call.step = "removeDriver" => drivers[call.driver] # Null

\* A call that will save a row has seen it, or room for one more.
Admitted(call) ==
    /\ call.step = "saveTruck" => call.truck \in PresentTrucks \/ TruckWithinPlan
    /\ call.step = "saveDriver" => call.driver \in PresentDrivers \/ DriverWithinPlan

Accept(h, call) ==
    /\ Request(h)
    /\ call \in Call /\ Found(call) /\ Admitted(call)
    /\ calls' = [calls EXCEPT ![h] = call]

\* The inductive invariant behind the theorems.
FleetInv == TypeOK /\ \A h \in Handlers : Found(calls[h])

\* Every request only puts a call in flight.
LEMMA TruckRequests ==
    ASSUME TypeOK, NEW h \in Handlers, NEW t \in Trucks, TruckRequest(h, t)
    PROVE  \E call : Accept(h, call)
<1> DEFINE Save(row) == [step |-> "saveTruck", truck |-> t, row |-> row]
<1>1. ASSUME NEW row \in TruckRow, Request(h), HoldTruck(h, "saveTruck", t, row),
             t \in PresentTrucks \/ TruckWithinPlan
      PROVE  Accept(h, Save(row))
  <2>1. Save(row) \in TruckCall /\ Save(row).step = "saveTruck" /\ Save(row).truck = t
    BY <1>1 DEF TruckCall
  <2> QED
    BY <1>1, <2>1 DEF Accept, Call, Found, Admitted, HoldTruck
<1>2. t \in PresentTrucks => trucks[t] \in TruckRow /\ trucks[t] # Null
  BY DEF TypeOK, PresentTrucks
<1>3. ASSUME NEW s \in TruckStatuses, NEW d \in Drivers \cup {Null}, CreateTruck(h, t, s, d)
      PROVE  \E call : Accept(h, call)
  <2>1. [status |-> s, driver |-> d, gone |-> FALSE] \in TruckRow
    BY DEF TruckRow
  <2> QED
    BY <1>1, <1>3, <2>1 DEF CreateTruck
<1>4. ASSUME NEW s \in TruckStatuses, NEW d \in Drivers \cup {Null}, UpdateTruck(h, t, s, d)
      PROVE  \E call : Accept(h, call)
  <2>1. [trucks[t] EXCEPT !.status = s, !.driver = d] \in TruckRow
    BY <1>2, <1>4 DEF UpdateTruck, TruckRow
  <2> QED
    BY <1>1, <1>4, <2>1 DEF UpdateTruck
<1>5. ASSUME NEW d \in Drivers, AssignDriver(h, t, d)
      PROVE  \E call : Accept(h, call)
  <2>1. [trucks[t] EXCEPT !.driver = d] \in TruckRow
    BY <1>2, <1>5 DEF AssignDriver, TruckRow
  <2> QED
    BY <1>1, <1>5, <2>1 DEF AssignDriver
<1>6. ASSUME UnassignDriver(h, t)
      PROVE  \E call : Accept(h, call)
  <2>1. [trucks[t] EXCEPT !.driver = Null] \in TruckRow
    BY <1>2, <1>6 DEF UnassignDriver, TruckRow
  <2> QED
    BY <1>1, <1>6, <2>1 DEF UnassignDriver
<1>7. ASSUME RemoveTruck(h, t)
      PROVE  \E call : Accept(h, call)
  <2> DEFINE call == [step |-> "removeTruck", truck |-> t, row |-> trucks[t]]
  <2>1. call \in TruckCall /\ call.step = "removeTruck" /\ call.truck = t
    BY <1>2, <1>7 DEF RemoveTruck, TruckCall
  <2>2. Accept(h, call)
    BY <1>2, <1>7, <2>1 DEF RemoveTruck, HoldTruck, Accept, Call, Found, Admitted
  <2> QED
    BY <2>2
<1> QED
  BY <1>3, <1>4, <1>5, <1>6, <1>7 DEF TruckRequest

LEMMA DriverRequests ==
    ASSUME TypeOK, NEW h \in Handlers, NEW d \in Drivers, DriverRequest(h, d)
    PROVE  \E call : Accept(h, call)
<1> DEFINE Save(row) == [step |-> "saveDriver", driver |-> d, row |-> row]
<1>1. ASSUME NEW row \in DriverRow, Request(h), HoldDriver(h, "saveDriver", d, row),
             d \in PresentDrivers \/ DriverWithinPlan
      PROVE  Accept(h, Save(row))
  <2>1. Save(row) \in DriverCall /\ Save(row).step = "saveDriver" /\ Save(row).driver = d
    BY <1>1 DEF DriverCall
  <2> QED
    BY <1>1, <2>1 DEF Accept, Call, Found, Admitted, HoldDriver
<1>2. d \in PresentDrivers => drivers[d] \in DriverRow /\ drivers[d] # Null
  BY DEF TypeOK, PresentDrivers
<1>3. ASSUME NEW s \in DriverStatuses, CreateDriver(h, d, s)
      PROVE  \E call : Accept(h, call)
  <2>1. [status |-> s, gone |-> FALSE] \in DriverRow
    BY DEF DriverRow
  <2> QED
    BY <1>1, <1>3, <2>1 DEF CreateDriver
<1>4. ASSUME NEW s \in DriverStatuses, UpdateDriver(h, d, s)
      PROVE  \E call : Accept(h, call)
  <2>1. [drivers[d] EXCEPT !.status = s] \in DriverRow
    BY <1>2, <1>4 DEF UpdateDriver, DriverRow
  <2> QED
    BY <1>1, <1>4, <2>1 DEF UpdateDriver
<1>5. ASSUME RemoveDriver(h, d)
      PROVE  \E call : Accept(h, call)
  <2> DEFINE call == [step |-> "removeDriver", driver |-> d, row |-> drivers[d]]
  <2>1. call \in DriverCall /\ call.step = "removeDriver" /\ call.driver = d
    BY <1>2, <1>5 DEF RemoveDriver, DriverCall
  <2>2. Accept(h, call)
    BY <1>2, <1>5, <2>1 DEF RemoveDriver, HoldDriver, Accept, Call, Found, Admitted
  <2> QED
    BY <2>2
<1> QED
  BY <1>3, <1>4, <1>5 DEF DriverRequest

\* So a step accepts a call or carries one out.
LEMMA Steps ==
    ASSUME TypeOK, Next
    PROVE  \E h \in Handlers :
               \/ \E call : Accept(h, call)
               \/ SaveTruck(h) \/ SoftRemoveTruck(h)
               \/ SaveDriver(h) \/ SoftRemoveDriver(h)
BY TruckRequests, DriverRequests DEF Next, TruckNext, DriverNext

-----------------------------------------------------------------------------
\* Types.

LEMMA InitInv == Init => FleetInv
BY DEF Init, FleetInv, TypeOK, Found, Idle

\* Rows stay where they are while calls come and go.
LEMMA AcceptInv ==
    ASSUME FleetInv, NEW h \in Handlers, NEW call, Accept(h, call)
    PROVE  FleetInv'
BY DEF FleetInv, TypeOK, Accept, Request, Call, Found

\* A call carried out leaves its handler free and its table with a row of its type.
LEMMA EndInv ==
    ASSUME FleetInv, NEW h \in Handlers, End(h),
           trucks' \in [Trucks -> TruckRow \cup {Null}],
           drivers' \in [Drivers -> DriverRow \cup {Null}],
           \A t \in Trucks : trucks[t] # Null => trucks'[t] # Null,
           \A d \in Drivers : drivers[d] # Null => drivers'[d] # Null
    PROVE  FleetInv'
<1>1. calls' = [g \in Handlers |-> IF g = h THEN Idle ELSE calls[g]]
  BY DEF FleetInv, TypeOK, End
<1>2. calls' \in [Handlers -> TruckCall \cup DriverCall \cup {Idle}]
  BY <1>1 DEF FleetInv, TypeOK
<1>3. ASSUME NEW g \in Handlers
      PROVE  Found(calls[g])'
  <2>1. calls[g].step = "removeTruck" => calls[g].truck \in Trucks
    BY DEF FleetInv, TypeOK, TruckCall, DriverCall, Idle
  <2>2. calls[g].step = "removeDriver" => calls[g].driver \in Drivers
    BY DEF FleetInv, TypeOK, TruckCall, DriverCall, Idle
  <2> QED
    BY <1>1, <2>1, <2>2 DEF FleetInv, Found, Idle
<1> QED
  BY <1>2, <1>3 DEF FleetInv, TypeOK

\* What a call in flight holds.
LEMMA TruckHeld ==
    ASSUME FleetInv, NEW h \in Handlers, calls[h].step \in {"saveTruck", "removeTruck"}
    PROVE  /\ calls[h].truck \in Trucks /\ calls[h].row \in TruckRow
           /\ calls[h].step = "removeTruck" => trucks[calls[h].truck] \in TruckRow
BY DEF FleetInv, TypeOK, Found, TruckCall, DriverCall, Idle

LEMMA DriverHeld ==
    ASSUME FleetInv, NEW h \in Handlers, calls[h].step \in {"saveDriver", "removeDriver"}
    PROVE  /\ calls[h].driver \in Drivers /\ calls[h].row \in DriverRow
           /\ calls[h].step = "removeDriver" => drivers[calls[h].driver] \in DriverRow
BY DEF FleetInv, TypeOK, Found, TruckCall, DriverCall, Idle

\* The table of trucks after a call is carried out.
LEMMA SavedTruck ==
    ASSUME FleetInv, NEW h \in Handlers, SaveTruck(h)
    PROVE  \/ trucks' = trucks
           \/ /\ ActiveDriverIndex(calls[h].truck, calls[h].row)
              /\ trucks' = [x \in Trucks |-> IF x = calls[h].truck THEN calls[h].row ELSE trucks[x]]
BY DEF SaveTruck, FleetInv, TypeOK

LEMMA RemovedTruck ==
    ASSUME FleetInv, NEW h \in Handlers, SoftRemoveTruck(h)
    PROVE  trucks' = [x \in Trucks |-> IF x = calls[h].truck
                                       THEN [trucks[calls[h].truck] EXCEPT !.gone = TRUE]
                                       ELSE trucks[x]]
BY DEF SoftRemoveTruck, FleetInv, TypeOK

LEMMA SavedDriver ==
    ASSUME FleetInv, NEW h \in Handlers, SaveDriver(h)
    PROVE  drivers' = [x \in Drivers |-> IF x = calls[h].driver THEN calls[h].row ELSE drivers[x]]
BY DEF SaveDriver, FleetInv, TypeOK

LEMMA RemovedDriver ==
    ASSUME FleetInv, NEW h \in Handlers, SoftRemoveDriver(h)
    PROVE  drivers' = [x \in Drivers |-> IF x = calls[h].driver
                                         THEN [drivers[calls[h].driver] EXCEPT !.gone = TRUE]
                                         ELSE drivers[x]]
BY DEF SoftRemoveDriver, FleetInv, TypeOK

LEMMA NextInv ==
    ASSUME FleetInv, [Next]_vars
    PROVE  FleetInv'
<1>1. CASE UNCHANGED vars
  BY <1>1 DEF vars, FleetInv, TypeOK, Found
<1>2. ASSUME NEW h \in Handlers, NEW call, Accept(h, call)
      PROVE  FleetInv'
  BY <1>2, AcceptInv
<1>3. ASSUME NEW h \in Handlers, SaveTruck(h)
      PROVE  FleetInv'
  <2>1. /\ trucks' \in [Trucks -> TruckRow \cup {Null}]
        /\ \A t \in Trucks : trucks[t] # Null => trucks'[t] # Null
    BY <1>3, SavedTruck, TruckHeld, FleetAssumption DEF SaveTruck, FleetInv, TypeOK
  <2> QED
    BY <1>3, <2>1, EndInv DEF SaveTruck, FleetInv, TypeOK
<1>4. ASSUME NEW h \in Handlers, SoftRemoveTruck(h)
      PROVE  FleetInv'
  <2> DEFINE row == [trucks[calls[h].truck] EXCEPT !.gone = TRUE]
  <2>1. trucks[calls[h].truck] \in TruckRow
    BY <1>4, TruckHeld DEF SoftRemoveTruck
  <2>2. row \in TruckRow
    BY <2>1 DEF TruckRow
  <2>3. trucks' = [x \in Trucks |-> IF x = calls[h].truck THEN row ELSE trucks[x]]
    BY <1>4, RemovedTruck
  <2> HIDE DEF row
  <2>4. /\ trucks' \in [Trucks -> TruckRow \cup {Null}]
        /\ \A t \in Trucks : trucks[t] # Null => trucks'[t] # Null
    BY <2>2, <2>3, FleetAssumption DEF FleetInv, TypeOK
  <2> QED
    BY <1>4, <2>4, EndInv DEF SoftRemoveTruck, FleetInv, TypeOK
<1>5. ASSUME NEW h \in Handlers, SaveDriver(h)
      PROVE  FleetInv'
  <2>1. /\ drivers' \in [Drivers -> DriverRow \cup {Null}]
        /\ \A d \in Drivers : drivers[d] # Null => drivers'[d] # Null
    BY <1>5, SavedDriver, DriverHeld, FleetAssumption DEF SaveDriver, FleetInv, TypeOK
  <2> QED
    BY <1>5, <2>1, EndInv DEF SaveDriver, FleetInv, TypeOK
<1>6. ASSUME NEW h \in Handlers, SoftRemoveDriver(h)
      PROVE  FleetInv'
  <2> DEFINE row == [drivers[calls[h].driver] EXCEPT !.gone = TRUE]
  <2>1. drivers[calls[h].driver] \in DriverRow
    BY <1>6, DriverHeld DEF SoftRemoveDriver
  <2>2. row \in DriverRow
    BY <2>1 DEF DriverRow
  <2>3. drivers' = [x \in Drivers |-> IF x = calls[h].driver THEN row ELSE drivers[x]]
    BY <1>6, RemovedDriver
  <2> HIDE DEF row
  <2>4. /\ drivers' \in [Drivers -> DriverRow \cup {Null}]
        /\ \A d \in Drivers : drivers[d] # Null => drivers'[d] # Null
    BY <2>2, <2>3, FleetAssumption DEF FleetInv, TypeOK
  <2> QED
    BY <1>6, <2>4, EndInv DEF SoftRemoveDriver, FleetInv, TypeOK
<1>7. Next => FleetInv'
  BY <1>2, <1>3, <1>4, <1>5, <1>6, Steps DEF FleetInv
<1> QED
  BY <1>1, <1>7

\* The tables and the calls in flight keep their types, and a call that removes a
\* row removes one that exists, whatever overlaps.
THEOREM FleetInvariant == Spec => []FleetInv
<1> QED
  BY InitInv, NextInv, PTL DEF Spec

-----------------------------------------------------------------------------
\* Fleet implements Assignment.

\* One truck's entry changes; all others keep theirs.
LEMMA AssignStep ==
    ASSUME NEW t \in Trucks, NEW d \in Drivers \cup {Null},
           d = Null \/ \A x \in Trucks \ {t} : DriverOf[x] # d,
           DriverOf' = [DriverOf EXCEPT ![t] = d]
    PROVE  Abstract!Next
BY DEF Abstract!Next, Abstract!Assign, Abstract!Free

LEMMA SaveRefines ==
    ASSUME FleetInv, NEW h \in Handlers, SaveTruck(h)
    PROVE  [Abstract!Next]_DriverOf
<1> DEFINE t == calls[h].truck
           row == calls[h].row
           d == IF row.gone THEN Null ELSE row.driver
<1>1. t \in Trucks /\ row \in TruckRow /\ row # Null /\ d \in Drivers \cup {Null}
  BY TruckHeld, FleetAssumption DEF SaveTruck, TruckRow
<1>2. CASE trucks' = trucks
  BY <1>2 DEF DriverOf, PresentTrucks
<1>3. CASE /\ ActiveDriverIndex(t, row)
           /\ trucks' = [x \in Trucks |-> IF x = t THEN row ELSE trucks[x]]
  <2>1. \A x \in Trucks : x # t => (x \in PresentTrucks' <=> x \in PresentTrucks)
    BY <1>3 DEF PresentTrucks
  <2>2. t \in PresentTrucks' <=> ~row.gone
    BY <1>1, <1>3 DEF PresentTrucks
  <2>3. DriverOf' = [DriverOf EXCEPT ![t] = d]
    BY <1>1, <1>3, <2>1, <2>2 DEF DriverOf
  <2>4. ASSUME d # Null, NEW x \in Trucks \ {t}, DriverOf[x] = d
        PROVE  FALSE
    BY <1>3, <2>4 DEF DriverOf, ActiveDriverIndex, DrivesOther
  <2> QED
    BY <1>1, <2>3, <2>4, AssignStep
<1> QED
  BY <1>2, <1>3, SavedTruck

LEMMA RemoveRefines ==
    ASSUME FleetInv, NEW h \in Handlers, SoftRemoveTruck(h)
    PROVE  [Abstract!Next]_DriverOf
<1> DEFINE t == calls[h].truck
<1>1. t \in Trucks /\ trucks[t] \in TruckRow
  BY TruckHeld DEF SoftRemoveTruck
<1>2. trucks' = [x \in Trucks |-> IF x = t THEN [trucks[t] EXCEPT !.gone = TRUE] ELSE trucks[x]]
  BY RemovedTruck
<1>3. [trucks[t] EXCEPT !.gone = TRUE].gone
  BY <1>1 DEF TruckRow
<1>4. \A x \in Trucks : x # t => (x \in PresentTrucks' <=> x \in PresentTrucks)
  BY <1>2 DEF PresentTrucks
<1>5. t \notin PresentTrucks'
  BY <1>1, <1>2, <1>3 DEF PresentTrucks
<1>6. DriverOf' = [DriverOf EXCEPT ![t] = Null]
  BY <1>1, <1>2, <1>4, <1>5 DEF DriverOf
<1> QED
  BY <1>1, <1>6, AssignStep

\* Steps that leave the trucks alone change no driver.
LEMMA OtherSteps ==
    ASSUME UNCHANGED trucks
    PROVE  UNCHANGED DriverOf
BY DEF DriverOf, PresentTrucks

LEMMA InitRefines == Init => Abstract!Init
BY DEF Init, Abstract!Init, DriverOf, PresentTrucks

LEMMA NextRefines ==
    ASSUME FleetInv, [Next]_vars
    PROVE  [Abstract!Next]_DriverOf
<1>1. CASE UNCHANGED vars
  BY <1>1, OtherSteps DEF vars
<1>2. ASSUME NEW h \in Handlers, NEW call, Accept(h, call)
      PROVE  UNCHANGED trucks
  BY <1>2 DEF Accept, Request
<1>3. ASSUME NEW h \in Handlers, SaveDriver(h) \/ SoftRemoveDriver(h)
      PROVE  UNCHANGED trucks
  BY <1>3 DEF SaveDriver, SoftRemoveDriver
<1>4. Next => [Abstract!Next]_DriverOf
  BY <1>2, <1>3, Steps, SaveRefines, RemoveRefines, OtherSteps DEF FleetInv
<1> QED
  BY <1>1, <1>4

\* uq_trucks_active_driver keeps what assignDriver() promises: whatever calls overlap,
\* save older copies or skip the check, each step of the fleet is a step of Assignment
\* or none, so a driver is never on two trucks of the company.
THEOREM FleetImplementsAssignment == Spec => RefinesAssignment
<1>1. Init => Abstract!Init
  BY InitRefines
<1>2. FleetInv /\ [Next]_vars => [Abstract!Next]_DriverOf
  BY NextRefines
<1> QED
  BY <1>1, <1>2, FleetInvariant, PTL DEF Spec, RefinesAssignment, Abstract!Spec

-----------------------------------------------------------------------------
\* The limits of the plan.  A limit is checked before the call that inserts is in
\* flight, and a row can only come back while a call holds its copy: what counts
\* are the rows that are present together with the rows that calls will save.

TruckSlots(c) == {t \in Trucks : \E h \in Handlers : c[h].step = "saveTruck" /\ c[h].truck = t}

DriverSlots(c) ==
    {d \in Drivers : \E h \in Handlers : c[h].step = "saveDriver" /\ c[h].driver = d}

TrucksClaimed ==
    Cardinality(PresentTrucks \cup TruckSlots(calls)) <= (MaxTrucks - 1) + Cardinality(Handlers)

DriversClaimed ==
    Cardinality(PresentDrivers \cup DriverSlots(calls)) <= (MaxDrivers - 1) + Cardinality(Handlers)

LimitInv == TrucksClaimed /\ DriversClaimed

\* Each handler holds at most one row.
LEMMA OnePerHandler ==
    ASSUME NEW R, NEW f \in [Handlers -> R], NEW S, S \subseteq {f[h] : h \in Handlers}
    PROVE  IsFiniteSet(S) /\ Cardinality(S) <= Cardinality(Handlers)
<1> DEFINE Held == {f[h] : h \in Handlers}
<1>1. f \in Surjection(Handlers, Held)
  BY DEF Surjection
<1>2. IsFiniteSet(Held) /\ Cardinality(Held) <= Cardinality(Handlers)
  BY <1>1, FS_Surjection, FleetAssumption
<1>3. IsFiniteSet(S) /\ Cardinality(S) <= Cardinality(Held)
  BY <1>2, FS_Subset
<1>4. Cardinality(S) \in Nat /\ Cardinality(Held) \in Nat /\ Cardinality(Handlers) \in Nat
  BY <1>2, <1>3, FS_CardinalityType, FleetAssumption
<1> QED
  BY <1>2, <1>3, <1>4

LEMMA FewSlots ==
    ASSUME NEW c
    PROVE  /\ Cardinality(TruckSlots(c)) <= Cardinality(Handlers)
           /\ Cardinality(DriverSlots(c)) <= Cardinality(Handlers)
<1> DEFINE truck == [h \in Handlers |-> c[h].truck]
           driver == [h \in Handlers |-> c[h].driver]
<1>1. TruckSlots(c) \subseteq {truck[h] : h \in Handlers}
  BY DEF TruckSlots
<1>2. DriverSlots(c) \subseteq {driver[h] : h \in Handlers}
  BY DEF DriverSlots
<1>3. /\ truck \in [Handlers -> {truck[h] : h \in Handlers}]
      /\ driver \in [Handlers -> {driver[h] : h \in Handlers}]
  OBVIOUS
<1> HIDE DEF truck, driver
<1> QED
  BY <1>1, <1>2, <1>3, OnePerHandler

\* Fewer rows than the limit, and one more for each handler.
LEMMA SpareRoom ==
    ASSUME NEW D, IsFiniteSet(D), NEW P \in SUBSET D, NEW S \in SUBSET D, NEW max \in Nat,
           Cardinality(P) < max, Cardinality(S) <= Cardinality(Handlers)
    PROVE  Cardinality(P \cup S) <= (max - 1) + Cardinality(Handlers)
<1>1. IsFiniteSet(P) /\ IsFiniteSet(S) /\ IsFiniteSet(P \cap S)
  BY FS_Subset
<1>2. Cardinality(P \cup S) = Cardinality(P) + Cardinality(S) - Cardinality(P \cap S)
  BY <1>1, FS_Union
<1>3. /\ Cardinality(P) \in Nat /\ Cardinality(S) \in Nat
      /\ Cardinality(P \cap S) \in Nat /\ Cardinality(Handlers) \in Nat
  BY <1>1, FS_CardinalityType, FleetAssumption
<1> QED
  BY <1>2, <1>3

\* A part of what fits fits.
LEMMA Part ==
    ASSUME NEW D, IsFiniteSet(D), NEW S \in SUBSET D, NEW T \in SUBSET S, NEW max \in Nat,
           Cardinality(S) <= (max - 1) + Cardinality(Handlers)
    PROVE  Cardinality(T) <= (max - 1) + Cardinality(Handlers)
<1>1. IsFiniteSet(S) /\ IsFiniteSet(T) /\ Cardinality(T) <= Cardinality(S)
  BY FS_Subset
<1>2. Cardinality(S) \in Nat /\ Cardinality(T) \in Nat /\ Cardinality(Handlers) \in Nat
  BY <1>1, FS_CardinalityType, FleetAssumption
<1> QED
  BY <1>1, <1>2

LEMMA InitLimit == Init => LimitInv
<1> SUFFICES ASSUME Init PROVE LimitInv
  OBVIOUS
<1>1. PresentTrucks \cup TruckSlots(calls) = {} /\ PresentDrivers \cup DriverSlots(calls) = {}
  BY DEF Init, PresentTrucks, PresentDrivers, TruckSlots, DriverSlots, Idle
<1>2. Cardinality({}) = 0 /\ Cardinality(Handlers) \in Nat /\ Cardinality(Handlers) # 0
  BY FS_EmptySet, FS_CardinalityType, FleetAssumption
<1>3. /\ 0 <= (MaxTrucks - 1) + Cardinality(Handlers)
      /\ 0 <= (MaxDrivers - 1) + Cardinality(Handlers)
  BY <1>2, FleetAssumption
<1> QED
  BY <1>1, <1>2, <1>3 DEF LimitInv, TrucksClaimed, DriversClaimed

\* A call that is accepted claims a row that is present or within the limit.
LEMMA AcceptLimit ==
    ASSUME FleetInv, LimitInv, NEW h \in Handlers, NEW call, Accept(h, call)
    PROVE  LimitInv'
<1>1. calls' = [g \in Handlers |-> IF g = h THEN call ELSE calls[g]]
  BY DEF FleetInv, TypeOK, Accept
<1>2. PresentTrucks' = PresentTrucks /\ PresentDrivers' = PresentDrivers
  BY DEF Accept, Request, PresentTrucks, PresentDrivers
<1>3. PresentTrucks \subseteq Trucks /\ PresentDrivers \subseteq Drivers
  BY DEF PresentTrucks, PresentDrivers
<1>4. /\ \A c : TruckSlots(c) \subseteq Trucks /\ DriverSlots(c) \subseteq Drivers
  BY DEF TruckSlots, DriverSlots
<1>5. TrucksClaimed'
  <2>1. CASE call.step = "saveTruck" /\ TruckWithinPlan
    BY <1>2, <1>3, <1>4, <2>1, FewSlots, SpareRoom, FleetAssumption
    DEF TruckWithinPlan, TrucksClaimed
  <2>2. CASE call.step = "saveTruck" => call.truck \in PresentTrucks
    <3>1. PresentTrucks \cup TruckSlots(calls') \subseteq PresentTrucks \cup TruckSlots(calls)
      BY <1>1, <2>2 DEF TruckSlots
    <3> QED
      BY <1>2, <1>3, <1>4, <3>1, Part, FleetAssumption DEF LimitInv, TrucksClaimed
  <2> QED
    BY <2>1, <2>2 DEF Accept, Admitted
<1>6. DriversClaimed'
  <2>1. CASE call.step = "saveDriver" /\ DriverWithinPlan
    BY <1>2, <1>3, <1>4, <2>1, FewSlots, SpareRoom, FleetAssumption
    DEF DriverWithinPlan, DriversClaimed
  <2>2. CASE call.step = "saveDriver" => call.driver \in PresentDrivers
    <3>1. PresentDrivers \cup DriverSlots(calls') \subseteq PresentDrivers \cup DriverSlots(calls)
      BY <1>1, <2>2 DEF DriverSlots
    <3> QED
      BY <1>2, <1>3, <1>4, <3>1, Part, FleetAssumption DEF LimitInv, DriversClaimed
  <2> QED
    BY <2>1, <2>2 DEF Accept, Admitted
<1> QED
  BY <1>5, <1>6 DEF LimitInv

\* What a call carried out brings it had claimed.
LEMMA ShrinkLimit ==
    ASSUME LimitInv,
           PresentTrucks' \cup TruckSlots(calls') \subseteq PresentTrucks \cup TruckSlots(calls),
           PresentDrivers' \cup DriverSlots(calls') \subseteq PresentDrivers \cup DriverSlots(calls)
    PROVE  LimitInv'
<1>1. /\ PresentTrucks \cup TruckSlots(calls) \in SUBSET Trucks
      /\ PresentDrivers \cup DriverSlots(calls) \in SUBSET Drivers
  BY DEF PresentTrucks, PresentDrivers, TruckSlots, DriverSlots
<1>2. TrucksClaimed'
  BY <1>1, Part, FleetAssumption DEF LimitInv, TrucksClaimed
<1>3. DriversClaimed'
  BY <1>1, Part, FleetAssumption DEF LimitInv, DriversClaimed
<1> QED
  BY <1>2, <1>3 DEF LimitInv

LEMMA EndShrinks ==
    ASSUME FleetInv, NEW h \in Handlers, End(h)
    PROVE  /\ TruckSlots(calls') \subseteq TruckSlots(calls)
           /\ DriverSlots(calls') \subseteq DriverSlots(calls)
<1>1. calls' = [g \in Handlers |-> IF g = h THEN Idle ELSE calls[g]]
  BY DEF FleetInv, TypeOK, End
<1> QED
  BY <1>1 DEF TruckSlots, DriverSlots, Idle

LEMMA NextLimit ==
    ASSUME FleetInv, LimitInv, [Next]_vars
    PROVE  LimitInv'
<1>1. CASE UNCHANGED vars
  <2>1. PresentTrucks' = PresentTrucks /\ PresentDrivers' = PresentDrivers /\ calls' = calls
    BY <1>1 DEF vars, PresentTrucks, PresentDrivers
  <2> QED
    BY <2>1, ShrinkLimit
<1>2. ASSUME NEW h \in Handlers, NEW call, Accept(h, call)
      PROVE  LimitInv'
  BY <1>2, AcceptLimit
<1>3. ASSUME NEW h \in Handlers, SaveTruck(h)
      PROVE  LimitInv'
  <2>1. PresentTrucks' \subseteq PresentTrucks \cup TruckSlots(calls)
    BY <1>3, SavedTruck, TruckHeld DEF SaveTruck, PresentTrucks, TruckSlots
  <2>2. PresentDrivers' = PresentDrivers /\ End(h)
    BY <1>3 DEF SaveTruck, PresentDrivers
  <2> QED
    BY <2>1, <2>2, EndShrinks, ShrinkLimit
<1>4. ASSUME NEW h \in Handlers, SoftRemoveTruck(h)
      PROVE  LimitInv'
  <2>1. trucks[calls[h].truck] \in TruckRow
    BY <1>4, TruckHeld DEF SoftRemoveTruck
  <2>2. PresentTrucks' \subseteq PresentTrucks
    BY <1>4, <2>1, RemovedTruck DEF PresentTrucks, TruckRow
  <2>3. PresentDrivers' = PresentDrivers /\ End(h)
    BY <1>4 DEF SoftRemoveTruck, PresentDrivers
  <2> QED
    BY <2>2, <2>3, EndShrinks, ShrinkLimit
<1>5. ASSUME NEW h \in Handlers, SaveDriver(h)
      PROVE  LimitInv'
  <2>1. PresentDrivers' \subseteq PresentDrivers \cup DriverSlots(calls)
    BY <1>5, SavedDriver, DriverHeld DEF SaveDriver, PresentDrivers, DriverSlots
  <2>2. PresentTrucks' = PresentTrucks /\ End(h)
    BY <1>5 DEF SaveDriver, PresentTrucks
  <2> QED
    BY <2>1, <2>2, EndShrinks, ShrinkLimit
<1>6. ASSUME NEW h \in Handlers, SoftRemoveDriver(h)
      PROVE  LimitInv'
  <2>1. drivers[calls[h].driver] \in DriverRow
    BY <1>6, DriverHeld DEF SoftRemoveDriver
  <2>2. PresentDrivers' \subseteq PresentDrivers
    BY <1>6, <2>1, RemovedDriver DEF PresentDrivers, DriverRow
  <2>3. PresentTrucks' = PresentTrucks /\ End(h)
    BY <1>6 DEF SoftRemoveDriver, PresentTrucks
  <2> QED
    BY <2>2, <2>3, EndShrinks, ShrinkLimit
<1>7. Next => LimitInv'
  BY <1>2, <1>3, <1>4, <1>5, <1>6, Steps DEF FleetInv
<1> QED
  BY <1>1, <1>7

LEMMA LimitImplies == LimitInv => FleetNearPlan
<1> SUFFICES ASSUME LimitInv PROVE FleetNearPlan
  OBVIOUS
<1>1. /\ PresentTrucks \cup TruckSlots(calls) \in SUBSET Trucks
      /\ PresentDrivers \cup DriverSlots(calls) \in SUBSET Drivers
  BY DEF PresentTrucks, PresentDrivers, TruckSlots, DriverSlots
<1>2. TrucksNearPlan
  BY <1>1, Part, FleetAssumption DEF LimitInv, TrucksClaimed, TrucksNearPlan
<1>3. DriversNearPlan
  BY <1>1, Part, FleetAssumption DEF LimitInv, DriversClaimed, DriversNearPlan
<1> QED
  BY <1>2, <1>3 DEF FleetNearPlan

\* The trucks and drivers of a company exceed the limits of its plan by at most one
\* row for each call beyond the first that overlaps, whatever is created, removed and
\* brought back by older copies (checkTruckPlanLimit, checkDriverPlanLimit).
THEOREM FleetStaysNearPlan == Spec => []FleetNearPlan
<1>1. Init => LimitInv
  BY InitLimit
<1>2. FleetInv /\ LimitInv /\ [Next]_vars => LimitInv'
  BY NextLimit
<1>3. LimitInv => FleetNearPlan
  BY LimitImplies
<1> QED
  BY <1>1, <1>2, <1>3, FleetInvariant, PTL DEF Spec
=============================================================================
