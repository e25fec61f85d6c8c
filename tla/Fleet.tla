------------------------------- MODULE Fleet --------------------------------
(***************************************************************************)
(* Trucks and drivers: TrucksService and DriversService on the tables      *)
(* "trucks" and "drivers" of one company, whose plan does not change.      *)
(*                                                                         *)
(* A call loads and checks in one step and saves its copy in a later one.  *)
(* save(copy) writes every column of the copy, deleted_at too; softRemove  *)
(* writes deleted_at only.  The partial unique index of the migration      *)
(* AddUniqueActiveDriverIndex refuses a save at the database.              *)
(***************************************************************************)
EXTENDS Integers, FiniteSets

CONSTANTS
    Null,           \* no driver, no row
    Drivers, Trucks, Handlers,
    DriverStatuses, \* statuses that clients set, out of those of the two enums
    TruckStatuses,
    MaxDrivers,     \* global.max_drivers of the company's plan
    MaxTrucks       \* trucking.max_trucks of it

VARIABLES
    trucks,  \* Trucks -> row, Null before it is created
    drivers, \* Drivers -> row, Null before it is created
    calls    \* Handlers -> the call in flight, or Idle

vars == <<trucks, drivers, calls>>

TruckRow == [status : TruckStatuses, driver : Drivers \cup {Null}, gone : BOOLEAN]

DriverRow == [status : DriverStatuses, gone : BOOLEAN]

ASSUME FleetAssumption ==
    /\ IsFiniteSet(Drivers) /\ IsFiniteSet(Trucks)
    /\ IsFiniteSet(Handlers) /\ Handlers # {}
    /\ MaxDrivers \in Nat /\ MaxTrucks \in Nat
    /\ Null \notin Drivers \cup TruckRow \cup DriverRow

\* row is the copy that the call will save.
TruckCall == [step : {"saveTruck", "removeTruck"}, truck : Trucks, row : TruckRow]

DriverCall == [step : {"saveDriver", "removeDriver"}, driver : Drivers, row : DriverRow]

Idle == [step |-> "idle"]

\* Type correctness of the tables and of the calls in flight.
TypeOK ==
    /\ trucks \in [Trucks -> TruckRow \cup {Null}]
    /\ drivers \in [Drivers -> DriverRow \cup {Null}]
    /\ calls \in [Handlers -> TruckCall \cup DriverCall \cup {Idle}]

Init ==
    /\ trucks = [t \in Trucks |-> Null]
    /\ drivers = [d \in Drivers |-> Null]
    /\ calls = [h \in Handlers |-> Idle]

\* What find() and count() see: rows that are not soft-deleted.
PresentTrucks == {t \in Trucks : trucks[t] # Null /\ ~trucks[t].gone}

PresentDrivers == {d \in Drivers : drivers[d] # Null /\ ~drivers[d].gone}

\* A request arrives at a free handler; the tables change in a later step.
Request(h) == calls[h] = Idle /\ UNCHANGED <<trucks, drivers>>

HoldTruck(h, step, t, row) ==
    calls' = [calls EXCEPT ![h] = [step |-> step, truck |-> t, row |-> row]]

HoldDriver(h, step, d, row) ==
    calls' = [calls EXCEPT ![h] = [step |-> step, driver |-> d, row |-> row]]

End(h) == calls' = [calls EXCEPT ![h] = Idle]

\* The slot of a row that no call is about to insert.
FreeTruck(t) ==
    trucks[t] = Null
        /\ \A g \in Handlers : calls[g].step = "saveTruck" => calls[g].truck # t

FreeDriver(d) ==
    drivers[d] = Null
        /\ \A g \in Handlers : calls[g].step = "saveDriver" => calls[g].driver # d

-----------------------------------------------------------------------------
\* Trucks.

\* checkTruckPlanLimit: the rows are counted now and inserted later.
TruckWithinPlan == Cardinality(PresentTrucks) < MaxTrucks

\* Another truck of the company already has this driver.
DrivesOther(d, t) == \E x \in PresentTrucks \ {t} : trucks[x].driver = d

CreateTruck(h, t, status, d) ==
    /\ Request(h)
    /\ FreeTruck(t)
    /\ TruckWithinPlan
    /\ d # Null => ~DrivesOther(d, t)
    /\ HoldTruck(h, "saveTruck", t, [status |-> status, driver |-> d, gone |-> FALSE])

\* update() and updateStatus().  UpdateTruckDto admits a driver, though not
\* none, and nothing looks for another truck that has it.
UpdateTruck(h, t, status, d) ==
    /\ Request(h)
    /\ t \in PresentTrucks
    /\ d = Null => trucks[t].driver = Null
    /\ HoldTruck(h, "saveTruck", t, [trucks[t] EXCEPT !.status = status, !.driver = d])

AssignDriver(h, t, d) ==
    /\ Request(h)
    /\ t \in PresentTrucks
    /\ trucks[t].status # "out_of_service"
    /\ trucks[t].driver # d
    /\ ~DrivesOther(d, t)
    /\ HoldTruck(h, "saveTruck", t, [trucks[t] EXCEPT !.driver = d])

UnassignDriver(h, t) ==
    /\ Request(h)
    /\ t \in PresentTrucks
    /\ HoldTruck(h, "saveTruck", t, [trucks[t] EXCEPT !.driver = Null])

RemoveTruck(h, t) ==
    /\ Request(h)
    /\ t \in PresentTrucks
    /\ trucks[t].status # "in_transit"
    /\ HoldTruck(h, "removeTruck", t, trucks[t])

\* Mutant: the unique index is dropped, as the migration's down() does.
AnyTruck(t, row) == TRUE

\* uq_trucks_active_driver.
ActiveDriverIndex(t, row) ==
    row.gone \/ row.driver = Null \/ ~DrivesOther(row.driver, t)

SaveTruck(h) ==
    /\ calls[h].step = "saveTruck"
    /\ trucks' = IF ActiveDriverIndex(calls[h].truck, calls[h].row)
                 THEN [trucks EXCEPT ![calls[h].truck] = calls[h].row]
                 ELSE trucks
    /\ End(h)
    /\ UNCHANGED drivers

SoftRemoveTruck(h) ==
    /\ calls[h].step = "removeTruck"
    /\ trucks' = [trucks EXCEPT ![calls[h].truck].gone = TRUE]
    /\ End(h)
    /\ UNCHANGED drivers

-----------------------------------------------------------------------------
\* Drivers.

\* Mutant: one driver too many passes.
DriverWithinPlanInclusive == Cardinality(PresentDrivers) <= MaxDrivers

\* checkDriverPlanLimit.
DriverWithinPlan == Cardinality(PresentDrivers) < MaxDrivers

CreateDriver(h, d, status) ==
    /\ Request(h)
    /\ FreeDriver(d)
    /\ DriverWithinPlan
    /\ HoldDriver(h, "saveDriver", d, [status |-> status, gone |-> FALSE])

\* update() and updateStatus().
UpdateDriver(h, d, status) ==
    /\ Request(h)
    /\ d \in PresentDrivers
    /\ HoldDriver(h, "saveDriver", d, [drivers[d] EXCEPT !.status = status])

RemoveDriver(h, d) ==
    /\ Request(h)
    /\ d \in PresentDrivers
    /\ drivers[d].status # "on_trip"
    /\ HoldDriver(h, "removeDriver", d, drivers[d])

SaveDriver(h) ==
    /\ calls[h].step = "saveDriver"
    /\ drivers' = [drivers EXCEPT ![calls[h].driver] = calls[h].row]
    /\ End(h)
    /\ UNCHANGED trucks

SoftRemoveDriver(h) ==
    /\ calls[h].step = "removeDriver"
    /\ drivers' = [drivers EXCEPT ![calls[h].driver].gone = TRUE]
    /\ End(h)
    /\ UNCHANGED trucks

-----------------------------------------------------------------------------

TruckRequest(h, t) ==
    \/ \E s \in TruckStatuses, d \in Drivers \cup {Null} :
          CreateTruck(h, t, s, d) \/ UpdateTruck(h, t, s, d)
    \/ \E d \in Drivers : AssignDriver(h, t, d)
    \/ UnassignDriver(h, t)
    \/ RemoveTruck(h, t)

DriverRequest(h, d) ==
    \/ \E s \in DriverStatuses :
          CreateDriver(h, d, s) \/ UpdateDriver(h, d, s)
    \/ RemoveDriver(h, d)

TruckNext ==
    \E h \in Handlers :
        \/ \E t \in Trucks : TruckRequest(h, t)
        \/ SaveTruck(h)
        \/ SoftRemoveTruck(h)

DriverNext ==
    \E h \in Handlers :
        \/ \E d \in Drivers : DriverRequest(h, d)
        \/ SaveDriver(h)
        \/ SoftRemoveDriver(h)

Next == TruckNext \/ DriverNext

Spec == Init /\ [][Next]_vars

-----------------------------------------------------------------------------

\* The driver of each truck that is present.
DriverOf == [t \in Trucks |-> IF t \in PresentTrucks THEN trucks[t].driver ELSE Null]

Abstract == INSTANCE Assignment WITH driverOf <- DriverOf

\* A driver is on at most one truck of the company, whatever calls overlap
\* and whichever of them skips the check: the rule of assignDriver().
RefinesAssignment == Abstract!Spec

\* The plan's limits are counted before the insert, and an older copy brings a
\* deleted row back: together the overlapping calls exceed a limit by at most
\* one row for each other call.
TrucksNearPlan ==
    Cardinality(PresentTrucks) <= (MaxTrucks - 1) + Cardinality(Handlers)

DriversNearPlan ==
    Cardinality(PresentDrivers) <= (MaxDrivers - 1) + Cardinality(Handlers)

FleetNearPlan == TrucksNearPlan /\ DriversNearPlan
=============================================================================
