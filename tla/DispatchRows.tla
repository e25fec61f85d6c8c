---------------------------- MODULE DispatchRows ----------------------------
(***************************************************************************)
(* The rows of tables "delivery_runs" and "shipments" of one carrier, and  *)
(* what DeliveryRunsService and ShipmentsService decide and compute from   *)
(* loaded copies of them.  No operator here touches shared state; the      *)
(* calls of Dispatch apply these functions to copies that may be out of    *)
(* date by the time they are saved.                                        *)
(***************************************************************************)
EXTENDS Naturals, FiniteSets, SequencesExt

CONSTANTS
    Null,        \* SQL NULL
    Runs,        \* delivery run ids
    Shipments,   \* shipment ids
    Drivers,     \* drivers the carrier may assign
    Trucks       \* trucks of the carrier

ASSUME NullIsNoId == Null \notin Runs \cup Shipments \cup Drivers \cup Trucks

\* A table has finitely many rows.
ASSUME FiniteShipments == IsFiniteSet(Shipments)

RunStatuses == {"planned", "ready", "in_progress", "completed", "cancelled"}

ShipmentStatuses ==
    {"pending_acceptance", "draft", "quoted", "confirmed", "assigned",
     "picked_up", "in_transit", "at_stop", "delivered", "pod_uploaded",
     "completed", "cancelled", "incident"}

\* seq is optimized_sequence, total is total_stops and done completed_stops.
RunRow == [status : RunStatuses,
           driver : Drivers \cup {Null},
           truck  : Trucks \cup {Null},
           seq    : Seq(Shipments),
           total  : Nat,
           done   : Nat]

\* run is delivery_run_id, place is run_sequence, crewed tells whether
\* driver_id and truck_id are both set, gone whether deleted_at is.
ShipmentRow == [status : ShipmentStatuses,
                run    : Runs \cup {Null},
                place  : Nat \cup {Null},
                crewed : BOOLEAN,
                gone   : BOOLEAN]

ASSUME NullIsNoRunRow == Null \notin RunRow

ASSUME NullIsNoShipmentRow == Null \notin ShipmentRow

\* create() of DeliveryRunsService.
NewRun(driver, truck) ==
    [status |-> "planned", driver |-> driver, truck |-> truck,
     seq |-> << >>, total |-> 0, done |-> 0]

\* create() of ShipmentsService.
NewShipment(status, crewed) ==
    [status |-> status, run |-> Null, place |-> Null, crewed |-> crewed,
     gone |-> FALSE]

-----------------------------------------------------------------------------
\* DeliveryRunsService on a copy of a run.

Manned(run) == run.driver # Null /\ run.truck # Null

\* PLANNED is promoted to READY once there are driver, truck and stops.
Promote(run) ==
    IF run.status = "planned" /\ Manned(run) /\ run.total > 0
    THEN [run EXCEPT !.status = "ready"]
    ELSE run

\* DR-006.
Reassignable(run) == run.status # "in_progress"

\* Mutant: does not wait for driver, truck and stops.
StartablePlanned(run) == run.status \in {"planned", "ready"}

Startable(run) ==
    /\ run.status \in {"planned", "ready"}
    /\ Manned(run)
    /\ run.total > 0

\* Mutant: a completed run may be cancelled.
AnyRunCancellable(run) == TRUE

Cancellable(run) == run.status # "completed"

\* DR-007 and DR-008; the DTO refuses duplicates.
Reorderable(run, order) ==
    /\ run.status \in {"planned", "ready"}
    /\ Range(order) = Range(run.seq)
    /\ Len(order) = Cardinality(Range(order))

\* The shipments that the sequence does not hold yet follow it, in the order
\* in which the query found them.
Extend(run, found) ==
    Promote([run EXCEPT !.seq = @ \o found, !.total = Len(run.seq \o found)])

\* filter() of the sequence: the n-th of those that stay, for each n.
Kept(seq, ids) ==
    LET stay == {i \in DOMAIN seq : seq[i] \notin ids}
        rank == [i \in stay |-> Cardinality({j \in stay : j <= i})]
    IN [n \in 1 .. Cardinality(stay) |-> seq[CHOOSE i \in stay : rank[i] = n]]

Without(run, ids) ==
    [run EXCEPT !.seq = Kept(@, ids), !.total = Len(Kept(run.seq, ids))]

\* The stop's place in the sequence, counted from 1.
PlaceIn(seq, s) == CHOOSE i \in DOMAIN seq : seq[i] = s

-----------------------------------------------------------------------------
\* Shipments of a run.

Closed == {"delivered", "pod_uploaded", "completed"}

\* recountCompletedStops also counts the incidents.
Counted == Closed \cup {"incident"}

\* Mutant: DR-001 forgotten.
AttachableAnywhere(s, r) == s.status \notin {"completed", "cancelled"}

\* attachShipments: DR-001 and no final status.
Attachable(s, r) ==
    /\ s.run \in {Null, r}
    /\ s.status \notin {"completed", "cancelled"}

Attach(s, r, place) == [s EXCEPT !.run = r, !.place = place]

\* Mutant: keeps delivery_run_id.
DetachPlaceOnly(s) == [s EXCEPT !.place = Null]

Detach(s) == [s EXCEPT !.run = Null, !.place = Null]

\* DR-003: missing crew is taken from the run.
Advance(s) ==
    [s EXCEPT !.crewed = TRUE,
              !.status = IF @ = "confirmed" THEN "assigned" ELSE @]

\* Statuses that startTransit and arrive leave as they are.
PastTransit == {"in_transit", "at_stop"} \cup Closed

PastArrival == {"at_stop"} \cup Closed

-----------------------------------------------------------------------------
\* ShipmentsService on a copy of a shipment.

\* Mutant: every transition is allowed.
TransitionsUnchecked == [status \in ShipmentStatuses |-> ShipmentStatuses]

\* assertValidTransition.
Transitions ==
    [pending_acceptance |-> {"confirmed", "cancelled"},
     draft        |-> {"quoted", "confirmed", "cancelled"},
     quoted       |-> {"confirmed", "cancelled"},
     confirmed    |-> {"assigned", "cancelled"},
     assigned     |-> {"picked_up", "cancelled", "incident"},
     picked_up    |-> {"in_transit", "at_stop", "incident"},
     in_transit   |-> {"at_stop", "delivered", "incident"},
     at_stop      |-> {"in_transit", "delivered", "incident"},
     delivered    |-> {"pod_uploaded", "completed"},
     pod_uploaded |-> {"completed"},
     incident     |-> {"in_transit", "cancelled", "completed"},
     completed    |-> {},
     cancelled    |-> {}]

\* assign(): CONFIRMED becomes ASSIGNED once driver and truck are set.
Assign(s, crewed) ==
    [s EXCEPT !.crewed = crewed,
              !.status = IF @ = "confirmed" /\ crewed THEN "assigned" ELSE @]
=============================================================================
