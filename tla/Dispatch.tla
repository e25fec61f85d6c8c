------------------------------ MODULE Dispatch ------------------------------
(***************************************************************************)
(* Delivery runs and the shipments they carry: DeliveryRunsService and     *)
(* ShipmentsService on the tables "delivery_runs" and "shipments" of one   *)
(* carrier.                                                                *)
(*                                                                         *)
(* A call loads rows and checks them in one step and saves its copies in a *)
(* later one: in between it awaits ownership, compliance or a transaction  *)
(* of its own.  There is no version column and no lock; save(copy) writes  *)
(* every column of the copy, UPDATE ... SET only those it names.  A        *)
(* transaction is seen by others when it commits, so one that reads rows   *)
(* and then saves them is two steps, its reads and its commit.             *)
(***************************************************************************)
EXTENDS DispatchRows

CONSTANTS
    Handlers,     \* calls that may be in flight at the same time
    Requests,     \* the requests that clients send: a subset of RequestKinds
    NewStatuses,  \* the statuses that clients create shipments with
    MaxLost       \* bound: calls refused or crashed between two steps

RequestKinds ==
    {"create", "update", "assign", "add", "remove", "reorder", "start",
     "complete", "cancel", "done", "incident", "transit", "arrive",
     "newShipment", "editShipment", "setStatus", "assignShipment", "accept",
     "reject", "cancelShipment", "pod", "finish", "delete"}

ASSUME DispatchAssumption ==
    /\ Requests \subseteq RequestKinds
    /\ NewStatuses \subseteq ShipmentStatuses
    /\ MaxLost \in Nat

VARIABLES
    runs,   \* table delivery_runs: Runs -> row, Null when absent
    ships,  \* table shipments: Shipments -> row, Null when absent
    calls,  \* Handlers -> the call in flight, or Idle
    lost    \* calls refused or crashed so far

vars == <<runs, ships, calls, lost>>

Steps == {"idle", "probe", "advance", "attach", "detach", "resequence",
          "release", "recount", "saveStop", "close", "save", "delete"}

\* row is the copy of run, copies those of the shipments the call will save
\* (Null for the others), and ids the shipments that the request names.
Call == [step   : Steps,
         run    : Runs \cup {Null},
         row    : RunRow \cup {Null},
         copies : [Shipments -> ShipmentRow \cup {Null}],
         ids    : SUBSET Shipments]

Pending(step, run, row, copies, ids) ==
    [step |-> step, run |-> run, row |-> row, copies |-> copies, ids |-> ids]

NoCopies == [s \in Shipments |-> Null]

Idle == Pending("idle", Null, Null, NoCopies, {})

\* Type correctness of the tables and of the calls in flight.
TypeOK ==
    /\ runs \in [Runs -> RunRow \cup {Null}]
    /\ ships \in [Shipments -> ShipmentRow \cup {Null}]
    /\ calls \in [Handlers -> Call]
    /\ lost \in Nat

Init ==
    /\ runs = [r \in Runs |-> Null]
    /\ ships = [s \in Shipments |-> Null]
    /\ calls = [h \in Handlers |-> Idle]
    /\ lost = 0

-----------------------------------------------------------------------------
\* Helpers.

Existing == {r \in Runs : runs[r] # Null}

\* What find() returns: deleted rows are left out.
Found == {s \in Shipments : ships[s] # Null /\ ~ships[s].gone}

StopsOf(r) == {s \in Found : ships[s].run = r}

Begin(h, call) == calls' = [calls EXCEPT ![h] = call]

End(h) == Begin(h, Idle)

\* A request arrives at a free handler; the tables change in a later step.
Request(h, kind) ==
    /\ kind \in Requests
    /\ calls[h] = Idle
    /\ UNCHANGED <<runs, ships, lost>>

\* A call that holds a copy of a run.
With(step, r, row) == Pending(step, r, row, NoCopies, {})

\* A call that holds one and will look up the shipments that it names.
Naming(step, r, row, ids) == Pending(step, r, row, NoCopies, ids)

\* Of the shipments, the call holds a copy of s only.
Only(s, copy) == [x \in Shipments |-> IF x = s THEN copy ELSE Null]

\* A call that holds no run.
Holding(s, copy) == Pending("save", Null, Null, Only(s, copy), {})

\* save() of the copies a call holds.
Write(call) ==
    /\ runs' = IF call.run = Null THEN runs ELSE [runs EXCEPT ![call.run] = call.row]
    /\ ships' = [s \in Shipments |->
                    IF call.copies[s] # Null THEN call.copies[s] ELSE ships[s]]

-----------------------------------------------------------------------------
\* Requests on runs: load, check, and what the call holds when it awaits.

CreateRun(h, r, driver, truck, ids) ==
    /\ Request(h, "create")
    /\ runs[r] = Null /\ \A g \in Handlers : calls[g].run # r
    /\ Begin(h, Naming(IF ids = {} THEN "save" ELSE "attach", r,
                       NewRun(driver, truck), ids))

\* Name, date and shift are not modelled, so the copy is saved as loaded.
UpdateRun(h, r) ==
    /\ Request(h, "update")
    /\ Begin(h, With("save", r, runs[r]))

AssignDriver(h, r, driver, truck) ==
    /\ Request(h, "assign")
    /\ Reassignable(runs[r])
    /\ Begin(h, With("save", r, Promote([runs[r] EXCEPT !.driver = driver,
                                                        !.truck = truck])))

AddShipments(h, r, ids) ==
    /\ Request(h, "add")
    /\ runs[r].status # "in_progress"
    /\ Begin(h, Naming("attach", r, runs[r], ids))

RemoveShipments(h, r, ids) ==
    /\ Request(h, "remove")
    /\ runs[r].status # "in_progress"
    /\ Begin(h, Naming("detach", r, runs[r], ids))

Reorder(h, r, order) ==
    /\ Request(h, "reorder")
    /\ Reorderable(runs[r], order)
    /\ Begin(h, With("resequence", r, [runs[r] EXCEPT !.seq = order]))

StartRun(h, r) ==
    /\ Request(h, "start")
    /\ Startable(runs[r])
    /\ Begin(h, With("probe", r, runs[r]))

CompleteRun(h, r) ==
    /\ Request(h, "complete")
    /\ runs[r].status = "in_progress"
    /\ Begin(h, With("close", r, Null))

CancelRun(h, r) ==
    /\ Request(h, "cancel")
    /\ Cancellable(runs[r])
    /\ Begin(h, With("release", r, [runs[r] EXCEPT !.status = "cancelled"]))

\* loadStop, and the run must be under way.
Stop(h, kind, r, s) ==
    /\ Request(h, kind)
    /\ s \in StopsOf(r)
    /\ runs[r].status = "in_progress"

Closing(r, s, status) ==
    Pending("recount", r, runs[r], Only(s, [ships[s] EXCEPT !.status = status]), {})

StopDone(h, r, s, status) ==
    /\ Stop(h, "done", r, s)
    /\ ships[s].status \notin Closed
    /\ Begin(h, Closing(r, s, status))

StopIncident(h, r, s) ==
    /\ Stop(h, "incident", r, s)
    /\ Begin(h, Closing(r, s, "incident"))

StopStartTransit(h, r, s) ==
    /\ Stop(h, "transit", r, s)
    /\ ships[s].status \notin PastTransit
    /\ Begin(h, Holding(s, [ships[s] EXCEPT !.status = "in_transit"]))

StopArrive(h, r, s) ==
    /\ Stop(h, "arrive", r, s)
    /\ ships[s].status \notin PastArrival
    /\ Begin(h, Holding(s, [ships[s] EXCEPT !.status = "at_stop"]))

-----------------------------------------------------------------------------
\* Requests on shipments.

CreateShipment(h, s, status, crewed) ==
    /\ Request(h, "newShipment")
    /\ ships[s] = Null /\ \A g \in Handlers : calls[g].copies[s] = Null
    /\ Begin(h, Holding(s, NewShipment(status, crewed)))

\* Mutant: an edit asks the carrier for a new answer.
UpdateReopens(h, s, crewed) ==
    /\ Request(h, "editShipment")
    /\ ships[s].status \notin {"completed", "cancelled"}
    /\ Begin(h, Holding(s, [ships[s] EXCEPT !.status = "pending_acceptance"]))

\* Of the fields that the customer or the carrier may edit, only the driver
\* and the truck matter here.
UpdateShipment(h, s, crewed) ==
    /\ Request(h, "editShipment")
    /\ ships[s].status \notin {"completed", "cancelled"}
    /\ Begin(h, Holding(s, [ships[s] EXCEPT !.crewed = crewed]))

UpdateStatus(h, s, status) ==
    /\ Request(h, "setStatus")
    /\ "pending_acceptance" \notin {ships[s].status, status}
    /\ status \in Transitions[ships[s].status]
    /\ Begin(h, Holding(s, [ships[s] EXCEPT !.status = status]))

AssignShipment(h, s, crewed) ==
    /\ Request(h, "assignShipment")
    /\ ships[s].status # "pending_acceptance"
    /\ Begin(h, Holding(s, Assign(ships[s], crewed)))

Accept(h, s) ==
    /\ Request(h, "accept")
    /\ ships[s].status = "pending_acceptance"
    /\ Begin(h, Holding(s, [ships[s] EXCEPT !.status = "confirmed"]))

Reject(h, s) ==
    /\ Request(h, "reject")
    /\ ships[s].status = "pending_acceptance"
    /\ Begin(h, Holding(s, [ships[s] EXCEPT !.status = "cancelled"]))

CancelShipment(h, s) ==
    /\ Request(h, "cancelShipment")
    /\ ships[s].status # "completed"
    /\ Begin(h, Holding(s, [ships[s] EXCEPT !.status = "cancelled"]))

UploadPod(h, s) ==
    /\ Request(h, "pod")
    /\ ships[s].status = "delivered"
    /\ Begin(h, Holding(s, [ships[s] EXCEPT !.status = "pod_uploaded"]))

FinishShipment(h, s) ==
    /\ Request(h, "finish")
    /\ ships[s].status \in {"delivered", "pod_uploaded"}
    /\ Begin(h, Holding(s, [ships[s] EXCEPT !.status = "completed"]))

RemoveShipment(h, s) ==
    /\ Request(h, "delete")
    /\ ships[s].status \in {"draft", "cancelled"}
    /\ Begin(h, Pending("delete", Null, Null, NoCopies, {s}))

-----------------------------------------------------------------------------
\* The later steps of a call.

\* Mutant: DR-009 forgotten.
ProbeSkipped(h) ==
    /\ calls[h].step = "probe"
    /\ Begin(h, With("advance", calls[h].run, calls[h].row))
    /\ UNCHANGED <<runs, ships, lost>>

\* DR-009: the query for another run of the driver.
Probe(h) ==
    /\ calls[h].step = "probe"
    /\ IF \E r \in Existing \ {calls[h].run} :
            runs[r].status = "in_progress" /\ runs[r].driver = calls[h].row.driver
       THEN End(h)
       ELSE Begin(h, With("advance", calls[h].run, calls[h].row))
    /\ UNCHANGED <<runs, ships, lost>>

\* advanceShipmentsOnStart, inside the transaction that starts the run.
AdvanceStops(h) ==
    /\ calls[h].step = "advance"
    /\ LET r == calls[h].run IN
       Begin(h, Pending("save", r, [calls[h].row EXCEPT !.status = "in_progress"],
                        [s \in Shipments |->
                            IF s \in StopsOf(r) THEN Advance(ships[s]) ELSE Null], {}))
    /\ UNCHANGED <<runs, ships, lost>>

\* attachShipments: one shipment that cannot be attached fails the request.
AttachStops(h) ==
    /\ calls[h].step = "attach"
    /\ LET r == calls[h].run
           row == calls[h].row
           ids == calls[h].ids
       IN IF ids \subseteq Found /\ \A s \in ids : Attachable(ships[s], r)
          THEN \E found \in SetToSeqs(ids \ Range(row.seq)) :
                 LET longer == Extend(row, found) IN
                 Begin(h, Pending("save", r, longer,
                     [s \in Shipments |->
                         IF s \in Range(found)
                         THEN Attach(ships[s], r, PlaceIn(longer.seq, s)) ELSE Null], {}))
          ELSE End(h)
    /\ UNCHANGED <<runs, ships, lost>>

\* persistSequence: 1, 2, ... in the order of the copy's sequence.
Renumbered(row, s) ==
    IF s \in Range(row.seq)
    THEN [ships[s] EXCEPT !.place = PlaceIn(row.seq, s)]
    ELSE ships[s]

Resequence(h) ==
    /\ calls[h].step = "resequence"
    /\ LET row == calls[h].row IN
         /\ runs' = [runs EXCEPT ![calls[h].run] = row]
         /\ ships' = [s \in Shipments |-> Renumbered(row, s)]
    /\ End(h)
    /\ UNCHANGED lost

DetachStops(h) ==
    /\ calls[h].step = "detach"
    /\ LET r == calls[h].run
           removed == calls[h].ids \cap StopsOf(r)
           row == Without(calls[h].row, removed)
       IN IF removed = {}
          THEN UNCHANGED <<runs, ships>>
          ELSE /\ runs' = [runs EXCEPT ![r] = row]
               /\ ships' = [s \in Shipments |->
                              IF s \in removed THEN Detach(ships[s])
                              ELSE Renumbered(row, s)]
    /\ End(h)
    /\ UNCHANGED lost

\* A cancelled run lets go of the stops that are not closed.
Release(h) ==
    /\ calls[h].step = "release"
    /\ LET r == calls[h].run IN
         /\ runs' = [runs EXCEPT ![r] = calls[h].row]
         /\ ships' = [s \in Shipments |->
                        IF ships[s] # Null /\ ships[s].run = r /\ ships[s].status \notin Counted
                        THEN Detach(ships[s]) ELSE ships[s]]
    /\ End(h)
    /\ UNCHANGED lost

\* Mutant: the count is not awaited.
RecountUnawaited(h) ==
    /\ calls[h].step = "recount"
    /\ Begin(h, Pending("saveStop", calls[h].run, [calls[h].row EXCEPT !.done = Null],
                        calls[h].copies, {}))
    /\ UNCHANGED <<runs, ships, lost>>

\* recountCompletedStops counts what is committed and the call's own write.
Recount(h) ==
    /\ calls[h].step = "recount"
    /\ LET r == calls[h].run
           copies == calls[h].copies
           seen == [s \in Shipments |-> IF copies[s] # Null THEN copies[s] ELSE ships[s]]
           counted == {s \in Shipments :
                         /\ seen[s] # Null /\ ~seen[s].gone
                         /\ seen[s].run = r /\ seen[s].status \in Counted}
       IN Begin(h, Pending("saveStop", r,
                           [calls[h].row EXCEPT !.done = Cardinality(counted)], copies, {}))
    /\ UNCHANGED <<runs, ships, lost>>

\* Mutant: completes the run one stop early.
SaveStopEarly(h) ==
    /\ calls[h].step = "saveStop"
    /\ Write(calls[h])
    /\ IF calls[h].row.done + 1 >= calls[h].row.total
       THEN Begin(h, With("close", calls[h].run, Null))
       ELSE End(h)
    /\ UNCHANGED lost

\* Mutant: waits for one stop more than there are.
SaveStopLate(h) ==
    /\ calls[h].step = "saveStop"
    /\ Write(calls[h])
    /\ IF calls[h].row.done > calls[h].row.total
       THEN Begin(h, With("close", calls[h].run, Null))
       ELSE End(h)
    /\ UNCHANGED lost

\* Once the transaction is committed, the call that counted every stop goes
\* on to complete the run.
SaveStop(h) ==
    /\ calls[h].step = "saveStop"
    /\ Write(calls[h])
    /\ IF calls[h].row.done >= calls[h].row.total
       THEN Begin(h, With("close", calls[h].run, Null))
       ELSE End(h)
    /\ UNCHANGED lost

\* completeInternal loads the run again and completes it whatever it finds.
Close(h) ==
    /\ calls[h].step = "close"
    /\ LET r == calls[h].run IN
       Begin(h, With("save", r, [runs[r] EXCEPT !.status = "completed"]))
    /\ UNCHANGED <<runs, ships, lost>>

Save(h) ==
    /\ calls[h].step = "save"
    /\ Write(calls[h])
    /\ End(h)
    /\ UNCHANGED lost

\* softRemove sets deleted_at and nothing else.
Delete(h) ==
    /\ calls[h].step = "delete"
    /\ ships' = [s \in Shipments |->
                   IF s \in calls[h].ids THEN [ships[s] EXCEPT !.gone = TRUE] ELSE ships[s]]
    /\ End(h)
    /\ UNCHANGED <<runs, lost>>

\* A check of ownership or compliance refuses the call, or its process crashes.
Lose(h) ==
    /\ calls[h].step # "idle" /\ lost < MaxLost
    /\ lost' = lost + 1
    /\ End(h)
    /\ UNCHANGED <<runs, ships>>

Continue(h) ==
    \/ Probe(h) \/ AdvanceStops(h) \/ AttachStops(h) \/ DetachStops(h)
    \/ Resequence(h) \/ Release(h) \/ Recount(h) \/ SaveStop(h) \/ Close(h)
    \/ Save(h) \/ Delete(h)

RunRequest(h, r) ==
    \/ UpdateRun(h, r) \/ StartRun(h, r) \/ CompleteRun(h, r) \/ CancelRun(h, r)
    \/ \E driver \in Drivers \cup {Null}, truck \in Trucks \cup {Null} :
         AssignDriver(h, r, driver, truck)
    \/ \E ids \in SUBSET Shipments \ {{}} : AddShipments(h, r, ids) \/ RemoveShipments(h, r, ids)
    \/ \E order \in SetToSeqs(Range(runs[r].seq)) : Reorder(h, r, order)
    \/ \E s \in StopsOf(r) :
         \/ \E status \in {"delivered", "pod_uploaded"} : StopDone(h, r, s, status)
         \/ StopIncident(h, r, s) \/ StopStartTransit(h, r, s) \/ StopArrive(h, r, s)

ShipmentRequest(h, s) ==
    \/ \E crewed \in BOOLEAN : UpdateShipment(h, s, crewed) \/ AssignShipment(h, s, crewed)
    \/ \E status \in ShipmentStatuses : UpdateStatus(h, s, status)
    \/ Accept(h, s) \/ Reject(h, s) \/ CancelShipment(h, s)
    \/ UploadPod(h, s) \/ FinishShipment(h, s) \/ RemoveShipment(h, s)

Next ==
    \E h \in Handlers :
        \/ Continue(h)
        \/ Lose(h)
        \/ \E r \in Runs, driver \in Drivers \cup {Null}, truck \in Trucks \cup {Null},
              ids \in SUBSET Shipments : CreateRun(h, r, driver, truck, ids)
        \/ \E r \in Existing : RunRequest(h, r)
        \/ \E s \in Shipments, status \in NewStatuses, crewed \in BOOLEAN :
              CreateShipment(h, s, status, crewed)
        \/ \E s \in Found : ShipmentRequest(h, s)

Spec == Init /\ [][Next]_vars

\* A call that began goes on; nobody is obliged to send a request.
FairSpec == Spec /\ \A h \in Handlers : WF_vars(Continue(h))

-----------------------------------------------------------------------------
\* Properties.

Open(r) == runs[r].status \notin {"completed", "cancelled"}

\* A run under way has a driver, a truck and at least one stop, whatever
\* older copies of its row other calls save: start() checks the three on the
\* copy that it saves, and no other call may turn a copy into a running one.
RunningRunIsManned ==
    \A r \in Existing : runs[r].status = "in_progress" =>
                          Manned(runs[r]) /\ runs[r].total > 0

\* DR-009.  A driver has at most one run under way.
OneRunPerDriver ==
    \A r, x \in Existing :
        /\ runs[r].status = "in_progress" /\ runs[x].status = "in_progress"
        /\ runs[r].driver = runs[x].driver
        => r = x

\* DR-001.  A shipment is a stop of at most one open run.
OneRunPerShipment ==
    \A r, x \in {y \in Existing : Open(y)} :
        Range(runs[r].seq) \cap Range(runs[x].seq) # {} => r = x

\* DR-007.  The sequence of an open run lists the shipments that point to it, and
\* besides them only what was deleted since: remove() of ShipmentsService leaves the
\* run of a shipment as it is.
SequenceMirrorsStops ==
    \A r \in {x \in Existing : Open(x)} : Range(runs[r].seq) \cap Found = StopsOf(r)

\* "Posición 1..N dentro de optimized_sequence del DeliveryRun" (the comment of
\* the column run_sequence): each stop of an open run has its own place.
PlaceIsPosition ==
    \A r \in {x \in Existing : Open(x)} :
        \A s \in StopsOf(r) : ships[s].place = PlaceIn(runs[r].seq, s)

\* The diagram of delivery-run-status.enum.ts.
Diagram ==
    {<<"planned", "ready">>, <<"ready", "in_progress">>,
     <<"in_progress", "completed">>, <<"planned", "cancelled">>,
     <<"ready", "cancelled">>, <<"in_progress", "cancelled">>}

\* A run moves along the diagram only.
StatusFollowsDiagram ==
    [][\A r \in Existing :
          \/ runs'[r].status = runs[r].status
          \/ <<runs[r].status, runs'[r].status>> \in Diagram]_vars

\* A run that nobody completes by hand completes only when each of its stops
\* is delivered or has an incident.
CompletedWithEveryStop ==
    [][\A r \in Existing :
          runs'[r].status = "completed" /\ runs[r].status # "completed" =>
              \A s \in StopsOf(r) : ships[s].status \in Counted]_vars

\* The answer to a proposal is final: what left PENDING_ACCEPTANCE by accept()
\* or reject() does not return to it.
AnswerIsFinal ==
    [][\A s \in Found :
          ships[s].status # "pending_acceptance" =>
              ships'[s].status # "pending_acceptance"]_vars

\* A cancelled shipment stays cancelled.
CancelledIsFinal ==
    [][\A s \in Found :
          ships[s].status = "cancelled" => ships'[s].status = "cancelled"]_vars

\* DR-004.  A run whose stops are all closed does not stay under way.
EveryStopClosed(r) ==
    /\ runs[r] # Null /\ runs[r].status = "in_progress"
    /\ \A s \in StopsOf(r) : ships[s].status \in Counted

ClosedRunCompletes == \A r \in Runs : EveryStopClosed(r) ~> ~EveryStopClosed(r)
=============================================================================
