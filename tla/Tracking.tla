------------------------------ MODULE Tracking -------------------------------
\* Where the driver is, and who is told: the points a driver's phone reports, the
\* rooms of the tracking gateway, the proximity alert of a shipment, and the
\* notification and push that follow it.  One driver, whose user is Driver.
EXTENDS Integers, Sequences, FiniteSets

CONSTANTS
    Null, Users, Driver, Devices, Shipments,
    Handlers,                     \* calls in flight
    Requests,                     \* what may be asked, see Next
    MaxPoints, MaxAlerts, MaxResets, MaxLost

VARIABLES
    shipments,       \* [open, alerted]: on the road, proximityAlertSentAt is set
    points,          \* tracking_points in order of insertion, each a place
    sockets,         \* the rooms of each connected user, Null when not connected
    suspended,       \* users that ws-auth turns away
    received,        \* <<user, point>>: what the gateway delivered
    alerts,          \* WhatsApp alerts sent for each shipment
    resets,          \* how often a save brought proximityAlertSentAt back to NULL
    owed,            \* driver pushes started and not yet stored, by shipment
    notifications,   \* [shipment, state, targets], in order of creation
    tokens,          \* push_tokens, unique by device: [user, active]
    calls, lost

vars == <<shipments, points, sockets, suspended, received, alerts, resets, owed,
          notifications, tokens, calls, lost>>

phone == <<points, received>>
alarm == <<alerts, resets, owed>>
inbox == <<notifications, tokens>>
online == <<sockets, suspended>>

\* The place of a point: at the destination of a shipment (at most
\* PROXIMITY_ALERT_METERS away from it, by haversineMeters), or Null.
Place == Shipments \cup {Null}

\* A room for each shipment and one for the driver's truck.
Rooms == Shipments \cup {"truck"}

Shipment == [open : BOOLEAN, alerted : BOOLEAN]

Notification ==
    [shipment : Shipments, state : {"stored", "sending", "pushed", "failed"},
     targets : SUBSET Devices]

PushToken == [user : Users \cup {Null}, active : BOOLEAN]

Init ==
    /\ shipments = [s \in Shipments |-> [open |-> TRUE, alerted |-> FALSE]]
    /\ points = <<>> /\ received = {} /\ suspended = {}
    /\ sockets = [u \in Users |-> Null]
    /\ alerts = [s \in Shipments |-> 0] /\ resets = [s \in Shipments |-> 0]
    /\ owed = [s \in Shipments |-> 0]
    /\ notifications = <<>>
    /\ tokens = [d \in Devices |-> [user |-> Null, active |-> FALSE]]
    /\ calls = [h \in Handlers |-> Null] /\ lost = 0

Idle(h) == calls[h] = Null
At(h, step) == ~Idle(h) /\ calls[h].step = step
Ends(h) == calls' = [calls EXCEPT ![h] = Null]

-----------------------------------------------------------------------------
\* Points.

\* The shipment and the truck of a point: at least one of them, since a point of
\* neither is refused, or gets the truck of the driver's profile.
PointRooms == {rooms \in SUBSET Rooms \ {{}} : Cardinality(rooms \cap Shipments) <= 1}

\* create, over REST or the socket: one point.
Report(h) ==
    /\ "report" \in Requests /\ Idle(h) /\ Len(points) < MaxPoints
    /\ \E place \in Place : points' = Append(points, place)
    /\ \E rooms \in PointRooms :
        calls' = [calls EXCEPT ![h] =
            [step |-> "created", new |-> {Len(points) + 1}, rooms |-> rooms, single |-> TRUE]]
    /\ UNCHANGED <<shipments, received, alarm, inbox, online, lost>>

\* createBulk: what an offline phone kept, even without a truck.  No proximity is
\* looked for.
ReportBulk(h) ==
    /\ "bulk" \in Requests /\ Idle(h) /\ Len(points) + 2 <= MaxPoints
    /\ \E first, second \in Place : points' = points \o <<first, second>>
    /\ \E rooms \in PointRooms \cup {{}} :
        calls' = [calls EXCEPT ![h] =
            [step |-> "created", new |-> {Len(points) + 1, Len(points) + 2},
             rooms |-> rooms, single |-> FALSE]]
    /\ UNCHANGED <<shipments, received, alarm, inbox, online, lost>>

\* TRACKING_POINT_CREATED and TRACKING_BULK_CREATED: the gateway broadcasts to the
\* rooms; handleLocationUpdate starts for a single point.
Broadcast(h) ==
    /\ At(h, "created")
    /\ received' = received \cup
            {<<u, p>> : u \in {v \in Users : sockets[v] # Null /\ sockets[v] \cap calls[h].rooms # {}},
                        p \in calls[h].new}
    /\ calls' = [calls EXCEPT ![h] =
            IF @.single THEN [step |-> "near", place |-> points[CHOOSE p \in @.new : TRUE]]
            ELSE Null]
    /\ UNCHANGED <<shipments, points, alarm, inbox, online, lost>>

-----------------------------------------------------------------------------
\* The proximity alert (ProximityAlertService).

\* The shipments that are still to be alerted, one after the other.
Alerting(h, near) ==
    calls' = [calls EXCEPT ![h] = IF near = {} THEN Null ELSE [step |-> "mark", near |-> near]]

\* Mutant: shipments that were alerted already are listed too (no IS NULL).
FindNearAgain(h) ==
    /\ At(h, "near")
    /\ Alerting(h, {s \in Shipments : shipments[s].open /\ calls[h].place = s})
    /\ UNCHANGED <<shipments, phone, alarm, inbox, online, lost>>

\* A point without a driver ends here, and so does one of a company whose cached
\* permissions, right or stale, do not include the alert; then the driver's
\* shipments on the road that have not been alerted are listed.
FindNear(h) ==
    /\ At(h, "near")
    /\ \/ Ends(h)
       \/ Alerting(h, {s \in Shipments : /\ shipments[s].open /\ ~shipments[s].alerted
                                         /\ calls[h].place = s})
    /\ UNCHANGED <<shipments, phone, alarm, inbox, online, lost>>

\* The cooldown is written before anything is sent.
MarkAlerted(h) ==
    /\ At(h, "mark")
    /\ \E s \in calls[h].near :
        /\ shipments' = [shipments EXCEPT ![s].alerted = TRUE]
        /\ calls' = [calls EXCEPT ![h] =
                [step |-> "message", shipment |-> s, near |-> @.near \ {s}]]
    /\ UNCHANGED <<phone, alarm, inbox, online, lost>>

\* WhatsApp, whose failures are swallowed, then the driver's push, not awaited.
Alert(h) ==
    /\ At(h, "message") /\ alerts[calls[h].shipment] < MaxAlerts
    /\ alerts' = [alerts EXCEPT ![calls[h].shipment] = @ + 1]
    /\ owed' = [owed EXCEPT ![calls[h].shipment] = @ + 1]
    /\ Alerting(h, calls[h].near)
    /\ UNCHANGED <<shipments, resets, phone, inbox, online, lost>>

\* What the rest of the system does to a shipment: a call that holds a copy saves
\* it whole, with the status it changes (ShipmentsService.updateStatus).
LoadShipment(h) ==
    /\ "save" \in Requests /\ Idle(h)
    /\ \E s \in Shipments, open \in BOOLEAN :
        /\ shipments[s].open
        /\ calls' = [calls EXCEPT ![h] =
               [step |-> "save", shipment |-> s, row |-> [shipments[s] EXCEPT !.open = open]]]
    /\ UNCHANGED <<shipments, phone, alarm, inbox, online, lost>>

SaveShipment(h) ==
    /\ At(h, "save")
    /\ LET s == calls[h].shipment
           reset == shipments[s].alerted /\ ~calls[h].row.alerted
       IN  /\ reset => resets[s] < MaxResets
           /\ shipments' = [shipments EXCEPT ![s] = calls[h].row]
           /\ resets' = [resets EXCEPT ![s] = IF reset THEN @ + 1 ELSE @]
    /\ Ends(h)
    /\ UNCHANGED <<phone, alerts, owed, inbox, online, lost>>

-----------------------------------------------------------------------------
\* Notifications and pushes.

\* sendDriverPush and NotificationsService.create: the row, and the gateway told.
Notify(s) ==
    /\ owed[s] > 0
    /\ owed' = [owed EXCEPT ![s] = @ - 1]
    /\ notifications' = Append(notifications,
            [shipment |-> s, state |-> "stored", targets |-> {}])
    /\ UNCHANGED <<shipments, phone, alerts, resets, tokens, online, calls, lost>>

\* sendPushToUser reads the active tokens...
LoadTokens(n) ==
    /\ notifications[n].state = "stored"
    /\ notifications' = [notifications EXCEPT
            ![n].state = "sending",
            ![n].targets = {d \in Devices : tokens[d].user = Driver /\ tokens[d].active}]
    /\ UNCHANGED <<shipments, phone, alarm, tokens, online, calls, lost>>

\* ...and sends to each: it arrives, fails, or the provider says that the token is
\* not registered and it is deactivated.  pushSent says whether one arrived.
SendPush(n) ==
    /\ notifications[n].state = "sending"
    /\ \E delivered \in SUBSET notifications[n].targets :
        \E invalid \in SUBSET (notifications[n].targets \ delivered) :
            /\ tokens' = [d \in Devices |->
                    IF d \in invalid THEN [tokens[d] EXCEPT !.active = FALSE] ELSE tokens[d]]
            /\ notifications' = [notifications EXCEPT
                    ![n].targets = delivered,
                    ![n].state = IF delivered = {} THEN "failed" ELSE "pushed"]
    /\ UNCHANGED <<shipments, phone, alarm, online, calls, lost>>

\* registerPushToken: a row of the same user is returned as it is; the token of
\* another user violates the unique index.
RegisterToken(u) ==
    /\ "tokens" \in Requests
    /\ \E d \in Devices :
        /\ tokens[d].user = Null
        /\ tokens' = [tokens EXCEPT ![d] = [user |-> u, active |-> TRUE]]
    /\ UNCHANGED <<shipments, phone, alarm, notifications, online, calls, lost>>

RemoveToken(u) ==
    /\ "tokens" \in Requests
    /\ \E d \in Devices :
        tokens[d].user = u /\ tokens' = [tokens EXCEPT ![d].active = FALSE]
    /\ UNCHANGED <<shipments, phone, alarm, notifications, online, calls, lost>>

-----------------------------------------------------------------------------
\* Sockets.

\* ws-auth looks at the account when the socket connects, and never again.
Connect(u) ==
    /\ "watch" \in Requests /\ sockets[u] = Null /\ u \notin suspended
    /\ sockets' = [sockets EXCEPT ![u] = {}]
    /\ UNCHANGED <<shipments, phone, alarm, inbox, suspended, calls, lost>>

Watch(u) ==
    /\ sockets[u] # Null
    /\ \E room \in Rooms :
        \/ sockets' = [sockets EXCEPT ![u] = @ \cup {room}]
        \/ sockets' = [sockets EXCEPT ![u] = @ \ {room}]
    /\ UNCHANGED <<shipments, phone, alarm, inbox, suspended, calls, lost>>

Disconnect(u) ==
    /\ sockets[u] # Null /\ sockets' = [sockets EXCEPT ![u] = Null]
    /\ UNCHANGED <<shipments, phone, alarm, inbox, suspended, calls, lost>>

\* The users' service deactivates or suspends an account.
SuspendUser(u) ==
    /\ "watch" \in Requests /\ suspended' = suspended \cup {u}
    /\ UNCHANGED <<shipments, phone, alarm, inbox, sockets, calls, lost>>

-----------------------------------------------------------------------------
\* The process dies: the call is lost, and so is a push that was not stored.
Lose(h) ==
    /\ ~Idle(h) /\ lost < MaxLost /\ lost' = lost + 1 /\ Ends(h)
    /\ UNCHANGED <<shipments, phone, alarm, inbox, online>>

LosePush(s) ==
    /\ owed[s] > 0 /\ lost < MaxLost /\ lost' = lost + 1
    /\ owed' = [owed EXCEPT ![s] = @ - 1]
    /\ UNCHANGED <<shipments, phone, alerts, resets, inbox, online, calls>>

Next ==
    \/ \E h \in Handlers :
        \/ Report(h) \/ ReportBulk(h) \/ Broadcast(h)
        \/ FindNear(h) \/ MarkAlerted(h) \/ Alert(h)
        \/ LoadShipment(h) \/ SaveShipment(h) \/ Lose(h)
    \/ \E s \in Shipments : Notify(s) \/ LosePush(s)
    \/ \E n \in DOMAIN notifications : LoadTokens(n) \/ SendPush(n)
    \/ \E u \in Users :
        \/ RegisterToken(u) \/ RemoveToken(u)
        \/ Connect(u) \/ Watch(u) \/ Disconnect(u) \/ SuspendUser(u)

Spec == Init /\ [][Next]_vars

-----------------------------------------------------------------------------
\* The tables keep their types; a token has an owner once it is active.
TypeOK ==
    /\ shipments \in [Shipments -> Shipment]
    /\ \A n \in DOMAIN notifications : notifications[n] \in Notification
    /\ \A d \in Devices : tokens[d] \in PushToken /\ (tokens[d].active => tokens[d].user # Null)
    /\ received \subseteq Users \X DOMAIN points

\* "Once per shipment" (proximity-alert.service.ts): the recipient is alerted once,
\* also when the process dies at any point and the driver reports again; each more
\* point handled at the same time, and each stale save of the shipment, may add one
\* per call in flight, and no more (handleLocationUpdate).
AlertedOnce ==
    \A s \in Shipments : alerts[s] <= Cardinality(Handlers) * (1 + resets[s])
==============================================================================
