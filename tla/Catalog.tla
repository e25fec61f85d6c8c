------------------------------- MODULE Catalog -------------------------------
\* The commercial catalogue of the plans-v2 seed: the permissions, limits and
\* tier of the seven plans, and the plan changes a subscription accepts.
EXTENDS Integers

CONSTANT Null

Plans == {"free_courier", "pro_courier", "enterprise_courier", "free_passenger",
          "pro_passenger", "enterprise_passenger", "enterprise_fleet"}

Row(fc, pc, ec, fp, pp, ep, ef) ==
    [free_courier |-> fc, pro_courier |-> pc, enterprise_courier |-> ec,
     free_passenger |-> fp, pro_passenger |-> pp, enterprise_passenger |-> ep,
     enterprise_fleet |-> ef]

CourierPermissions ==
    [free_courier |->
        {"shipments.read", "shipments.write", "drivers.read"},
     pro_courier |->
        {"shipments.read", "shipments.write", "drivers.read",
         "optimization.basic", "optimization.advanced", "templates.basic",
         "tracking.public_link", "dashboard.view", "chat.internal",
         "referrals.generate"},
     enterprise_courier |->
        {"shipments.read", "shipments.write", "drivers.read",
         "drivers.write", "trucks.read", "trucks.write",
         "optimization.basic", "optimization.advanced",
         "optimization.google_maps", "optimization.reoptimize",
         "routes.multi_driver", "templates.basic",
         "network.receive_packages", "tracking.public_link",
         "tracking.realtime", "tracking.proximity_alerts",
         "reports.advanced", "settings.billing", "dashboard.view",
         "chat.internal", "referrals.generate"}]

PassengerPermissions ==
    [free_passenger |->
        {"shipments.read", "drivers.read"},
     pro_passenger |->
        (CourierPermissions.pro_courier
            \cup {"passenger.recurring", "passenger.manifest"}),
     enterprise_passenger |->
        (CourierPermissions.enterprise_courier
            \cup {"passenger.recurring", "passenger.manifest"})]

FleetPermissions ==
    [enterprise_fleet |->
        PassengerPermissions.enterprise_passenger
            \cup {"optimization.vrp", "network.publish_packages"}]

PlanPermissions ==
    LET c == CourierPermissions
        p == PassengerPermissions
    IN  Row(c.free_courier, c.pro_courier, c.enterprise_courier, p.free_passenger,
            p.pro_passenger, p.enterprise_passenger, FleetPermissions.enterprise_fleet)

\* Mutant: a zero is missing.
ShipmentsWithoutZero == Row(6, 200, 100, 6, 100, 1000, 100000)

ShipmentsPerDay == Row(6, 200, 1000, 6, 100, 1000, 100000)

\* Null: the plan names no such limit.
PlanLimits ==
    [maxShipmentsPerDay |-> ShipmentsPerDay,
     maxStopsPerOptimization |-> Row(Null, 50, 150, Null, 30, 150, 500),
     max_drivers |-> Row(1, 1, 15, 1, 1, 15, 99999),
     max_users |-> Row(1, 1, 15, 1, 1, 15, 99999),
     max_templates |-> Row(0, 2, 30, 0, 2, 99999, 99999),
     max_trucks |-> Row(1, 1, 15, 1, 1, 15, 99999)]

Price == Row(0, 9990, 39990, 0, 14990, 44990, 99990)

Audience == Row("courier", "courier", "courier", "passenger", "passenger", "passenger", "any")

\* free, pro, enterprise.
Tier == Row(0, 1, 2, 0, 1, 2, 2)

-----------------------------------------------------------------------------
\* validatePlanChangeAudience
CompatibleAudience(from, to) ==
    \/ "any" \in {Audience[from], Audience[to]}
    \/ Audience[from] = Audience[to]

PlanChangeAllowed(direction, from, to) ==
    /\ CompatibleAudience(from, to)
    /\ direction = "upgrade" => Tier[to] >= Tier[from]
    /\ direction = "downgrade" => Tier[to] <= Tier[from]

StatusForPlan(plan) == IF Price[plan] > 0 THEN "pending_payment" ELSE "active"
==============================================================================
