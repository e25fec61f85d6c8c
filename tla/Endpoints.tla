------------------------------ MODULE Endpoints ------------------------------
\* Who may call what: the decorators of the controllers, and the guards every
\* request passes (app.module.ts: throttling, JWT, roles, permissions, company).
\* Throttling and the comparison of companies are left out: there is one company.
\* An endpoint is a record of its handler's name, whether it writes, the roles
\* that @Roles names (every role without the decorator) and the plan permissions
\* that @Permissions requires.
EXTENDS Naturals

SuperAdmin == "super_admin"

Roles == {SuperAdmin, "company_owner", "admin", "manager", "dispatcher",
          "driver", "accountant", "viewer"}

Anonymous == "anonymous"

Admins == {"company_owner", "admin"}
Managers == Admins \cup {"manager"}
Dispatchers == Managers \cup {"dispatcher"}
Crew == Dispatchers \cup {"driver"}
Accountants == Managers \cup {"accountant"}
Staff == Accountants \cup {"dispatcher"}
Everyone == Roles \cup {Anonymous}

Endpoint(writes, names, roles, needs) ==
    {[name |-> name, writes |-> writes, roles |-> roles, needs |-> needs] : name \in names}

Reads(names, roles, needs) == Endpoint(FALSE, names, roles, needs)
Writes(names, roles, needs) == Endpoint(TRUE, names, roles, needs)

-----------------------------------------------------------------------------
\* The controllers.  {} as roles: the super admin alone.

AdminController ==
    Reads({"dashboard", "listCompanies", "getCompany", "listSubscriptions",
           "listVerifications"}, {}, {})
    \cup Writes({"updateCompany"}, {}, {})

AuditController == Reads({"findByCompany", "findByResource"}, {"admin"}, {})

AuthController ==
    Writes({"register", "login", "refreshToken", "resendVerification",
            "verifyEmail", "forgotPassword", "resetPassword"}, Everyone, {})
    \cup Writes({"logout", "changePassword"}, Roles, {})
    \cup Reads({"getProfile", "getMyPermissions"}, Roles, {})

ChatController ==
    Writes({"createConversation", "addParticipants", "removeParticipant",
            "hideConversation", "leave", "sendMessage", "markAsRead",
            "deleteMessage"}, Roles, {"chat.internal"})
    \cup Reads({"listConversations", "getConversation", "listMessages",
                "unreadCount"}, Roles, {"chat.internal"})

CompaniesController ==
    Writes({"create"}, {}, {}) \cup Reads({"findAll"}, {}, {})
    \cup Reads({"findOne"}, Roles \ {"driver"}, {})
    \cup Writes({"update"}, Admins, {})
    \cup Writes({"remove"}, {"company_owner"}, {})

DashboardController ==
    Reads({"overview", "shipmentsByStatus", "revenue", "expensesByCategory",
           "fleetUtilization", "topDrivers"}, Staff, {"dashboard.view"})

RunRows ==
    Writes({"create", "update", "assignDriver", "addShipments",
            "removeShipments", "reorder"}, Dispatchers, {})
    \cup Reads({"getAssignableDrivers"}, Dispatchers, {})
    \cup Reads({"findAll", "findOne"}, Crew, {})

RunSteps ==
    Writes({"cancel"}, Dispatchers, {})
    \cup Writes({"start", "complete", "stopDone", "stopStartTransit",
                 "stopArrive", "stopIncident"}, Crew, {})

DeliveryRunsController == RunRows \cup RunSteps

DriversController ==
    Writes({"create", "update", "updateStatus"}, Dispatchers, {})
    \cup Reads({"findAll"}, Dispatchers \cup {"viewer"}, {})
    \cup Reads({"findOne"}, Crew \cup {"viewer"}, {})
    \cup Reads({"getCurrentTrip"}, Crew, {})
    \cup Reads({"getStats"}, Accountants, {})
    \cup Writes({"inviteDriver"}, Managers, {}) \cup Writes({"remove"}, Admins, {})

ExpensesController ==
    Writes({"create"}, Crew, {})
    \cup Reads({"findAll", "findOne"}, Crew \cup {"accountant"}, {})
    \cup Reads({"summary"}, Accountants, {})
    \cup Writes({"update", "remove"}, Managers \cup {"driver"}, {})
    \cup Writes({"approve", "reject"}, Accountants, {})
    \cup Writes({"reimburse"}, Admins \cup {"accountant"}, {})

FilesController ==
    Writes({"getUploadUrl", "uploadFile", "delete"}, Roles, {})
    \cup Reads({"getDownloadUrl", "serveLocal"}, Roles, {})

GeocodingController == Reads({"search", "reverse", "validate"}, Roles, {})

NotificationsController ==
    Reads({"findMine"}, Roles, {})
    \cup Writes({"markAsRead", "markAllRead", "registerPushToken", "deleteRead",
                 "deleteOne", "removePushToken"}, Roles, {})

OptimizationController ==
    Writes({"optimize"}, Roles, {"optimization.basic"}) \cup Reads({"etas"}, Crew, {})

BillingController ==
    Reads({"getMyRenewal", "getMyLastPaymentEvent"}, Admins, {})
    \cup Reads({"getMyHistory"}, Managers, {})
    \cup Writes({"retry"}, {"company_owner"}, {})

PaymentCalls ==
    Writes({"createCheckout"}, Roles, {})
    \cup Writes({"webhook"}, Everyone, {})

PaymentPages ==
    Reads({"redirectSuccess", "redirectFailure", "redirectPending"}, Everyone, {})

PaymentsController == PaymentCalls \cup PaymentPages

\* @UseGuards(PermissionGuard) runs the global guard a second time.  No plan of the
\* catalogue grants what these need, so they are for the super admin.
PermissionDefinitions ==
    Reads({"findAllPermissions", "findOnePermission"}, Roles, {"permissions.read"})
    \cup Writes({"createPermission", "updatePermission", "removePermission",
                 "assignPermission"}, Roles, {"permissions.write"})

PlanCatalogue ==
    Reads({"getCatalog"}, Everyone, {})
    \cup Reads({"getMyLimits", "getMyPermissions"}, Roles, {})
    \cup Writes({"updatePlanPrice", "updatePlanLimitsJsonb"}, Roles, {"plans.write"})

PlanRows ==
    Reads({"findAllPlans", "findOnePlan"}, Roles, {"plans.read"})
    \cup Writes({"createPlan", "updatePlan", "removePlan"}, Roles, {"plans.write"})

PlanLimitRows ==
    Reads({"findPlanLimits"}, Roles, {"plans.read"})
    \cup Writes({"createPlanLimit", "updatePlanLimit", "removePlanLimit"}, Roles,
                {"plans.write"})

PlansController == PermissionDefinitions \cup PlanCatalogue \cup PlanRows \cup PlanLimitRows

PublicTrackingController == Reads({"getTracking"}, Everyone, {})

RecurringTemplatesController ==
    Writes({"create", "update", "generate", "pause", "resume"}, Dispatchers,
           {"templates.basic"})
    \cup Reads({"findAll", "findOne"}, Dispatchers, {"templates.basic"})
    \cup Writes({"remove"}, Dispatchers, {})

ReferralsController ==
    Reads({"getConfig"}, Roles, {}) \cup Writes({"updateConfig"}, {}, {})
    \cup Writes({"generateLink", "deactivateLink"}, Roles, {"referrals.generate"})
    \cup Reads({"getMyLinks", "getMyStats"}, Roles, {"referrals.generate"})
    \cup Reads({"validateToken"}, Everyone, {})

RelationshipsController ==
    Writes({"create", "respond", "terminate"}, Admins, {})
    \cup Reads({"findByCompany", "findById", "getLogs"}, Managers, {})

ReportsController ==
    Reads({"shipments", "expenses", "driversPerformance", "financialSummary"},
          Accountants, {"reports.advanced"})

RoutesController ==
    Reads({"findAll", "findOne"}, Roles, {})
    \cup Writes({"create", "update", "duplicate"}, Dispatchers, {})
    \cup Writes({"activate", "archive"}, Managers, {}) \cup Writes({"remove"}, Admins, {})

SavedAddressesController ==
    Reads({"findAll", "findOne"}, Roles, {})
    \cup Writes({"create", "update", "remove"}, Dispatchers, {})

ShipmentRows ==
    Writes({"create", "update"}, Dispatchers, {})
    \cup Reads({"findAll", "findOne", "getTimeline"}, Roles, {})
    \cup Reads({"findByTrackingCode"}, Everyone, {})

ShipmentSteps ==
    Writes({"assign", "cancel", "accept", "reject"}, Dispatchers, {})
    \cup Writes({"updateStatus", "uploadPod"}, Crew, {})
    \cup Writes({"complete"}, Managers, {}) \cup Writes({"remove"}, Admins, {})

ShipmentsController == ShipmentRows \cup ShipmentSteps

\* cancel is not listed: its PlanGuard asks for user.plan = "premium", and no
\* strategy puts a plan in the user, so no request passes it.
SubscriptionsController ==
    Writes({"createFree", "upgrade", "downgrade", "addAddon", "updateAddon",
            "removeAddon"}, {"company_owner"}, {})
    \cup Reads({"findByCompany", "getAddons", "getAddon"}, Admins, {})
    \cup Writes({"suspend"}, {}, {})

TrackingController ==
    Writes({"create", "bulk"}, Crew, {})
    \cup Reads({"query", "latestShipment", "latestTruck", "stats"}, Roles, {})

TrucksController ==
    Writes({"create", "update", "updateStatus", "assignDriver", "unassignDriver"},
           Dispatchers, {})
    \cup Reads({"findAll"}, Dispatchers \cup {"viewer"}, {})
    \cup Reads({"findOne"}, Crew \cup {"viewer"}, {})
    \cup Reads({"getLocation"}, Crew, {}) \cup Writes({"remove"}, Admins, {})

UsersController ==
    Reads({"findAll", "findOne"}, Roles, {}) \cup Writes({"update"}, Roles, {})
    \cup Writes({"invite", "updateRole", "deactivate", "reactivate"}, Admins, {})
    \cup Writes({"acceptInvite"}, Everyone, {})

VerificationsController ==
    Reads({"findAllTiers", "previewOnboarding"}, Roles, {})
    \cup Writes({"createTier", "review"}, {}, {})
    \cup Writes({"create", "submit", "addDocument"}, Admins, {})
    \cup Reads({"findByCompany", "findById", "findDocuments", "getCompliance",
                "getOnboarding"}, Managers, {})

Controllers ==
    [admin |-> AdminController, audit |-> AuditController, auth |-> AuthController,
     chat |-> ChatController, companies |-> CompaniesController,
     dashboard |-> DashboardController, runs |-> DeliveryRunsController,
     drivers |-> DriversController, expenses |-> ExpensesController,
     files |-> FilesController, geocoding |-> GeocodingController,
     notifications |-> NotificationsController,
     optimization |-> OptimizationController, billing |-> BillingController,
     payments |-> PaymentsController, plans |-> PlansController,
     public |-> PublicTrackingController, recurring |-> RecurringTemplatesController,
     referrals |-> ReferralsController, relationships |-> RelationshipsController,
     reports |-> ReportsController, routes |-> RoutesController,
     addresses |-> SavedAddressesController, shipments |-> ShipmentsController,
     subscriptions |-> SubscriptionsController, tracking |-> TrackingController,
     trucks |-> TrucksController, users |-> UsersController,
     verifications |-> VerificationsController]

-----------------------------------------------------------------------------
\* RolesGuard: the super admin passes everywhere.  What PermissionGuard does with the
\* permissions is in module Access.
RoleAllows(e, role) == role \in e.roles \cup {SuperAdmin}
==============================================================================
