------------------------------ MODULE MCOffice ------------------------------
\* The services around the runs and the billing of one company, each in a scene of
\* its own.  A behaviour plays one scene; the variables of the others keep their
\* first value.  The handlers of Fleet are the calls of every scene in which two
\* calls overlap; in the others "h" answers one request after another.
EXTENDS Fleet, Sequences, TLC

CONSTANTS h1, h2, i1, i2, d3, t1, t2

Pair == {i1, i2}

Scenes == {"trucks", "drivers", "accounts", "rewards", "reviews", "review", "expenses",
           "relations", "plans", "free", "guards", "proposals", "crossing", "chat", "room",
           "alerts", "watch", "stops", "places", "records"}

\* Calls are interchangeable, and so are the two things that a scene is about.
OfficeSymmetry == Permutations(Handlers) \cup Permutations(Pair)

-----------------------------------------------------------------------------
\* Scenes "trucks" and "drivers" have the variables of Fleet.

VARIABLES
    scene,
    users, accounts, driverUsers, userCalls, uids, userLost,      \* "accounts"
    companies, links, referrals, payers, checkouts, invoices,
    referralCalls, tasks, referralLost,                           \* "rewards"
    company, verifications, reviewCalls, reviewLost,              \* "reviews", "review"
    expenses, events, notified, expenseCalls, expenseLost,        \* "expenses"
    relations, log, relationCalls, relationLost,                  \* "relations"
    subs, granted, cache, served, accessCalls, failures, accessLost, \* "plans", "free", "guards"
    runs, ships, shipmentCalls, shipmentLost,                     \* "proposals", "crossing"
    conversations, messages, rooms, received, notifications, chatCalls, chatLost, \* "chat", "room"
    shipments, points, sockets, suspended, delivered, alerts, resets, owed, pushes,
    tokens, trackingCalls, trackingLost,                          \* "alerts", "watch"
    place, listed, run, number, counter, begun, optimizations, optimizationLost, \* "stops"
    edition, answerCache, answers, addresses, routes, placeCalls, placeLost \* "places", "records"

userVars == <<users, accounts, driverUsers, userCalls, uids, userLost>>
referralVars == <<companies, links, referrals, payers, checkouts, invoices,
                  referralCalls, tasks, referralLost>>
reviewVars == <<company, verifications, reviewCalls, reviewLost>>
expenseVars == <<expenses, events, notified, expenseCalls, expenseLost>>
relationVars == <<relations, log, relationCalls, relationLost>>
accessVars == <<subs, granted, cache, served, accessCalls, failures, accessLost>>
shipmentVars == <<runs, ships, shipmentCalls, shipmentLost>>
chatVars == <<conversations, messages, rooms, received, notifications, chatCalls, chatLost>>
trackingVars == <<shipments, points, sockets, suspended, delivered, alerts, resets, owed,
                  pushes, tokens, trackingCalls, trackingLost>>
stopVars == <<place, listed, run, number, counter, begun, optimizations, optimizationLost>>
placeVars == <<edition, answerCache, answers, addresses, routes, placeCalls, placeLost>>

officeVars ==
    <<scene, vars, userVars, referralVars, reviewVars, expenseVars, relationVars,
      accessVars, shipmentVars, chatVars, trackingVars, stopVars, placeVars>>

-----------------------------------------------------------------------------
\* What the scenes are played with, unless a scene says otherwise.
One == {"h"}

Staff == [owner |-> "company_owner", accountant |-> "accountant", driver |-> "driver"]

Ids == {"m"}
People == DOMAIN Staff
Role == Staff
Users == Pair
Owner == "owner"
Platform == "platform"
Roles == {"company_owner", "admin", "driver"}
Companies == Pair
Links == {"l1"}
Payments == {"p1"}
Driver == "u1"
Devices == {"phone"}
Shipments == {"s1"}
Texts == {"t1"}
Countries == {"c1"}
Labels == Pair
AccountUsers == {"owner", "user"}
InvitedDrivers == {"d1"}
Lorries == {"t1"}
Runs == {"r1"}
Followers == {Driver}
MaxUsers == 2
MaxUids == 2
MaxUses == 1
MaxConversations == 1
MaxMessages == 2
MaxAnswers == 1
MaxRows == 2
MaxPoints == 3
MaxAlerts == 3
MaxResets == 1
MaxLost == 1
MaxUserLost == 0
MaxChatLost == 0
MaxRunLost == 0

\* Two verifications reviewed at the same time, or a call for one after the other.
ReviewRequests == {"create", "submit", "review", "remove"}
DeskRequests == ReviewRequests \cup {"edit", "admin"}

\* A shipment and its run, one request after the other, or a run and two at a time.
ProposalRequests == {"create", "add", "start", "newShipment", "editShipment", "setStatus",
                     "assignShipment", "accept", "reject", "cancelShipment", "pod",
                     "finish", "delete"}
ProposalStatuses == {"confirmed", "pending_acceptance", "draft"}
CrossingRequests == {"create", "update", "assign", "remove", "start", "complete", "cancel",
                     "done", "newShipment"}
CrossingStatuses == {"confirmed"}

TalkRequests == {"create", "hide", "send", "read"}
RoomRequests == {"create", "members", "leave", "send", "delete", "join", "notifications"}

TrackingRequests == {"report", "save"}
WatchRequests == {"report", "bulk", "tokens", "watch"}

SearchRequests == {"geocode"}
RecordRequests == {"addresses", "routes"}

-----------------------------------------------------------------------------
\* The owner and one more person, and a driver to invite.
Members == INSTANCE Accounts WITH
    links <- driverUsers, calls <- userCalls, lost <- userLost,
    Users <- AccountUsers, Drivers <- InvitedDrivers, MaxLost <- MaxUserLost

\* A referrer, who is referred by no one, and one other company.
Rewards == INSTANCE Referrals WITH
    subs <- payers, calls <- referralCalls, lost <- referralLost

\* Two verifications reviewed at the same time...
Reviews == INSTANCE Verification WITH
    calls <- reviewCalls, lost <- reviewLost, Ids <- Pair, Requests <- ReviewRequests

\* ...and one after the other.
Review == INSTANCE Verification WITH
    calls <- reviewCalls, lost <- reviewLost, Handlers <- One, Requests <- DeskRequests

Costs == INSTANCE Expenses WITH
    calls <- expenseCalls, lost <- expenseLost, Handlers <- One

Partners == INSTANCE Relationships WITH
    calls <- relationCalls, lost <- relationLost, Handlers <- One

\* Every plan of the catalogue, one change after the other...
Catalogue == INSTANCE Access WITH
    calls <- accessCalls, lost <- accessLost, Handlers <- One,
    Offered <- {"free_courier", "pro_courier", "enterprise_courier", "free_passenger",
                "pro_passenger", "enterprise_passenger", "enterprise_fleet"},
    Asked <- {}, Edited <- {}, Requests <- {"create", "upgrade", "downgrade", "pay", "suspend"},
    MaxSubs <- 1, MaxFailures <- 0, MaxLost <- 1

\* ...and free plans taken at the same time.
FreePlans == INSTANCE Access WITH
    calls <- accessCalls, lost <- accessLost, Offered <- {"free_courier"},
    Asked <- {}, Edited <- {}, Requests <- {"create"},
    MaxSubs <- 4, MaxFailures <- 0, MaxLost <- 1

\* The cached permissions, while every endpoint is called and the administrator edits
\* the plan.
Doors == INSTANCE Endpoints

EveryEndpoint == UNION {Doors!Controllers[c] : c \in DOMAIN Doors!Controllers}

Guards == INSTANCE Access WITH
    calls <- accessCalls, lost <- accessLost,
    Offered <- {"free_courier"}, Asked <- EveryEndpoint,
    Edited <- {"reports.advanced"},
    Requests <- {"create", "mine", "edit", "suspend"},
    MaxSubs <- 1, MaxFailures <- 1, MaxLost <- 0

\* One shipment and a run, one request after the other.
Proposals == INSTANCE Dispatch WITH
    calls <- shipmentCalls, lost <- shipmentLost, Handlers <- One,
    Drivers <- InvitedDrivers, Trucks <- Lorries, Requests <- ProposalRequests,
    NewStatuses <- ProposalStatuses, MaxLost <- MaxRunLost

\* One run, two calls at a time: what older copies of its row can never undo.
Crossing == INSTANCE Dispatch WITH
    calls <- shipmentCalls, lost <- shipmentLost,
    Drivers <- InvitedDrivers, Trucks <- Lorries, Requests <- CrossingRequests,
    NewStatuses <- CrossingStatuses, MaxLost <- MaxRunLost

Talk == INSTANCE Chat WITH
    calls <- chatCalls, lost <- chatLost,
    Requests <- TalkRequests, MaxLost <- MaxChatLost

\* Members who come and go, and what is deleted, one request after the other.
Room == INSTANCE Chat WITH
    calls <- chatCalls, lost <- chatLost, Handlers <- One,
    Requests <- RoomRequests, MaxMessages <- 1

\* The driver's points and the saves of the shipment, two calls at a time...
Road == INSTANCE Tracking WITH
    received <- delivered, notifications <- pushes, calls <- trackingCalls,
    lost <- trackingLost, Users <- Followers, Requests <- TrackingRequests

\* ...and the watchers, the phone's token and the points it kept.
Watched == INSTANCE Tracking WITH
    received <- delivered, notifications <- pushes, calls <- trackingCalls,
    lost <- trackingLost, Handlers <- One, Users <- Followers,
    Requests <- WatchRequests, MaxPoints <- 2, MaxResets <- 0

\* What a service may send for up to four stops: arrays of some length, and those that
\* begin with the origin; too short, too long, with numbers twice or out of range.
Arrays ==
    (UNION {[1 .. m -> 0 .. 3] : m \in 0 .. 3})
        \cup (UNION {{<<0>> \o array : array \in [1 .. m -> 1 .. 4]} : m \in 2 .. 4})

\* Up to four stops on either side of the depot, some at the same place.
Order == INSTANCE Routing WITH
    calls <- optimizations, lost <- optimizationLost, Handlers <- One,
    Stops <- {"s1", "s2", "s3", "s4"}, Coordinates <- {-2, 1, 5},
    Providers <- {"haversine", "nn_2opt", "google_routes", "mapbox"}, Answers <- Arrays,
    Requests <- {"cache", "day", "unlimited"}, DailyLimit <- 1, MaxCalls <- 1, MaxLost <- 0

Searches == INSTANCE Places WITH
    cache <- answerCache, calls <- placeCalls, lost <- placeLost,
    Requests <- SearchRequests

Records == INSTANCE Places WITH
    cache <- answerCache, calls <- placeCalls, lost <- placeLost,
    Requests <- RecordRequests

-----------------------------------------------------------------------------

\* Null is no value of the tables and no call that numbers stops, and the marks of a
\* checkout are no companies.
ASSUME OfficeAssumption ==
    /\ Null \notin Members!UserRow \cup Rewards!LinkRow \cup Rewards!Referral
                     \cup Rewards!Subscription \cup Reviews!VerificationRow
                     \cup Reviews!Company \cup Costs!Row \cup Companies
                     \cup Proposals!RunRow \cup Proposals!ShipmentRow
                     \cup Runs \cup Shipments \cup InvitedDrivers \cup Lorries
                     \cup {"new", "reported", "passenger_safe", Driver}
    /\ {"new", "reported"} \cap Companies = {}
    /\ Null \notin [step : {"number"}, sequence : Seq({"s1", "s2", "s3", "s4"}), next : Nat]

OfficeInit ==
    /\ scene \in Scenes
    /\ Init
    /\ Members!Init /\ Rewards!Init /\ Costs!Init /\ Partners!Init
    /\ IF scene = "review" THEN Review!Init ELSE Reviews!Init
    /\ scene \notin {"review", "reviews"} => company.service = "freight"
    /\ IF scene = "free" THEN FreePlans!Init
       ELSE IF scene = "guards" THEN Guards!Init ELSE Catalogue!Init
    /\ IF scene = "watch" THEN Watched!Init ELSE Road!Init
    /\ IF scene = "crossing" THEN Crossing!Init ELSE Proposals!Init
    /\ Searches!Init
    /\ IF scene = "room" THEN Room!Init ELSE Talk!Init
    /\ IF scene = "stops" THEN Order!Init
       ELSE /\ place = Null /\ listed = Null /\ run = Null /\ number = Null
            /\ counter = 0 /\ begun = 0 /\ optimizations = Null /\ optimizationLost = 0

\* A step of the scenes that are given, which leaves the variables of all others.
Plays(scenes) ==
    /\ scene \in scenes /\ UNCHANGED scene
    /\ "trucks" \notin scenes => UNCHANGED vars
    /\ "accounts" \notin scenes => UNCHANGED userVars
    /\ "rewards" \notin scenes => UNCHANGED referralVars
    /\ "review" \notin scenes => UNCHANGED reviewVars
    /\ "expenses" \notin scenes => UNCHANGED expenseVars
    /\ "relations" \notin scenes => UNCHANGED relationVars
    /\ "plans" \notin scenes => UNCHANGED accessVars
    /\ "proposals" \notin scenes => UNCHANGED shipmentVars
    /\ "chat" \notin scenes => UNCHANGED chatVars
    /\ "alerts" \notin scenes => UNCHANGED trackingVars
    /\ "stops" \notin scenes => UNCHANGED stopVars
    /\ "places" \notin scenes => UNCHANGED placeVars

OfficeNext ==
    \/ Plays({"trucks", "drivers"}) /\ \/ scene = "trucks" /\ TruckNext
                                       \/ scene = "drivers" /\ DriverNext
    \/ Plays({"accounts"}) /\ Members!Next
    \/ Plays({"rewards"}) /\ Rewards!Next
    \/ Plays({"review", "reviews"}) /\ IF scene = "review" THEN Review!Next ELSE Reviews!Next
    \/ Plays({"expenses"}) /\ Costs!Next
    \/ Plays({"relations"}) /\ Partners!Next
    \/ Plays({"plans", "free", "guards"}) /\ \/ scene = "plans" /\ Catalogue!Next
                                             \/ scene = "free" /\ FreePlans!Next
                                             \/ scene = "guards" /\ Guards!Next
    \/ Plays({"proposals", "crossing"}) /\ IF scene = "crossing" THEN Crossing!Next
                                           ELSE Proposals!Next
    \/ Plays({"chat", "room"}) /\ IF scene = "room" THEN Room!Next ELSE Talk!Next
    \/ Plays({"alerts", "watch"}) /\ IF scene = "watch" THEN Watched!Next ELSE Road!Next
    \/ Plays({"stops"}) /\ Order!Next
    \/ Plays({"places", "records"}) /\ IF scene = "places" THEN Searches!Next ELSE Records!Next

OfficeSpec == OfficeInit /\ [][OfficeNext]_officeVars

-----------------------------------------------------------------------------
\* Every table and every call in flight has the type its module says.
OfficeTypeOK ==
    CASE scene \in {"trucks", "drivers"} -> TypeOK
      [] scene = "accounts" -> Members!TypeOK
      [] scene = "reviews" -> Reviews!TypeOK
      [] scene = "review" -> Review!TypeOK
      [] scene = "plans" -> Catalogue!TypeOK
      [] scene = "free" -> FreePlans!TypeOK
      [] scene = "guards" -> Guards!TypeOK
      [] scene = "proposals" -> Proposals!TypeOK
      [] scene = "crossing" -> Crossing!TypeOK
      [] scene = "chat" -> Talk!TypeOK
      [] scene = "room" -> Room!TypeOK
      [] scene = "alerts" -> Road!TypeOK
      [] scene = "watch" -> Watched!TypeOK
      [] scene = "stops" -> Order!TypeOK
      [] scene = "places" -> Searches!TypeOK
      [] scene = "records" -> Records!TypeOK
      [] OTHER -> TRUE

\* Profiles and accounts agree, whatever fails or overlaps (Accounts).
ProfileHasAccount == scene = "accounts" => Members!ProfileHasAccount

\* Nobody takes the company from its owner (Accounts).
OwnerInCharge == scene = "accounts" => Members!OwnerInCharge

\* A discount follows a payment of the company that was referred (Referrals).
DiscountIsEarned == scene = "rewards" => Rewards!DiscountIsEarned

\* An approved verification has activated its company (Verification).
ApprovalActivates == scene = "reviews" => Reviews!ApprovalActivates

\* The right to operate is decided by reviews, time and the owner (Verification).
RightToOperate == [][scene = "review" => Review!OperatesWithCause]_officeVars

\* The stage of the matter that a serial scene is about.
OfficeStage ==
    CASE scene = "review" -> Review!Stage
      [] scene = "expenses" -> Costs!Stage
      [] scene = "relations" -> Partners!Stage
      [] OTHER -> [m \in Ids |-> "none"]

Decided == INSTANCE Decisions WITH Matters <- Ids, stage <- OfficeStage

\* Requests one after the other: what is opened is granted or refused once, and what
\* is closed or withdrawn stays so, for a verification (review), an expense (approve,
\* reject, reimburse) and a relation between companies (respond, terminate).
DecisionsTakenOnce == Decided!Spec

\* A change to a higher tier takes nothing away (Access).
UpgradeKeepsAccess == Catalogue!UpgradeKeepsAccess

\* Overlapping sign-ups leave few active subscriptions (Access).
ActivePlansNearOne == scene = "free" => FreePlans!ActivePlansNearOne

\* A cancelled shipment stays cancelled (Dispatch).
CancelledIsFinal == Proposals!CancelledIsFinal

\* A proposal is answered once (Dispatch).
AnswerIsFinal == Proposals!AnswerIsFinal

\* A run under way is manned, whatever older copies are saved (Dispatch).
RunningRunIsManned == scene = "crossing" => Crossing!RunningRunIsManned

\* What was read stays read (Chat).
ReadStaysRead == Talk!ReadStaysRead

\* The recipient is alerted once, but for overlapping calls (Tracking).
AlertedOnce == scene \in {"alerts", "watch"} => Road!AlertedOnce

\* An optimized run visits its stops, each where its number says (Routing).
StopsFollowTheTour == scene = "stops" => Order!StopsFollowTheTour

\* nn_2opt ends in a local optimum that is no worse than its start (Routing).
TwoOptImproves == scene = "stops" => Order!TwoOptImproves

\* A cached answer is the answer to the question that was asked (Places).
AnswersTheQuestion == scene = "places" => Searches!AnswersTheQuestion
==============================================================================
