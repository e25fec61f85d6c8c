----------------------------- MODULE OfficeProofs -----------------------------
(***************************************************************************)
(* The properties of MCOffice, from the theorems about the services        *)
(* and the runs: what a scene checks on a few rows is an instance of what  *)
(* they show for every value of the constants.                             *)
(*                                                                         *)
(* For each scene: its first states and its steps are those of the module  *)
(* that the theorem is about, the steps of other scenes leave its          *)
(* variables as they are, and so the behaviours of the office are          *)
(* behaviours of that module.  Handlers, Null and the model values of      *)
(* MCOffice may be anything that its assumptions allow.                    *)
(***************************************************************************)
EXTENDS MCOffice, FleetProofs, FiniteSetTheorems, TLAPS

-----------------------------------------------------------------------------
\* Scenes.

\* A step of the office is a step of the scene that is played, and the variables of the
\* other scenes stay as they are.
LEMMA ScenesPlay ==
    ASSUME [OfficeNext]_officeVars
    PROVE  /\ scene' = scene
           /\ \/ scene = "trucks" /\ TruckNext
              \/ scene = "drivers" /\ DriverNext
              \/ UNCHANGED vars
           /\ Members!Next \/ UNCHANGED userVars
           /\ Rewards!Next \/ UNCHANGED referralVars
           /\ (IF scene = "review" THEN Review!Next ELSE Reviews!Next) \/ UNCHANGED reviewVars
           /\ Costs!Next \/ UNCHANGED expenseVars
           /\ Partners!Next \/ UNCHANGED relationVars
           /\ (IF scene = "crossing" THEN Crossing!Next ELSE Proposals!Next)
                \/ UNCHANGED shipmentVars
           /\ (IF scene = "room" THEN Room!Next ELSE Talk!Next) \/ UNCHANGED chatVars
           /\ (IF scene = "watch" THEN Watched!Next ELSE Road!Next)
                \/ UNCHANGED trackingVars
           /\ \/ scene = "places" /\ Searches!Next
              \/ scene # "places" /\ Records!Next
              \/ UNCHANGED placeVars
           /\ \/ scene = "plans" /\ Catalogue!Next
              \/ scene = "free" /\ FreePlans!Next
              \/ scene = "guards" /\ Guards!Next
              \/ UNCHANGED accessVars
           /\ Order!Next \/ UNCHANGED stopVars
BY DEF OfficeNext, Plays, officeVars

\* The prover of temporal steps takes these for unrelated formulas.
LEMMA OtherScenes ==
    /\ scene # "review" <=> ~(scene = "review")
    /\ scene # "crossing" <=> ~(scene = "crossing")
    /\ scene # "free" <=> ~(scene = "free")
    /\ scene # "guards" <=> ~(scene = "guards")
    /\ scene # "room" <=> ~(scene = "room")
    /\ scene # "watch" <=> ~(scene = "watch")
    /\ scene # "stops" <=> ~(scene = "stops")
    /\ scene \notin {"free", "guards"} <=> ~(scene \in {"free", "guards"})
OBVIOUS

\* A behaviour plays one scene.
LEMMA SceneLasts ==
    /\ OfficeSpec => [](scene = "review") \/ [](scene # "review")
    /\ OfficeSpec => [](scene = "crossing") \/ [](scene # "crossing")
    /\ OfficeSpec => [](scene = "stops") \/ [](scene # "stops")
    /\ OfficeSpec => [](scene = "room") \/ [](scene # "room")
    /\ OfficeSpec => [](scene = "watch") \/ [](scene # "watch")
    /\ OfficeSpec => [](scene = "free") \/ [](scene # "free")
    /\ OfficeSpec => [](scene = "guards") \/ [](scene # "guards")
    /\ OfficeSpec => \/ [](scene \in {"free", "guards"})
                     \/ [](scene \notin {"free", "guards"})
<1>1. [OfficeNext]_officeVars =>
          /\ (scene = "review")' <=> scene = "review"
          /\ (scene = "crossing")' <=> scene = "crossing"
          /\ (scene = "stops")' <=> scene = "stops"
          /\ (scene = "room")' <=> scene = "room"
          /\ (scene = "watch")' <=> scene = "watch"
          /\ (scene = "free")' <=> scene = "free"
          /\ (scene = "guards")' <=> scene = "guards"
          /\ (scene \in {"free", "guards"})' <=> scene \in {"free", "guards"}
  BY ScenesPlay
<1>2. /\ OfficeSpec => [](scene = "review") \/ [](scene # "review")
      /\ OfficeSpec => [](scene = "crossing") \/ [](scene # "crossing")
      /\ OfficeSpec => [](scene = "stops") \/ [](scene # "stops")
  BY <1>1, OtherScenes, PTL DEF OfficeSpec
<1>3. /\ OfficeSpec => [](scene = "room") \/ [](scene # "room")
      /\ OfficeSpec => [](scene = "watch") \/ [](scene # "watch")
  BY <1>1, OtherScenes, PTL DEF OfficeSpec
<1>4. /\ OfficeSpec => [](scene = "free") \/ [](scene # "free")
      /\ OfficeSpec => [](scene = "guards") \/ [](scene # "guards")
      /\ OfficeSpec => \/ [](scene \in {"free", "guards"})
                       \/ [](scene \notin {"free", "guards"})
  BY <1>1, OtherScenes, PTL DEF OfficeSpec
<1> QED
  BY <1>2, <1>3, <1>4, PTL

\* For each scene: its first states and its steps.  MCOffice and the proofs instantiate the
\* same module with the same constants, so that both sides expand to the same formula.

-----------------------------------------------------------------------------
\* Trucks and drivers.

LEMMA FleetBehaves == OfficeSpec => Spec
<1>1. OfficeInit => Init
  BY DEF OfficeInit
<1>2. [OfficeNext]_officeVars => [Next]_vars
  BY ScenesPlay DEF Next
<1> QED
  BY <1>1, <1>2, PTL DEF OfficeSpec, Spec

LEMMA FleetTypesHold == OfficeSpec => []TypeOK
<1>1. FleetInv => TypeOK
  BY DEF FleetInv
<1> QED
  BY <1>1, FleetBehaves, FleetInvariant, PTL

-----------------------------------------------------------------------------
\* Subscriptions of every plan, free ones taken at the same time, and those that the
\* guards of the endpoints look at.
K == INSTANCE AccessProofs WITH
    calls <- accessCalls, lost <- accessLost, Handlers <- One,
    Offered <- {"free_courier", "pro_courier", "enterprise_courier", "free_passenger",
                "pro_passenger", "enterprise_passenger", "enterprise_fleet"},
    Asked <- {}, Edited <- {}, Requests <- {"create", "upgrade", "downgrade", "pay", "suspend"},
    MaxSubs <- 1, MaxFailures <- 0, MaxLost <- 1

F == INSTANCE AccessProofs WITH
    calls <- accessCalls, lost <- accessLost, Offered <- {"free_courier"},
    Asked <- {}, Edited <- {}, Requests <- {"create"},
    MaxSubs <- 4, MaxFailures <- 0, MaxLost <- 1

U == INSTANCE AccessProofs WITH
    calls <- accessCalls, lost <- accessLost,
    Offered <- {"free_courier"}, Asked <- EveryEndpoint,
    Edited <- {"reports.advanced"},
    Requests <- {"create", "mine", "edit", "suspend"},
    MaxSubs <- 1, MaxFailures <- 1, MaxLost <- 0

LEMMA CatalogueBegins == Catalogue!Init => K!Init
BY ZenonT(60)
DEF Catalogue!Row, K!Row, Catalogue!CourierPermissions, K!CourierPermissions,
    Catalogue!PassengerPermissions, K!PassengerPermissions, Catalogue!FleetPermissions,
    K!FleetPermissions, Catalogue!PlanPermissions, K!PlanPermissions, Catalogue!Init, K!Init

LEMMA CatalogueChange ==
    ASSUME NEW h
    PROVE  /\ Catalogue!ChangePlan(h) => K!ChangePlan(h)
           /\ Catalogue!UpdatePlan(h) => K!UpdatePlan(h)
<1>1. /\ Catalogue!Price = K!Price
      /\ Catalogue!Audience = K!Audience
      /\ Catalogue!Tier = K!Tier
  BY SMT
  DEF Catalogue!Row, K!Row, Catalogue!Price, K!Price, Catalogue!Audience, K!Audience,
      Catalogue!Tier, K!Tier
<1> QED
  BY <1>1, SMT
  DEF Catalogue!CompatibleAudience, K!CompatibleAudience, Catalogue!PlanChangeAllowed,
      K!PlanChangeAllowed, Catalogue!StatusForPlan, K!StatusForPlan, Catalogue!Idle, K!Idle,
      Catalogue!ChangePlan, K!ChangePlan, Catalogue!UpdatePlan, K!UpdatePlan

LEMMA CatalogueGoesOn == Catalogue!Next => K!Next
BY CatalogueChange, ZenonT(120)
DEF Catalogue!Active, K!Active, Catalogue!Effective, K!Effective, Catalogue!Combined,
    K!Combined, Catalogue!Idle, K!Idle, Catalogue!CreateFree, K!CreateFree,
    Catalogue!InsertFree, K!InsertFree, Catalogue!Invalidate, K!Invalidate, Catalogue!Paid,
    K!Paid, Catalogue!Suspend, K!Suspend, Catalogue!EditPermission, K!EditPermission,
    Catalogue!Answer, K!Answer, Catalogue!Guarded, K!Guarded, Catalogue!Use, K!Use,
    Catalogue!MyPermissions, K!MyPermissions, Catalogue!Loaded, K!Loaded, Catalogue!Load,
    K!Load, Catalogue!LoadFails, K!LoadFails, Catalogue!SetCache, K!SetCache,
    Catalogue!Expire, K!Expire, Catalogue!Lose, K!Lose, Catalogue!Continue, K!Continue,
    Catalogue!Request, K!Request, Catalogue!Anonymous, K!Anonymous, Catalogue!Roles,
    K!Roles, Catalogue!SuperAdmin, K!SuperAdmin, Catalogue!RoleAllows, K!RoleAllows,
    Catalogue!Next, K!Next

LEMMA CatalogueBehaves == OfficeSpec /\ scene \notin {"free", "guards"} => K!Spec
<1>1. OfficeInit /\ scene \notin {"free", "guards"} => K!Init
  BY CatalogueBegins DEF OfficeInit
<1>2. scene \notin {"free", "guards"} /\ [OfficeNext]_officeVars =>
          (scene \notin {"free", "guards"})' /\ [K!Next]_(K!vars)
  BY ScenesPlay, CatalogueGoesOn DEF accessVars, K!vars
<1> QED
  BY <1>1, <1>2, PTL DEF OfficeSpec, K!Spec

LEMMA FreePlansBegin == FreePlans!Init => F!Init
BY ZenonT(60)
DEF FreePlans!Row, F!Row, FreePlans!CourierPermissions, F!CourierPermissions,
    FreePlans!PassengerPermissions, F!PassengerPermissions, FreePlans!FleetPermissions,
    F!FleetPermissions, FreePlans!PlanPermissions, F!PlanPermissions, FreePlans!Init, F!Init

LEMMA FreePlansChange ==
    ASSUME NEW h
    PROVE  /\ FreePlans!ChangePlan(h) => F!ChangePlan(h)
           /\ FreePlans!UpdatePlan(h) => F!UpdatePlan(h)
<1>1. /\ FreePlans!Price = F!Price
      /\ FreePlans!Audience = F!Audience
      /\ FreePlans!Tier = F!Tier
  BY SMT
  DEF FreePlans!Row, F!Row, FreePlans!Price, F!Price, FreePlans!Audience, F!Audience,
      FreePlans!Tier, F!Tier
<1> QED
  BY <1>1, SMT
  DEF FreePlans!CompatibleAudience, F!CompatibleAudience, FreePlans!PlanChangeAllowed,
      F!PlanChangeAllowed, FreePlans!StatusForPlan, F!StatusForPlan, FreePlans!Idle, F!Idle,
      FreePlans!ChangePlan, F!ChangePlan, FreePlans!UpdatePlan, F!UpdatePlan

LEMMA FreePlansGoOn == FreePlans!Next => F!Next
BY FreePlansChange, ZenonT(120)
DEF FreePlans!Active, F!Active, FreePlans!Effective, F!Effective, FreePlans!Combined,
    F!Combined, FreePlans!Idle, F!Idle, FreePlans!CreateFree, F!CreateFree,
    FreePlans!InsertFree, F!InsertFree, FreePlans!Invalidate, F!Invalidate, FreePlans!Paid,
    F!Paid, FreePlans!Suspend, F!Suspend, FreePlans!EditPermission, F!EditPermission,
    FreePlans!Answer, F!Answer, FreePlans!Guarded, F!Guarded, FreePlans!Use, F!Use,
    FreePlans!MyPermissions, F!MyPermissions, FreePlans!Loaded, F!Loaded, FreePlans!Load,
    F!Load, FreePlans!LoadFails, F!LoadFails, FreePlans!SetCache, F!SetCache,
    FreePlans!Expire, F!Expire, FreePlans!Lose, F!Lose, FreePlans!Continue, F!Continue,
    FreePlans!Request, F!Request, FreePlans!Anonymous, F!Anonymous, FreePlans!Roles,
    F!Roles, FreePlans!SuperAdmin, F!SuperAdmin, FreePlans!RoleAllows, F!RoleAllows,
    FreePlans!Next, F!Next

LEMMA FreePlansBehave == OfficeSpec /\ scene = "free" => F!Spec
<1>1. OfficeInit /\ scene = "free" => F!Init
  BY FreePlansBegin DEF OfficeInit
<1>2. scene = "free" /\ [OfficeNext]_officeVars =>
          (scene = "free")' /\ [F!Next]_(F!vars)
  BY ScenesPlay, FreePlansGoOn DEF accessVars, F!vars
<1> QED
  BY <1>1, <1>2, PTL DEF OfficeSpec, F!Spec

LEMMA GuardsBegin == Guards!Init => U!Init
BY ZenonT(60)
DEF Guards!Row, U!Row, Guards!CourierPermissions, U!CourierPermissions,
    Guards!PassengerPermissions, U!PassengerPermissions, Guards!FleetPermissions,
    U!FleetPermissions, Guards!PlanPermissions, U!PlanPermissions, Guards!Init, U!Init

LEMMA GuardsChange ==
    ASSUME NEW h
    PROVE  /\ Guards!ChangePlan(h) => U!ChangePlan(h)
           /\ Guards!UpdatePlan(h) => U!UpdatePlan(h)
<1>1. /\ Guards!Price = U!Price
      /\ Guards!Audience = U!Audience
      /\ Guards!Tier = U!Tier
  BY SMT
  DEF Guards!Row, U!Row, Guards!Price, U!Price, Guards!Audience, U!Audience, Guards!Tier,
      U!Tier
<1> QED
  BY <1>1, SMT
  DEF Guards!CompatibleAudience, U!CompatibleAudience, Guards!PlanChangeAllowed,
      U!PlanChangeAllowed, Guards!StatusForPlan, U!StatusForPlan, Guards!Idle, U!Idle,
      Guards!ChangePlan, U!ChangePlan, Guards!UpdatePlan, U!UpdatePlan

LEMMA GuardsGoOn == Guards!Next => U!Next
BY GuardsChange, ZenonT(120)
DEF Guards!Active, U!Active, Guards!Effective, U!Effective, Guards!Combined, U!Combined,
    Guards!Idle, U!Idle, Guards!CreateFree, U!CreateFree, Guards!InsertFree, U!InsertFree,
    Guards!Invalidate, U!Invalidate, Guards!Paid, U!Paid, Guards!Suspend, U!Suspend,
    Guards!EditPermission, U!EditPermission, Guards!Answer, U!Answer, Guards!Guarded,
    U!Guarded, Guards!Use, U!Use, Guards!MyPermissions, U!MyPermissions, Guards!Loaded,
    U!Loaded, Guards!Load, U!Load, Guards!LoadFails, U!LoadFails, Guards!SetCache,
    U!SetCache, Guards!Expire, U!Expire, Guards!Lose, U!Lose, Guards!Continue, U!Continue,
    Guards!Request, U!Request, Guards!Anonymous, U!Anonymous, Guards!Roles, U!Roles,
    Guards!SuperAdmin, U!SuperAdmin, Guards!RoleAllows, U!RoleAllows, Guards!Next, U!Next

LEMMA GuardsBehave == OfficeSpec /\ scene = "guards" => U!Spec
<1>1. OfficeInit /\ scene = "guards" => U!Init
  BY GuardsBegin DEF OfficeInit
<1>2. scene = "guards" /\ [OfficeNext]_officeVars =>
          (scene = "guards")' /\ [U!Next]_(U!vars)
  BY ScenesPlay, GuardsGoOn DEF accessVars, U!vars
<1> QED
  BY <1>1, <1>2, PTL DEF OfficeSpec, U!Spec

\* What the theorems assume of their constants holds of the office's.
LEMMA PlansConstants == K!AccessConstants /\ F!AccessConstants /\ U!AccessConstants
<1>1. IsFiniteSet(One)
  BY FS_Singleton DEF One
<1>2. K!IsFiniteSet(One) /\ F!IsFiniteSet(Handlers) /\ U!IsFiniteSet(Handlers)
  BY <1>1, FleetAssumption DEF IsFiniteSet, K!IsFiniteSet, F!IsFiniteSet, U!IsFiniteSet
<1> QED
  BY <1>2
  DEF K!AccessConstants, F!AccessConstants, U!AccessConstants, K!Plans, F!Plans, U!Plans

LEMMA CatalogueShowsTheCatalogue ==
    /\ K!Tier = Catalogue!Tier
    /\ \A from, to : K!CompatibleAudience(from, to) <=> Catalogue!CompatibleAudience(from, to)
    /\ \A from, to : K!NothingLost(from, to) <=> Catalogue!NothingLost(from, to)
<1>1. K!Tier = Catalogue!Tier /\ K!Audience = Catalogue!Audience
  BY SMT DEF Catalogue!Row, K!Row, Catalogue!Tier, K!Tier, Catalogue!Audience, K!Audience
<1>2. K!PlanPermissions = Catalogue!PlanPermissions
  BY Zenon
  DEF Catalogue!Row, K!Row, Catalogue!CourierPermissions, K!CourierPermissions,
      Catalogue!PassengerPermissions, K!PassengerPermissions, Catalogue!FleetPermissions,
      K!FleetPermissions, Catalogue!PlanPermissions, K!PlanPermissions
<1>3. K!PlanLimits = Catalogue!PlanLimits
  BY SMT DEF Catalogue!Row, K!Row, Catalogue!ShipmentsPerDay, K!ShipmentsPerDay,
      Catalogue!PlanLimits, K!PlanLimits
<1>4. \A from, to : K!CompatibleAudience(from, to) <=> Catalogue!CompatibleAudience(from, to)
  BY <1>1 DEF Catalogue!CompatibleAudience, K!CompatibleAudience
<1>5. \A from, to : K!NothingLost(from, to) <=> Catalogue!NothingLost(from, to)
  BY <1>2, <1>3 DEF Catalogue!NothingLost, K!NothingLost
<1> QED
  BY <1>1, <1>4, <1>5

LEMMA FreePlansShowTheCatalogue ==
    /\ F!Tier = Catalogue!Tier
    /\ \A from, to : F!CompatibleAudience(from, to) <=> Catalogue!CompatibleAudience(from, to)
    /\ \A from, to : F!NothingLost(from, to) <=> Catalogue!NothingLost(from, to)
<1>1. F!Tier = Catalogue!Tier /\ F!Audience = Catalogue!Audience
  BY SMT DEF Catalogue!Row, F!Row, Catalogue!Tier, F!Tier, Catalogue!Audience, F!Audience
<1>2. F!PlanPermissions = Catalogue!PlanPermissions
  BY Zenon
  DEF Catalogue!Row, F!Row, Catalogue!CourierPermissions, F!CourierPermissions,
      Catalogue!PassengerPermissions, F!PassengerPermissions, Catalogue!FleetPermissions,
      F!FleetPermissions, Catalogue!PlanPermissions, F!PlanPermissions
<1>3. F!PlanLimits = Catalogue!PlanLimits
  BY SMT DEF Catalogue!Row, F!Row, Catalogue!ShipmentsPerDay, F!ShipmentsPerDay,
      Catalogue!PlanLimits, F!PlanLimits
<1>4. \A from, to : F!CompatibleAudience(from, to) <=> Catalogue!CompatibleAudience(from, to)
  BY <1>1 DEF Catalogue!CompatibleAudience, F!CompatibleAudience
<1>5. \A from, to : F!NothingLost(from, to) <=> Catalogue!NothingLost(from, to)
  BY <1>2, <1>3 DEF Catalogue!NothingLost, F!NothingLost
<1> QED
  BY <1>1, <1>4, <1>5

LEMMA GuardsShowTheCatalogue ==
    /\ U!Tier = Catalogue!Tier
    /\ \A from, to : U!CompatibleAudience(from, to) <=> Catalogue!CompatibleAudience(from, to)
    /\ \A from, to : U!NothingLost(from, to) <=> Catalogue!NothingLost(from, to)
<1>1. U!Tier = Catalogue!Tier /\ U!Audience = Catalogue!Audience
  BY SMT DEF Catalogue!Row, U!Row, Catalogue!Tier, U!Tier, Catalogue!Audience, U!Audience
<1>2. U!PlanPermissions = Catalogue!PlanPermissions
  BY Zenon
  DEF Catalogue!Row, U!Row, Catalogue!CourierPermissions, U!CourierPermissions,
      Catalogue!PassengerPermissions, U!PassengerPermissions, Catalogue!FleetPermissions,
      U!FleetPermissions, Catalogue!PlanPermissions, U!PlanPermissions
<1>3. U!PlanLimits = Catalogue!PlanLimits
  BY SMT DEF Catalogue!Row, U!Row, Catalogue!ShipmentsPerDay, U!ShipmentsPerDay,
      Catalogue!PlanLimits, U!PlanLimits
<1>4. \A from, to : U!CompatibleAudience(from, to) <=> Catalogue!CompatibleAudience(from, to)
  BY <1>1 DEF Catalogue!CompatibleAudience, U!CompatibleAudience
<1>5. \A from, to : U!NothingLost(from, to) <=> Catalogue!NothingLost(from, to)
  BY <1>2, <1>3 DEF Catalogue!NothingLost, U!NothingLost
<1> QED
  BY <1>1, <1>4, <1>5

\* A change to a higher tier takes nothing away in any scene of the subscriptions, however
\* the change came about (upgradeSubscription, the payment, the catalogue).
THEOREM UpgradesKeepAccess == OfficeSpec => UpgradeKeepsAccess
<1> DEFINE
      Climbs == \A s \in DOMAIN subs :
          (/\ Catalogue!Tier[subs'[s].plan] > Catalogue!Tier[subs[s].plan]
           /\ Catalogue!CompatibleAudience(subs[s].plan, subs'[s].plan))
              => Catalogue!NothingLost(subs[s].plan, subs'[s].plan)
      ClimbsK == \A s \in DOMAIN subs :
          (/\ K!Tier[subs'[s].plan] > K!Tier[subs[s].plan]
           /\ K!CompatibleAudience(subs[s].plan, subs'[s].plan))
              => K!NothingLost(subs[s].plan, subs'[s].plan)
      ClimbsF == \A s \in DOMAIN subs :
          (/\ F!Tier[subs'[s].plan] > F!Tier[subs[s].plan]
           /\ F!CompatibleAudience(subs[s].plan, subs'[s].plan))
              => F!NothingLost(subs[s].plan, subs'[s].plan)
      ClimbsU == \A s \in DOMAIN subs :
          (/\ U!Tier[subs'[s].plan] > U!Tier[subs[s].plan]
           /\ U!CompatibleAudience(subs[s].plan, subs'[s].plan))
              => U!NothingLost(subs[s].plan, subs'[s].plan)
<1>1. /\ K!Spec => K!UpgradeKeepsAccess
      /\ F!Spec => F!UpgradeKeepsAccess
      /\ U!Spec => U!UpgradeKeepsAccess
  BY K!ClimbingKeepsAccess, F!ClimbingKeepsAccess, U!ClimbingKeepsAccess, PlansConstants
<1>2. /\ K!UpgradeKeepsAccess <=> [][ClimbsK]_(K!vars)
      /\ F!UpgradeKeepsAccess <=> [][ClimbsF]_(F!vars)
      /\ U!UpgradeKeepsAccess <=> [][ClimbsU]_(U!vars)
      /\ UpgradeKeepsAccess <=> [][Climbs]_(Catalogue!vars)
  BY DEF K!UpgradeKeepsAccess, F!UpgradeKeepsAccess, U!UpgradeKeepsAccess,
         UpgradeKeepsAccess, Catalogue!UpgradeKeepsAccess
<1>3. /\ ClimbsK <=> Climbs
      /\ ClimbsF <=> Climbs
      /\ ClimbsU <=> Climbs
  BY CatalogueShowsTheCatalogue, FreePlansShowTheCatalogue, GuardsShowTheCatalogue
<1>4. [ClimbsK]_(K!vars) \/ [ClimbsF]_(F!vars) \/ [ClimbsU]_(U!vars) =>
          [Climbs]_(Catalogue!vars)
  BY <1>3 DEF K!vars, F!vars, U!vars, Catalogue!vars
<1>5. scene \notin {"free", "guards"} \/ scene = "free" \/ scene = "guards"
  OBVIOUS
<1> QED
  BY <1>1, <1>2, <1>4, <1>5, CatalogueBehaves, FreePlansBehave, GuardsBehave, PTL

\* Sign-ups to a free plan that overlap leave at most one active subscription for each of
\* them (createFreeSubscription).
THEOREM SignUpsStayFew == OfficeSpec => []ActivePlansNearOne
<1>1. {"create"} \cap {"upgrade", "downgrade"} = {}
  OBVIOUS
<1>2. F!Spec => []F!ActivePlansNearOne
  BY <1>1, F!OverlapBoundsActivePlans, PlansConstants
<1>3. F!ActivePlansNearOne \/ scene # "free" => ActivePlansNearOne
  BY DEF ActivePlansNearOne, FreePlans!ActivePlansNearOne, F!ActivePlansNearOne,
         FreePlans!Active, F!Active, FreePlans!Cardinality, F!Cardinality
<1> QED
  BY <1>2, <1>3, SceneLasts, FreePlansBehave, PTL

LEMMA CatalogueTypesHold == OfficeSpec => [](scene = "plans" => Catalogue!TypeOK)
<1>1. K!Spec => []K!TypeOK
  BY K!AccessTypesHold, PlansConstants
<1>2. K!TypeOK => Catalogue!TypeOK
  BY Zenon
  DEF Catalogue!TypeOK, K!TypeOK, Catalogue!Codes, K!Codes, Catalogue!Plans, K!Plans,
      Catalogue!PlanPermissions, K!PlanPermissions, Catalogue!FleetPermissions,
      K!FleetPermissions, Catalogue!PassengerPermissions, K!PassengerPermissions,
      Catalogue!CourierPermissions, K!CourierPermissions, Catalogue!Row, K!Row,
      Catalogue!SubRows, K!SubRows, Catalogue!Statuses, K!Statuses
<1>3. scene = "plans" => scene \notin {"free", "guards"}
  OBVIOUS
<1> QED
  BY <1>1, <1>2, <1>3, OtherScenes, SceneLasts, CatalogueBehaves, PTL

LEMMA FreePlansTypesHold == OfficeSpec => [](scene = "free" => FreePlans!TypeOK)
<1>1. F!Spec => []F!TypeOK
  BY F!AccessTypesHold, PlansConstants
<1>2. F!TypeOK => FreePlans!TypeOK
  BY Zenon
  DEF FreePlans!TypeOK, F!TypeOK, FreePlans!Codes, F!Codes, FreePlans!Plans, F!Plans,
      FreePlans!PlanPermissions, F!PlanPermissions, FreePlans!FleetPermissions,
      F!FleetPermissions, FreePlans!PassengerPermissions, F!PassengerPermissions,
      FreePlans!CourierPermissions, F!CourierPermissions, FreePlans!Row, F!Row,
      FreePlans!SubRows, F!SubRows, FreePlans!Statuses, F!Statuses
<1> QED
  BY <1>1, <1>2, OtherScenes, SceneLasts, FreePlansBehave, PTL

LEMMA GuardsTypesHold == OfficeSpec => [](scene = "guards" => Guards!TypeOK)
<1>1. U!Spec => []U!TypeOK
  BY U!AccessTypesHold, PlansConstants
<1>2. U!TypeOK => Guards!TypeOK
  BY Zenon
  DEF Guards!TypeOK, U!TypeOK, Guards!Codes, U!Codes, Guards!Plans, U!Plans,
      Guards!PlanPermissions, U!PlanPermissions, Guards!FleetPermissions,
      U!FleetPermissions, Guards!PassengerPermissions, U!PassengerPermissions,
      Guards!CourierPermissions, U!CourierPermissions, Guards!Row, U!Row, Guards!SubRows,
      U!SubRows, Guards!Statuses, U!Statuses
<1> QED
  BY <1>1, <1>2, OtherScenes, SceneLasts, GuardsBehave, PTL

-----------------------------------------------------------------------------
\* The stops of a run.
O == INSTANCE RoutingProofs WITH
    calls <- optimizations, lost <- optimizationLost, Handlers <- One,
    Stops <- {"s1", "s2", "s3", "s4"}, Coordinates <- {-2, 1, 5},
    Providers <- {"haversine", "nn_2opt", "google_routes", "mapbox"}, Answers <- Arrays,
    Requests <- {"cache", "day", "unlimited"}, DailyLimit <- 1, MaxCalls <- 1, MaxLost <- 0

\* The strategies are folds, which are expanded one inside the other.
LEMMA OrderBegins == Order!Init => O!Init
BY ZenonT(60)
DEF Order!Init, O!Init, Order!SetToSeq, O!SetToSeq, Order!IsInjective, O!IsInjective,
    Order!Cardinality, O!Cardinality, Order!Range, O!Range

LEMMA SameLength == \A from, tour : Order!Length(from, tour) = O!Length(from, tour)
BY DEF Order!Distance, O!Distance, Order!Length, O!Length, Order!FoldFunction,
         O!FoldFunction, Order!FoldFunctionOnSet, O!FoldFunctionOnSet,
         Order!MapThenFoldSet, O!MapThenFoldSet

LEMMA SameNearestNeighbour ==
    \A from, seq : Order!NearestNeighbour(from, seq) = O!NearestNeighbour(from, seq)
<1>1. \A cursor, seq : Order!Closest(cursor, seq) = O!Closest(cursor, seq)
  BY DEF Order!Distance, O!Distance, Order!Closest, O!Closest
<1>2. \A leg : Order!Visited(leg) = O!Visited(leg)
  BY <1>1, Zenon DEF Order!Visited, O!Visited, Order!RemoveAt, O!RemoveAt
<1> QED
  BY <1>2, Zenon DEF Order!NearestNeighbour, O!NearestNeighbour, Order!FoldLeft, O!FoldLeft,
         Order!MapThenFoldSet, O!MapThenFoldSet, Order!Max, O!Max

LEMMA SameTours ==
    ASSUME NEW provider, NEW origin, NEW stops
    PROVE  Order!Tours(provider, origin, stops) = O!Tours(provider, origin, stops)
<1>1. \A from, tour, i, k : Order!Improved(from, tour, i, k) = O!Improved(from, tour, i, k)
  BY SameLength DEF Order!Improved, O!Improved, Order!Swapped, O!Swapped
<1>2. ASSUME NEW from, NEW tour, NEW i
      PROVE  Order!ImprovedFrom(from, tour, i) = O!ImprovedFrom(from, tour, i)
  BY <1>1, Zenon DEF Order!ImprovedFrom, O!ImprovedFrom, Order!FoldLeft, O!FoldLeft,
         Order!MapThenFoldSet, O!MapThenFoldSet, Order!Max, O!Max
<1>3. \A from, tour : Order!TwoOptPass(from, tour) = O!TwoOptPass(from, tour)
  BY <1>2, Zenon
  DEF Order!TwoOptPass, O!TwoOptPass, Order!FoldLeft, O!FoldLeft, Order!MapThenFoldSet,
         O!MapThenFoldSet, Order!Max, O!Max
<1>4. ASSUME NEW from, NEW tour
      PROVE  Order!TwoOpt(from, tour) = O!TwoOpt(from, tour)
  <2> DEFINE
      Here(m) == Order!FoldLeft(LAMBDA best, n : Order!TwoOptPass(from, best),
                                tour, [n \in 1 .. m |-> n])
      There(m) == O!FoldLeft(LAMBDA best, n : O!TwoOptPass(from, best),
                             tour, [n \in 1 .. m |-> n])
  <2>1. /\ Order!TwoOpt(from, tour) =
              IF Len(tour) < 4 THEN tour ELSE Here(Order!Length(from, tour))
        /\ O!TwoOpt(from, tour) =
              IF Len(tour) < 4 THEN tour ELSE There(O!Length(from, tour))
    BY Zenon DEF Order!TwoOpt, O!TwoOpt
  <2>2. \A m : Here(m) = There(m)
    BY <1>3, Zenon
    DEF Order!FoldLeft, O!FoldLeft, Order!MapThenFoldSet, O!MapThenFoldSet, Order!Max, O!Max
  <2> HIDE DEF Here, There
  <2> QED
    BY SameLength, <2>1, <2>2
<1>5. /\ \A seq, index : Order!FromGoogle(seq, index) = O!FromGoogle(seq, index)
      /\ \A seq : Order!Indexes(seq) = O!Indexes(seq)
      /\ \A array, n : Order!Counts(array, n) = O!Counts(array, n)
  BY Zenon
  DEF Order!FromGoogle, O!FromGoogle, Order!Front, O!Front, Order!Last, O!Last,
         Order!Indexes, O!Indexes, Order!Counts, O!Counts, Order!Range, O!Range
<1>6. \A seq, position : Order!FromMapbox(seq, position) = O!FromMapbox(seq, position)
  BY Zenon
  DEF Order!FromMapbox, O!FromMapbox, Order!FoldLeft, O!FoldLeft, Order!MapThenFoldSet,
         O!MapThenFoldSet, Order!Max, O!Max
<1> QED
  BY SameNearestNeighbour, <1>4, <1>5, <1>6
  DEF Order!Tours, O!Tours, Order!Fallback, O!Fallback

LEMMA OrderAnswers ==
    ASSUME NEW h
    PROVE  Order!Answered(h) => O!Answered(h)
BY SameTours, Zenon
DEF Order!Answered, O!Answered, Order!At, O!At, Order!Idle, O!Idle, Order!Moves, O!Moves,
    Order!world, O!world, Order!bounds, O!bounds

LEMMA OrderGoesOn == Order!Next => O!Next
BY OrderAnswers, ZenonT(120)
DEF Order!world, O!world, Order!bounds, O!bounds, Order!Idle, O!Idle, Order!At, O!At,
    Order!Moves, O!Moves, Order!Readings, O!Readings, Order!Guard, O!Guard, Order!Read,
    O!Read, Order!Count, O!Count, Order!CountFails, O!CountFails, Order!Load, O!Load,
    Order!SaveRun, O!SaveRun, Order!Number, O!Number, Order!Start, O!Start, Order!NextDay, O!NextDay, Order!Lose,
    O!Lose, Order!Continue, O!Continue, Order!Range, O!Range, Order!Next, O!Next

LEMMA OrderBehaves == OfficeSpec /\ scene = "stops" => O!Spec
<1>1. OfficeInit /\ scene = "stops" => O!Init
  BY OrderBegins DEF OfficeInit
<1>2. scene = "stops" /\ [OfficeNext]_officeVars =>
          (scene = "stops")' /\ [O!Next]_(O!vars)
  BY ScenesPlay, OrderGoesOn DEF stopVars, O!vars
<1> QED
  BY <1>1, <1>2, PTL DEF OfficeSpec, O!Spec

LEMMA StopsConstants == O!RoutingConstants
<1>1. IsFiniteSet({"s1", "s2", "s3", "s4"}) /\ IsFiniteSet(One)
  <2>1. \A S, x : IsFiniteSet(S) => IsFiniteSet(S \cup {x})
    BY FS_AddElement
  <2>2. IsFiniteSet({"s1"}) /\ IsFiniteSet(One)
    BY FS_Singleton DEF One
  <2>3. IsFiniteSet((({"s1"} \cup {"s2"}) \cup {"s3"}) \cup {"s4"})
    BY <2>1, <2>2, Zenon
  <2>4. {"s1", "s2", "s3", "s4"} = (({"s1"} \cup {"s2"}) \cup {"s3"}) \cup {"s4"}
    OBVIOUS
  <2> QED
    BY <2>2, <2>3, <2>4
<1>2. O!IsFiniteSet({"s1", "s2", "s3", "s4"}) /\ O!IsFiniteSet(One)
  BY <1>1 DEF IsFiniteSet, O!IsFiniteSet
<1>3. Arrays \subseteq Seq(Int)
  <2>1. ASSUME NEW m \in Nat, NEW array \in [1 .. m -> Int]
        PROVE  array \in Seq(Int) /\ <<0>> \o array \in Seq(Int)
    <3>1. array \in Seq(Int)
      OBVIOUS
    <3> QED
      BY <3>1
  <2>2. \A m \in Nat : [1 .. m -> 0 .. 3] \cup [1 .. m -> 1 .. 4] \subseteq [1 .. m -> Int]
    OBVIOUS
  <2>3. 0 .. 3 \subseteq Nat /\ 2 .. 4 \subseteq Nat
    OBVIOUS
  <2>4. \A m \in 0 .. 3 : [1 .. m -> 0 .. 3] \subseteq Seq(Int)
    BY <2>1, <2>2, <2>3
  <2>5. ASSUME NEW m \in 2 .. 4, NEW array \in [1 .. m -> 1 .. 4]
        PROVE  <<0>> \o array \in Seq(Int)
    <3>1. m \in Nat /\ array \in [1 .. m -> Int]
      BY <2>2, <2>3
    <3> QED
      BY <2>1, <3>1
  <2>6. \A m \in 2 .. 4 : {<<0>> \o array : array \in [1 .. m -> 1 .. 4]} \subseteq Seq(Int)
    BY <2>5, Zenon
  <2>7. UNION {[1 .. m -> 0 .. 3] : m \in 0 .. 3} \subseteq Seq(Int)
    BY <2>4, Zenon
  <2>8. UNION {{<<0>> \o array : array \in [1 .. m -> 1 .. 4]} : m \in 2 .. 4} \subseteq Seq(Int)
    BY <2>6, Zenon
  <2> QED
    BY <2>7, <2>8, Zenon DEF Arrays
<1> QED
  BY <1>2, <1>3 DEF O!RoutingConstants

\* An optimized run visits stops of its own, all of them and once each unless a service's
\* answer was used that is not what it promises, and each stop that was numbered is where
\* the saved sequence has it (OptimizationService.optimizeRun, the optimizers).
THEOREM StopsAreNumberedAsToured == OfficeSpec => []StopsFollowTheTour
<1>1. O!Serial /\ O!NullIsNoCall
  BY OfficeAssumption DEF O!Serial, O!NullIsNoCall, One
<1>2. O!Spec => []O!StopsFollowTheTour
  BY <1>1, O!NumbersFollowTheTour, StopsConstants
<1>3. /\ \A S : Order!Range(S) = O!Range(S)
      /\ \A tour : Order!IsInjective(tour) = O!IsInjective(tour)
      /\ \A sequence, s : Order!Follows(sequence, s) = O!Follows(sequence, s)
      /\ \A h, step : Order!At(h, step) = O!At(h, step)
  BY Zenon
  DEF Order!Range, O!Range, Order!IsInjective, O!IsInjective, Order!Follows, O!Follows,
      Order!At, O!At, Order!Idle, O!Idle
<1>4. O!TourOfItsStops => Order!TourOfItsStops
  BY <1>3, Zenon DEF Order!TourOfItsStops, O!TourOfItsStops
<1>5. O!NumbersFollowSequence => Order!NumbersFollowSequence
  BY <1>3, Zenon DEF Order!NumbersFollowSequence, O!NumbersFollowSequence
<1>6. O!StopsFollowTheTour \/ scene # "stops" => StopsFollowTheTour
  BY <1>4, <1>5 DEF StopsFollowTheTour, Order!StopsFollowTheTour, O!StopsFollowTheTour
<1> QED
  BY <1>2, <1>6, SceneLasts, OrderBehaves, PTL

\* nn_2opt is no longer than the tour of nearest neighbours that it starts from, and no
\* reversal of a segment makes it shorter (nearest-neighbor-2opt.optimizer.ts).
THEOREM TwoOptToursImprove == OfficeSpec => []TwoOptImproves
<1>1. O!Spec => []O!TwoOptImproves
  BY O!TwoOptEndsInALocalOptimum, StopsConstants
<1>2. \A tour, i, k : Order!Swapped(tour, i, k) = O!Swapped(tour, i, k)
  BY Zenon DEF Order!Swapped, O!Swapped
<1>3. O!TwoOptImproves \/ scene # "stops" => TwoOptImproves
  BY <1>2, SameLength, SameNearestNeighbour
  DEF TwoOptImproves, Order!TwoOptImproves, O!TwoOptImproves, Order!At, O!At, Order!Idle,
      O!Idle
<1> QED
  BY <1>1, <1>3, SceneLasts, OrderBehaves, PTL

LEMMA OrderTypesHold == OfficeSpec => [](scene = "stops" => Order!TypeOK)
<1>1. O!Spec => []O!TypeOK
  BY O!RoutingTypesHold, StopsConstants
<1>2. O!TypeOK => Order!TypeOK
  BY Zenon
  DEF Order!TypeOK, O!TypeOK, Order!Cardinality, O!Cardinality, Order!Run, O!Run
<1> QED
  BY <1>1, <1>2, OtherScenes, SceneLasts, OrderBehaves, PTL

-----------------------------------------------------------------------------
\* The services, two calls at a time.
X == INSTANCE ServicesProofs WITH
    Ids <- Pair, SearchRequests <- SearchRequests \cup RecordRequests

\* Accounts.
LEMMA MembersBegin == Members!Init => X!A!Init
BY Zenon DEF Members!Idle, X!A!Idle, Members!Init, X!A!Init

LEMMA MembersGoOn == Members!Next => X!A!Next
BY ZenonT(60)
DEF Members!Idle, X!A!Idle, Members!Rank, X!A!Rank, Members!Authenticated,
    X!A!Authenticated, Members!RoleOf, X!A!RoleOf, Members!Manages, X!A!Manages,
    Members!Present, X!A!Present, Members!Request, X!A!Request, Members!Hold, X!A!Hold,
    Members!Goto, X!A!Goto, Members!End, X!A!End, Members!Register, X!A!Register,
    Members!AcceptInvite, X!A!AcceptInvite, Members!CreateAuthUser, X!A!CreateAuthUser,
    Members!Commit, X!A!Commit, Members!RollBack, X!A!RollBack, Members!CleanUp,
    X!A!CleanUp, Members!Invite, X!A!Invite, Members!Insert, X!A!Insert, Members!Save,
    X!A!Save, Members!Load, X!A!Load, Members!Login, X!A!Login, Members!ResendCode,
    X!A!ResendCode, Members!VerifyEmail, X!A!VerifyEmail, Members!ForgotPassword,
    X!A!ForgotPassword, Members!ResetPassword, X!A!ResetPassword, Members!UpdateUser,
    X!A!UpdateUser, Members!UpdateRole, X!A!UpdateRole, Members!Deactivate, X!A!Deactivate,
    Members!Reactivate, X!A!Reactivate, Members!InviteDriver, X!A!InviteDriver,
    Members!Unlink, X!A!Unlink, Members!FindInvited, X!A!FindInvited, Members!Link,
    X!A!Link, Members!Crash, X!A!Crash, Members!Next, X!A!Next, Members!Cardinality,
    X!A!Cardinality

LEMMA MembersBehave == OfficeSpec => X!A!Spec
<1>1. OfficeInit => X!A!Init
  BY MembersBegin DEF OfficeInit
<1>2. [OfficeNext]_officeVars => [X!A!Next]_(X!A!vars)
  BY ScenesPlay, MembersGoOn DEF userVars, X!A!vars
<1> QED
  BY <1>1, <1>2, PTL DEF OfficeSpec, X!A!Spec

\* Referrals.
LEMMA RewardsBegin == Rewards!Init => X!W!Init
BY Zenon DEF Rewards!Idle, X!W!Idle, Rewards!Init, X!W!Init

LEMMA RewardsGoOn == Rewards!Next => X!W!Next
BY ZenonT(60)
DEF Rewards!Idle, X!W!Idle, Rewards!Registered, X!W!Registered, Rewards!Subscribed,
    X!W!Subscribed, Rewards!PendingReferral, X!W!PendingReferral, Rewards!Goto, X!W!Goto,
    Rewards!End, X!W!End, Rewards!Usable, X!W!Usable, Rewards!GenerateLink,
    X!W!GenerateLink, Rewards!ExpireLink, X!W!ExpireLink, Rewards!DeactivateLink,
    X!W!DeactivateLink, Rewards!Register, X!W!Register, Rewards!ApplyReferral,
    X!W!ApplyReferral, Rewards!SaveReferral, X!W!SaveReferral, Rewards!SaveLink,
    X!W!SaveLink, Rewards!SaveReferredBy, X!W!SaveReferredBy, Rewards!Subscribe,
    X!W!Subscribe, Rewards!CreateCheckout, X!W!CreateCheckout, Rewards!SaveCheckout,
    X!W!SaveCheckout, Rewards!PaymentEvent, X!W!PaymentEvent, Rewards!SavePayment,
    X!W!SavePayment, Rewards!Task, X!W!Task, Rewards!SaveInvoice, X!W!SaveInvoice,
    Rewards!Becomes, X!W!Becomes, Rewards!LoadReferral, X!W!LoadReferral,
    Rewards!SaveRewarded, X!W!SaveRewarded, Rewards!FindReferrer, X!W!FindReferrer,
    Rewards!SaveSubscription, X!W!SaveSubscription, Rewards!LoadRewarded, X!W!LoadRewarded,
    Rewards!TaskStep, X!W!TaskStep, Rewards!CrashCall, X!W!CrashCall, Rewards!CrashTask,
    X!W!CrashTask, Rewards!CallStep, X!W!CallStep, Rewards!Next, X!W!Next

LEMMA RewardsBehave == OfficeSpec => X!W!Spec
<1>1. OfficeInit => X!W!Init
  BY RewardsBegin DEF OfficeInit
<1>2. [OfficeNext]_officeVars => [X!W!Next]_(X!W!vars)
  BY ScenesPlay, RewardsGoOn DEF referralVars, X!W!vars
<1> QED
  BY <1>1, <1>2, PTL DEF OfficeSpec, X!W!Spec

\* Verification.
LEMMA ReviewsBegin == Reviews!Init => X!V!Init
BY Zenon
DEF Reviews!ServiceTypes, X!V!ServiceTypes, Reviews!Idle, X!V!Idle, Reviews!Init, X!V!Init

LEMMA ReviewsGoOn == Reviews!Next => X!V!Next
BY ZenonT(60)
DEF Reviews!ServiceTypes, X!V!ServiceTypes, Reviews!TierCodes, X!V!TierCodes, Reviews!Idle,
    X!V!Idle, Reviews!Request, X!V!Request, Reviews!Hold, X!V!Hold, Reviews!End, X!V!End,
    Reviews!Existing, X!V!Existing, Reviews!UpdateCompany, X!V!UpdateCompany,
    Reviews!RemoveCompany, X!V!RemoveCompany, Reviews!Create, X!V!Create, Reviews!Submit,
    X!V!Submit, Reviews!Review, X!V!Review, Reviews!Activate, X!V!Activate, Reviews!Save,
    X!V!Save, Reviews!SaveCompany, X!V!SaveCompany, Reviews!SoftRemoveCompany,
    X!V!SoftRemoveCompany, Reviews!Expire, X!V!Expire, Reviews!Crash, X!V!Crash,
    Reviews!CompanyStatuses, X!V!CompanyStatuses, Reviews!UpdateCompanyByAdmin,
    X!V!UpdateCompanyByAdmin, Reviews!Next, X!V!Next

LEMMA ReviewsBehave == OfficeSpec /\ scene # "review" => X!V!Spec
<1>1. OfficeInit /\ scene # "review" => X!V!Init
  BY ReviewsBegin DEF OfficeInit
<1>2. scene # "review" /\ [OfficeNext]_officeVars =>
          (scene # "review")' /\ [X!V!Next]_(X!V!vars)
  BY ScenesPlay, ReviewsGoOn DEF reviewVars, X!V!vars
<1> QED
  BY <1>1, <1>2, PTL DEF OfficeSpec, X!V!Spec

\* Chat.
LEMMA TalkBegins == Talk!Init => X!C!Init
BY Zenon DEF Talk!Init, X!C!Init

LEMMA TalkGoesOn == Talk!Next => X!C!Next
BY ZenonT(60)
DEF Talk!NewConversation, X!C!NewConversation, Talk!Idle, X!C!Idle, Talk!At, X!C!At,
    Talk!Ends, X!C!Ends, Talk!Opens, X!C!Opens, Talk!Listed, X!C!Listed, Talk!SaveLater,
    X!C!SaveLater, Talk!Existing, X!C!Existing, Talk!Create, X!C!Create, Talk!Insert,
    X!C!Insert, Talk!Edit, X!C!Edit, Talk!Hide, X!C!Hide, Talk!Leave, X!C!Leave, Talk!Save,
    X!C!Save, Talk!Send, X!C!Send, Talk!InsertMessage, X!C!InsertMessage, Talk!SavePreview,
    X!C!SavePreview, Talk!Emit, X!C!Emit, Talk!MarkAsRead, X!C!MarkAsRead,
    Talk!DeleteMessage, X!C!DeleteMessage, Talk!Join, X!C!Join, Talk!LeaveRoom,
    X!C!LeaveRoom, Talk!Disconnect, X!C!Disconnect, Talk!ReadNotifications,
    X!C!ReadNotifications, Talk!DeleteNotifications, X!C!DeleteNotifications, Talk!Lose,
    X!C!Lose, Talk!Continue, X!C!Continue, Talk!Next, X!C!Next, Talk!Cardinality,
    X!C!Cardinality

LEMMA TalkBehaves == OfficeSpec /\ scene # "room" => X!C!Spec
<1>1. OfficeInit /\ scene # "room" => X!C!Init
  BY TalkBegins DEF OfficeInit
<1>2. scene # "room" /\ [OfficeNext]_officeVars =>
          (scene # "room")' /\ [X!C!Next]_(X!C!vars)
  BY ScenesPlay, TalkGoesOn DEF chatVars, X!C!vars
<1> QED
  BY <1>1, <1>2, PTL DEF OfficeSpec, X!C!Spec

\* Places.
LEMMA SearchesBegin == Searches!Init => X!G!Init
BY Zenon DEF Searches!Keys, X!G!Keys, Searches!Init, X!G!Init

LEMMA SearchesGoOn == Searches!Next => X!G!Next
BY ZenonT(60)
DEF SearchRequests, RecordRequests, Searches!geo, X!G!geo, Searches!Questions, X!G!Questions,
Searches!Key, X!G!Key,
    Searches!Keys, X!G!Keys, Searches!RouteStatuses, X!G!RouteStatuses, Searches!Idle,
    X!G!Idle, Searches!At, X!G!At, Searches!Moves, X!G!Moves, Searches!Given, X!G!Given,
    Searches!Ask, X!G!Ask, Searches!Answered, X!G!Answered, Searches!Fill, X!G!Fill,
    Searches!Expire, X!G!Expire, Searches!NewEdition, X!G!NewEdition,
    Searches!LiveAddresses, X!G!LiveAddresses, Searches!Holds, X!G!Holds,
    Searches!SaveAddress, X!G!SaveAddress, Searches!EditAddress, X!G!EditAddress,
    Searches!StoreAddress, X!G!StoreAddress, Searches!RemoveAddress, X!G!RemoveAddress,
    Searches!LiveRoutes, X!G!LiveRoutes, Searches!AddRoute, X!G!AddRoute,
    Searches!DuplicateRoute, X!G!DuplicateRoute, Searches!EditRoute, X!G!EditRoute,
    Searches!StoreRoute, X!G!StoreRoute, Searches!RemoveRoute, X!G!RemoveRoute,
    Searches!Lose, X!G!Lose, Searches!Next, X!G!Next

LEMMA RecordsGoOn == Records!Next => X!G!Next
BY ZenonT(60)
DEF SearchRequests, RecordRequests, Records!geo, X!G!geo, Records!Questions, X!G!Questions,
Records!Key, X!G!Key,
    Records!Keys, X!G!Keys, Records!RouteStatuses, X!G!RouteStatuses, Records!Idle,
    X!G!Idle, Records!At, X!G!At, Records!Moves, X!G!Moves, Records!Given, X!G!Given,
    Records!Ask, X!G!Ask, Records!Answered, X!G!Answered, Records!Fill, X!G!Fill,
    Records!Expire, X!G!Expire, Records!NewEdition, X!G!NewEdition, Records!LiveAddresses,
    X!G!LiveAddresses, Records!Holds, X!G!Holds, Records!SaveAddress, X!G!SaveAddress,
    Records!EditAddress, X!G!EditAddress, Records!StoreAddress, X!G!StoreAddress,
    Records!RemoveAddress, X!G!RemoveAddress, Records!LiveRoutes, X!G!LiveRoutes,
    Records!AddRoute, X!G!AddRoute, Records!DuplicateRoute, X!G!DuplicateRoute,
    Records!EditRoute, X!G!EditRoute, Records!StoreRoute, X!G!StoreRoute,
    Records!RemoveRoute, X!G!RemoveRoute, Records!Lose, X!G!Lose, Records!Next, X!G!Next

LEMMA PlacesBehave == OfficeSpec => X!G!Spec
<1>1. OfficeInit => X!G!Init
  BY SearchesBegin DEF OfficeInit
<1>2. [OfficeNext]_officeVars => [X!G!Next]_(X!G!vars)
  BY ScenesPlay, SearchesGoOn, RecordsGoOn DEF placeVars, X!G!vars
<1> QED
  BY <1>1, <1>2, PTL DEF OfficeSpec, X!G!Spec

\* Tracking.
LEMMA RoadBegins == Road!Init => X!T!Init
BY ZenonT(60) DEF Road!Init, X!T!Init

LEMMA RoadBroadcasts ==
    ASSUME NEW h, Road!Broadcast(h)
    PROVE  X!T!Broadcast(h)
BY SMTT(60)
DEF Road!alarm, X!T!alarm, Road!inbox, X!T!inbox, Road!online, X!T!online, Road!Idle,
    X!T!Idle, Road!At, X!T!At, Road!Broadcast, X!T!Broadcast

LEMMA RoadGoesOn == Road!Next => X!T!Next
BY RoadBroadcasts, ZenonT(120)
DEF Road!phone, X!T!phone, Road!alarm, X!T!alarm, Road!inbox, X!T!inbox, Road!online,
    X!T!online, Road!Place, X!T!Place, Road!Rooms, X!T!Rooms, Road!Idle, X!T!Idle, Road!At,
    X!T!At, Road!Ends, X!T!Ends, Road!PointRooms, X!T!PointRooms, Road!Report, X!T!Report,
    Road!ReportBulk, X!T!ReportBulk, Road!Alerting, X!T!Alerting, Road!FindNear,
    X!T!FindNear, Road!MarkAlerted, X!T!MarkAlerted, Road!Alert, X!T!Alert,
    Road!LoadShipment, X!T!LoadShipment, Road!SaveShipment, X!T!SaveShipment, Road!Notify,
    X!T!Notify, Road!LoadTokens, X!T!LoadTokens, Road!SendPush, X!T!SendPush,
    Road!RegisterToken, X!T!RegisterToken, Road!RemoveToken, X!T!RemoveToken, Road!Connect,
    X!T!Connect, Road!Watch, X!T!Watch, Road!Disconnect, X!T!Disconnect, Road!SuspendUser,
    X!T!SuspendUser, Road!Lose, X!T!Lose, Road!LosePush, X!T!LosePush, Road!Next, X!T!Next,
    Road!Cardinality, X!T!Cardinality

LEMMA RoadBehaves == OfficeSpec /\ scene # "watch" => X!T!Spec
<1>1. OfficeInit /\ scene # "watch" => X!T!Init
  BY RoadBegins DEF OfficeInit
<1>2. scene # "watch" /\ [OfficeNext]_officeVars =>
          (scene # "watch")' /\ [X!T!Next]_(X!T!vars)
  BY ScenesPlay, RoadGoesOn DEF trackingVars, X!T!vars
<1> QED
  BY <1>1, <1>2, PTL DEF OfficeSpec, X!T!Spec

LEMMA OverlappingConstants ==
    /\ X!AccountsConstants /\ X!ReferralsConstants /\ X!VerificationConstants
    /\ X!NoStaleCompany /\ X!TrackingConstants /\ X!ChatConstants
<1>1. X!A!UserRow = Members!UserRow
  BY DEF Members!UserRow, X!A!UserRow, Members!Statuses, X!A!Statuses
<1>2. /\ X!W!LinkRow = Rewards!LinkRow
      /\ X!W!Referral = Rewards!Referral
      /\ X!W!Subscription = Rewards!Subscription
  BY DEF Rewards!LinkRow, X!W!LinkRow, Rewards!Referral, X!W!Referral,
         Rewards!ReferralStatuses, X!W!ReferralStatuses,
         Rewards!Subscription, X!W!Subscription
<1>3. X!V!VerificationRow = Reviews!VerificationRow /\ X!V!Company = Reviews!Company
  BY DEF Reviews!VerificationRow, X!V!VerificationRow, Reviews!TierCodes, X!V!TierCodes,
         Reviews!Company, X!V!Company, Reviews!ServiceTypes, X!V!ServiceTypes,
         Reviews!CompanyStatuses, X!V!CompanyStatuses
<1>4. X!AccountsConstants
  BY <1>1, OfficeAssumption
  DEF X!AccountsConstants, AccountUsers, Owner, Roles, MaxUids, MaxUserLost
<1>5. X!ReferralsConstants
  BY <1>2, OfficeAssumption DEF X!ReferralsConstants
<1>6. X!VerificationConstants /\ X!NoStaleCompany
  BY <1>3, OfficeAssumption
  DEF X!VerificationConstants, X!NoStaleCompany, MaxLost, ReviewRequests
<1>7. X!TrackingConstants
  BY OfficeAssumption, FleetAssumption
  DEF X!TrackingConstants, Followers, IsFiniteSet, X!IsFiniteSet
<1> QED
  BY <1>4, <1>5, <1>6, <1>7 DEF X!ChatConstants, MaxConversations, MaxMessages

\* A profile that names an account finds it in Supabase Auth, whatever requests of the
\* members overlap, crash or are rolled back (AuthService, UsersService).
THEOREM MembersHaveTheirAccounts == OfficeSpec => []ProfileHasAccount
<1>1. X!A!Spec => []X!A!ProfileHasAccount
  BY X!ProfilesKeepTheirAccounts, OverlappingConstants
<1>2. X!A!ProfileHasAccount => ProfileHasAccount
  BY DEF ProfileHasAccount, Members!Present, X!A!Present, Members!ProfileHasAccount,
         X!A!ProfileHasAccount
<1> QED
  BY <1>1, <1>2, MembersBehave, PTL

\* The company stays with the person who registered it, whatever the others request at
\* the same time (UsersService).
THEOREM OwnersStayInCharge == OfficeSpec => []OwnerInCharge
<1>1. X!A!Spec => []X!A!OwnerInCharge
  BY X!OwnerStaysInCharge, OverlappingConstants
<1>2. X!A!OwnerInCharge => OwnerInCharge
  BY DEF OwnerInCharge, Members!Present, X!A!Present, Members!OwnerInCharge,
         X!A!OwnerInCharge
<1> QED
  BY <1>1, <1>2, MembersBehave, PTL

\* A discount on a subscription follows a payment of a company that was referred, also
\* when webhooks and registrations overlap (ReferralsService).
THEOREM RewardsAreEarned == OfficeSpec => []DiscountIsEarned
<1>1. X!W!Spec => []X!W!DiscountIsEarned
  BY X!DiscountsAreEarned, OverlappingConstants
<1>2. X!W!DiscountIsEarned => DiscountIsEarned
  BY DEF DiscountIsEarned, Rewards!Subscribed, X!W!Subscribed, Rewards!PendingReferral,
         X!W!PendingReferral, Rewards!DiscountIsEarned, X!W!DiscountIsEarned
<1> QED
  BY <1>1, <1>2, RewardsBehave, PTL

\* An approval that is stored has activated its company, whatever reviews, removals and
\* crashes overlap (VerificationService.review).
THEOREM ApprovalsActivate == OfficeSpec => []ApprovalActivates
<1> DEFINE Activates == "admin" \in ReviewRequests \/ X!V!ApprovalActivates
<1>1. X!V!Spec => [](X!V!TypeOK /\ Activates)
  BY X!ApprovalStaysActive, OverlappingConstants
<1>2. Activates \/ scene = "review" => ApprovalActivates
  BY DEF ApprovalActivates, Reviews!Existing, X!V!Existing, Reviews!Approved, X!V!Approved,
         Reviews!ApprovalActivates, X!V!ApprovalActivates, ReviewRequests
<1> HIDE DEF Activates
<1> QED
  BY <1>1, <1>2, SceneLasts, ReviewsBehave, PTL

\* A cached answer is to the question that was asked, whatever searches overlap and
\* whatever the provider's data has become (GeocodingService).
THEOREM SearchesAreAnswered == OfficeSpec => []AnswersTheQuestion
<1>1. X!G!Spec => []X!G!AnswersTheQuestion
  BY X!AnswersAreToTheQuestion
<1>2. X!G!AnswersTheQuestion \/ scene # "places" => AnswersTheQuestion
  BY DEF AnswersTheQuestion, Searches!AnswersTheQuestion, X!G!AnswersTheQuestion
<1> QED
  BY <1>1, <1>2, PlacesBehave, PTL

LEMMA MembersTypesHold == OfficeSpec => [](scene = "accounts" => Members!TypeOK)
<1>1. X!A!Spec => []X!A!TypeOK
  BY X!AccountsTypesHold, OverlappingConstants
<1>2. X!A!TypeOK => Members!TypeOK
  BY Zenon
  DEF Members!TypeOK, X!A!TypeOK, Members!Call, X!A!Call, Members!UserRow, X!A!UserRow,
      Members!Statuses, X!A!Statuses, Members!Steps, X!A!Steps
<1> QED
  BY <1>1, <1>2, MembersBehave, PTL

LEMMA ReviewsTypesHold == OfficeSpec => [](scene = "reviews" => Reviews!TypeOK)
<1> DEFINE Activates == "admin" \in ReviewRequests \/ X!V!ApprovalActivates
<1>1. X!V!Spec => [](X!V!TypeOK /\ Activates)
  BY X!ApprovalStaysActive, OverlappingConstants
<1>2. X!V!TypeOK => Reviews!TypeOK
  BY Zenon
  DEF Reviews!TypeOK, X!V!TypeOK, Reviews!Call, X!V!Call, Reviews!Company, X!V!Company,
      Reviews!ServiceTypes, X!V!ServiceTypes, Reviews!VerificationRow, X!V!VerificationRow,
      Reviews!TierCodes, X!V!TierCodes, Reviews!CompanyStatuses, X!V!CompanyStatuses
<1>3. scene = "reviews" => scene # "review"
  OBVIOUS
<1> QED
  BY <1>1, <1>2, <1>3, OtherScenes, SceneLasts, ReviewsBehave, PTL

LEMMA TalkTypesHold == OfficeSpec => [](scene = "chat" => Talk!TypeOK)
<1>1. X!C!Spec => []X!C!TypeOK
  BY X!ChatTypesHold, OverlappingConstants
<1>2. X!C!TypeOK => Talk!TypeOK
  BY Zenon
  DEF Talk!TypeOK, X!C!TypeOK, Talk!Message, X!C!Message, Talk!Conversation,
      X!C!Conversation
<1>3. scene = "chat" => scene # "room"
  OBVIOUS
<1> QED
  BY <1>1, <1>2, <1>3, OtherScenes, SceneLasts, TalkBehaves, PTL

LEMMA RoadTypesHold == OfficeSpec => [](scene = "alerts" => Road!TypeOK)
<1>1. X!T!Spec => []X!T!TypeOK
  BY X!TrackingTypesHold, OverlappingConstants
<1>2. X!T!TypeOK => Road!TypeOK
  BY Zenon
  DEF Road!TypeOK, X!T!TypeOK, Road!PushToken, X!T!PushToken, Road!Notification,
      X!T!Notification, Road!Shipment, X!T!Shipment
<1>3. scene = "alerts" => scene # "watch"
  OBVIOUS
<1> QED
  BY <1>1, <1>2, <1>3, OtherScenes, SceneLasts, RoadBehaves, PTL

LEMMA SearchesTypesHold == OfficeSpec => [](scene = "places" => Searches!TypeOK)
<1>1. X!G!Spec => []X!G!TypeOK
  BY X!PlacesTypesHold
<1>2. X!G!TypeOK => Searches!TypeOK
  BY Zenon
  DEF Searches!TypeOK, X!G!TypeOK, Searches!RouteStatuses, X!G!RouteStatuses,
      Searches!Questions, X!G!Questions, Searches!Keys, X!G!Keys
<1> QED
  BY <1>1, <1>2, PlacesBehave, PTL

LEMMA RecordsTypesHold == OfficeSpec => [](scene = "records" => Records!TypeOK)
<1>1. X!G!Spec => []X!G!TypeOK
  BY X!PlacesTypesHold
<1>2. X!G!TypeOK => Records!TypeOK
  BY Zenon
  DEF Records!TypeOK, X!G!TypeOK, Records!RouteStatuses, X!G!RouteStatuses,
      Records!Questions, X!G!Questions, Records!Keys, X!G!Keys
<1> QED
  BY <1>1, <1>2, PlacesBehave, PTL

-----------------------------------------------------------------------------
\* The services, one request after the other.
Y == INSTANCE ServicesProofs WITH
    Handlers <- One, ReviewRequests <- DeskRequests, TalkRequests <- RoomRequests,
    TrackingRequests <- WatchRequests, MaxPoints <- 2, MaxResets <- 0, MaxMessages <- 1,
    MaxChatLost <- MaxLost

\* Verification, expenses and relations between companies.
LEMMA ReviewBegins == Review!Init => Y!V!Init
BY Zenon
DEF Review!ServiceTypes, Y!V!ServiceTypes, Review!Idle, Y!V!Idle, Review!Init, Y!V!Init

LEMMA ReviewGoesOn == Review!Next => Y!V!Next
BY ZenonT(60)
DEF Review!ServiceTypes, Y!V!ServiceTypes, Review!TierCodes, Y!V!TierCodes, Review!Idle,
    Y!V!Idle, Review!Request, Y!V!Request, Review!Hold, Y!V!Hold, Review!End, Y!V!End,
    Review!Existing, Y!V!Existing, Review!UpdateCompany, Y!V!UpdateCompany,
    Review!RemoveCompany, Y!V!RemoveCompany, Review!Create, Y!V!Create, Review!Submit,
    Y!V!Submit, Review!Review, Y!V!Review, Review!Activate, Y!V!Activate, Review!Save,
    Y!V!Save, Review!SaveCompany, Y!V!SaveCompany, Review!SoftRemoveCompany,
    Y!V!SoftRemoveCompany, Review!Expire, Y!V!Expire, Review!Crash, Y!V!Crash,
    Review!CompanyStatuses, Y!V!CompanyStatuses, Review!UpdateCompanyByAdmin,
    Y!V!UpdateCompanyByAdmin, Review!Next, Y!V!Next

LEMMA ReviewBehaves == OfficeSpec /\ scene = "review" => Y!V!Spec
<1>1. OfficeInit /\ scene = "review" => Y!V!Init
  BY ReviewBegins DEF OfficeInit
<1>2. scene = "review" /\ [OfficeNext]_officeVars =>
          (scene = "review")' /\ [Y!V!Next]_(Y!V!vars)
  BY ScenesPlay, ReviewGoesOn DEF reviewVars, Y!V!vars
<1> QED
  BY <1>1, <1>2, PTL DEF OfficeSpec, Y!V!Spec

LEMMA CostsBegin == Costs!Init => Y!E!Init
BY Zenon DEF Costs!Idle, Y!E!Idle, Costs!Init, Y!E!Init

LEMMA CostsGoOn == Costs!Next => Y!E!Next
BY ZenonT(60)
DEF Costs!Idle, Y!E!Idle, Costs!Found, Y!E!Found, Costs!Creates, Y!E!Creates, Costs!Edits,
    Y!E!Edits, Costs!Decides, Y!E!Decides, Costs!Reimburses, Y!E!Reimburses,
    Costs!IsNotified, Y!E!IsNotified, Costs!Reaches, Y!E!Reaches, Costs!Hold, Y!E!Hold,
    Costs!End, Y!E!End, Costs!Create, Y!E!Create, Costs!Update, Y!E!Update, Costs!Decide,
    Y!E!Decide, Costs!Reimburse, Y!E!Reimburse, Costs!Remove, Y!E!Remove, Costs!Insert,
    Y!E!Insert, Costs!Save, Y!E!Save, Costs!SoftRemove, Y!E!SoftRemove, Costs!Notify,
    Y!E!Notify, Costs!Crash, Y!E!Crash, Costs!Next, Y!E!Next

LEMMA CostsBehave == OfficeSpec => Y!E!Spec
<1>1. OfficeInit => Y!E!Init
  BY CostsBegin DEF OfficeInit
<1>2. [OfficeNext]_officeVars => [Y!E!Next]_(Y!E!vars)
  BY ScenesPlay, CostsGoOn DEF expenseVars, Y!E!vars
<1> QED
  BY <1>1, <1>2, PTL DEF OfficeSpec, Y!E!Spec

LEMMA PartnersBegin == Partners!Init => Y!R!Init
BY Zenon DEF Partners!Idle, Y!R!Idle, Partners!Init, Y!R!Init

LEMMA PartnersGoOn == Partners!Next => Y!R!Next
BY ZenonT(60)
DEF Partners!Idle, Y!R!Idle, Partners!Hold, Y!R!Hold, Partners!Create, Y!R!Create,
    Partners!Respond, Y!R!Respond, Partners!Terminate, Y!R!Terminate, Partners!Save,
    Y!R!Save, Partners!AddLog, Y!R!AddLog, Partners!Crash, Y!R!Crash, Partners!Next,
    Y!R!Next

LEMMA PartnersBehave == OfficeSpec => Y!R!Spec
<1>1. OfficeInit => Y!R!Init
  BY PartnersBegin DEF OfficeInit
<1>2. [OfficeNext]_officeVars => [Y!R!Next]_(Y!R!vars)
  BY ScenesPlay, PartnersGoOn DEF relationVars, Y!R!vars
<1> QED
  BY <1>1, <1>2, PTL DEF OfficeSpec, Y!R!Spec

\* Chat.
LEMMA RoomBegins == Room!Init => Y!C!Init
BY Zenon DEF Room!Init, Y!C!Init

LEMMA RoomGoesOn == Room!Next => Y!C!Next
BY ZenonT(60)
DEF Room!NewConversation, Y!C!NewConversation, Room!Idle, Y!C!Idle, Room!At, Y!C!At,
    Room!Ends, Y!C!Ends, Room!Opens, Y!C!Opens, Room!Listed, Y!C!Listed, Room!SaveLater,
    Y!C!SaveLater, Room!Existing, Y!C!Existing, Room!Create, Y!C!Create, Room!Insert,
    Y!C!Insert, Room!Edit, Y!C!Edit, Room!Hide, Y!C!Hide, Room!Leave, Y!C!Leave, Room!Save,
    Y!C!Save, Room!Send, Y!C!Send, Room!InsertMessage, Y!C!InsertMessage, Room!SavePreview,
    Y!C!SavePreview, Room!Emit, Y!C!Emit, Room!MarkAsRead, Y!C!MarkAsRead,
    Room!DeleteMessage, Y!C!DeleteMessage, Room!Join, Y!C!Join, Room!LeaveRoom,
    Y!C!LeaveRoom, Room!Disconnect, Y!C!Disconnect, Room!ReadNotifications,
    Y!C!ReadNotifications, Room!DeleteNotifications, Y!C!DeleteNotifications, Room!Lose,
    Y!C!Lose, Room!Continue, Y!C!Continue, Room!Next, Y!C!Next, Room!Cardinality,
    Y!C!Cardinality, MaxChatLost

LEMMA RoomBehaves == OfficeSpec /\ scene = "room" => Y!C!Spec
<1>1. OfficeInit /\ scene = "room" => Y!C!Init
  BY RoomBegins DEF OfficeInit
<1>2. scene = "room" /\ [OfficeNext]_officeVars =>
          (scene = "room")' /\ [Y!C!Next]_(Y!C!vars)
  BY ScenesPlay, RoomGoesOn DEF chatVars, Y!C!vars
<1> QED
  BY <1>1, <1>2, PTL DEF OfficeSpec, Y!C!Spec

\* Tracking.
LEMMA WatchedBegins == Watched!Init => Y!T!Init
BY ZenonT(60) DEF Watched!Init, Y!T!Init

LEMMA WatchedBroadcasts ==
    ASSUME NEW h, Watched!Broadcast(h)
    PROVE  Y!T!Broadcast(h)
BY SMTT(60)
DEF Watched!alarm, Y!T!alarm, Watched!inbox, Y!T!inbox, Watched!online, Y!T!online,
    Watched!Idle, Y!T!Idle, Watched!At, Y!T!At, Watched!Broadcast, Y!T!Broadcast

LEMMA WatchedGoesOn == Watched!Next => Y!T!Next
BY WatchedBroadcasts, ZenonT(120)
DEF Watched!phone, Y!T!phone, Watched!alarm, Y!T!alarm, Watched!inbox, Y!T!inbox,
    Watched!online, Y!T!online, Watched!Place, Y!T!Place, Watched!Rooms, Y!T!Rooms,
    Watched!Idle, Y!T!Idle, Watched!At, Y!T!At, Watched!Ends, Y!T!Ends, Watched!PointRooms,
    Y!T!PointRooms, Watched!Report, Y!T!Report, Watched!ReportBulk, Y!T!ReportBulk,
    Watched!Alerting, Y!T!Alerting, Watched!FindNear, Y!T!FindNear, Watched!MarkAlerted,
    Y!T!MarkAlerted, Watched!Alert, Y!T!Alert, Watched!LoadShipment, Y!T!LoadShipment,
    Watched!SaveShipment, Y!T!SaveShipment, Watched!Notify, Y!T!Notify, Watched!LoadTokens,
    Y!T!LoadTokens, Watched!SendPush, Y!T!SendPush, Watched!RegisterToken,
    Y!T!RegisterToken, Watched!RemoveToken, Y!T!RemoveToken, Watched!Connect, Y!T!Connect,
    Watched!Watch, Y!T!Watch, Watched!Disconnect, Y!T!Disconnect, Watched!SuspendUser,
    Y!T!SuspendUser, Watched!Lose, Y!T!Lose, Watched!LosePush, Y!T!LosePush, Watched!Next,
    Y!T!Next, Watched!Cardinality, Y!T!Cardinality

LEMMA WatchedBehaves == OfficeSpec /\ scene = "watch" => Y!T!Spec
<1>1. OfficeInit /\ scene = "watch" => Y!T!Init
  BY WatchedBegins DEF OfficeInit
<1>2. scene = "watch" /\ [OfficeNext]_officeVars =>
          (scene = "watch")' /\ [Y!T!Next]_(Y!T!vars)
  BY ScenesPlay, WatchedGoesOn DEF trackingVars, Y!T!vars
<1> QED
  BY <1>1, <1>2, PTL DEF OfficeSpec, Y!T!Spec

LEMMA SerialConstants ==
    /\ Y!Serial /\ Y!VerificationConstants /\ Y!ExpensesConstants
    /\ Y!TrackingConstants /\ Y!ChatConstants
<1>1. Y!E!Row = Costs!Row
  BY DEF Costs!Row, Y!E!Row, Costs!Statuses, Y!E!Statuses
<1>2. Y!V!VerificationRow = Reviews!VerificationRow /\ Y!V!Company = Reviews!Company
  BY DEF Reviews!VerificationRow, Y!V!VerificationRow, Reviews!TierCodes, Y!V!TierCodes,
         Reviews!Company, Y!V!Company, Reviews!ServiceTypes, Y!V!ServiceTypes,
         Reviews!CompanyStatuses, Y!V!CompanyStatuses
<1>3. Y!VerificationConstants /\ Y!ExpensesConstants
  BY <1>1, <1>2, OfficeAssumption
  DEF Y!VerificationConstants, Y!ExpensesConstants, MaxLost
<1>4. Y!TrackingConstants
  <2>1. IsFiniteSet(One)
    BY FS_Singleton DEF One
  <2> QED
    BY <2>1, OfficeAssumption
    DEF Y!TrackingConstants, Followers, IsFiniteSet, Y!IsFiniteSet
<1> QED
  BY <1>3, <1>4 DEF Y!Serial, One, Y!ChatConstants, MaxConversations

\* Reviews one after the other: the right to operate ends with time, with a removal or
\* with a new kind of service, and is gained with the kind of service or while the company
\* is active (VerificationsService, CompaniesService, ComplianceService).
THEOREM RightIsDecided == OfficeSpec => RightToOperate
<1>1. Y!V!Spec => [][Y!V!OperatesWithCause]_(Y!V!vars)
  BY Y!RightIsGivenWithCause, SerialConstants, PTL DEF Y!V!RightToOperate
<1>2. Y!V!CanOperate = Review!CanOperate /\ Y!V!CanOperate' = Review!CanOperate'
  BY ZenonT(60)
  DEF Review!Existing, Y!V!Existing, Review!RequiredTier, Y!V!RequiredTier,
      Review!Approved, Y!V!Approved, Review!CanOperate, Y!V!CanOperate,
      Review!HasApprovedTier, Y!V!HasApprovedTier
<1>3. ASSUME [Y!V!OperatesWithCause]_(Y!V!vars)
      PROVE  [scene = "review" => Review!OperatesWithCause]_officeVars
  <2>1. CASE Y!V!OperatesWithCause
    BY <2>1, <1>2, Zenon
    DEF Review!Existing, Y!V!Existing, Review!Approved, Y!V!Approved,
        Review!OperatesWithCause, Y!V!OperatesWithCause
  <2>2. CASE UNCHANGED Y!V!vars
    <3>1. company' = company /\ verifications' = verifications
      BY <2>2 DEF Y!V!vars
    <3>2. Review!CanOperate' = Review!CanOperate
      BY <3>1
      DEF Review!Existing, Review!RequiredTier, Review!Approved, Review!CanOperate,
          Review!HasApprovedTier
    <3> QED
      BY <3>2 DEF Review!OperatesWithCause
  <2> QED
    BY <1>3, <2>1, <2>2
<1>4. (scene # "review") =>
          [scene = "review" => Review!OperatesWithCause]_officeVars
  OBVIOUS
<1> QED
  BY <1>1, <1>3, <1>4, SceneLasts, ReviewBehaves, PTL DEF RightToOperate

\* The recipient of a shipment is alerted once per call in flight and stale save,
\* in either scene of the driver's points (ProximityAlertService).
THEOREM RecipientsAreAlertedOnce == OfficeSpec => []AlertedOnce
<1> DEFINE Counted == \A s \in Shipments : /\ alerts[s] \in Nat /\ resets[s] \in Nat
                                          /\ alerts[s] <= 1 + resets[s]
<1>1. X!T!Spec => []X!T!AlertedOnce
  BY X!RecipientIsAlertedOnce, OverlappingConstants
<1>2. Y!T!Spec => []Counted
  BY Y!SerialRecipientIsAlertedOnce, SerialConstants DEF One
<1>3. X!T!AlertedOnce => AlertedOnce
  <2>1. Road!Cardinality(Handlers) = X!T!Cardinality(Handlers)
    BY Zenon DEF Road!Cardinality, X!T!Cardinality
  <2> QED
    BY <2>1 DEF AlertedOnce, Road!AlertedOnce, X!T!AlertedOnce
<1>4. Counted => AlertedOnce
  <2>0. Road!Cardinality(Handlers) = Cardinality(Handlers)
    BY Zenon DEF Road!Cardinality, Cardinality
  <2> SUFFICES ASSUME Counted, NEW s \in Shipments
               PROVE  alerts[s] <= Cardinality(Handlers) * (1 + resets[s])
    BY <2>0 DEF AlertedOnce, Road!AlertedOnce
  <2> DEFINE n == Cardinality(Handlers)
  <2>1. n \in Nat \ {0} /\ 1 + resets[s] \in Nat
    BY FleetAssumption, FS_CardinalityType, FS_EmptySet
  <2> HIDE DEF n
  <2>2. 1 + resets[s] <= n * (1 + resets[s])
    BY <2>1, X!FactorGrows
  <2>3. n * (1 + resets[s]) \in Nat
    BY <2>1
  <2>4. alerts[s] <= n * (1 + resets[s])
    BY <2>1, <2>2, <2>3
  <2> QED
    BY <2>4 DEF n
<1>5. scene = "watch" \/ scene # "watch"
  OBVIOUS
<1> HIDE DEF Counted
<1> QED
  BY <1>1, <1>2, <1>3, <1>4, <1>5, RoadBehaves, WatchedBehaves, PTL

\* What a member has read stays read in either scene of the chat, whoever reads, sends,
\* hides, deletes and leaves (ChatService.markAsRead).
THEOREM ReadersKeepTheirMarks == OfficeSpec => ReadStaysRead
<1>1. X!C!Spec => X!C!ReadStaysRead
  BY X!ReadMessagesStayRead, OverlappingConstants
<1>2. Y!C!Spec => Y!C!ReadStaysRead
  BY Y!ReadMessagesStayRead, SerialConstants
<1> DEFINE Keeps ==
      \A m \in DOMAIN messages : messages[m].readBy \subseteq messages'[m].readBy
<1>3. /\ X!C!ReadStaysRead <=> [][Keeps]_(X!C!vars)
      /\ Y!C!ReadStaysRead <=> [][Keeps]_(Y!C!vars)
      /\ ReadStaysRead <=> [][Keeps]_(Talk!vars)
  BY DEF X!C!ReadStaysRead, Y!C!ReadStaysRead, ReadStaysRead, Talk!ReadStaysRead
<1>4. [Keeps]_(X!C!vars) \/ [Keeps]_(Y!C!vars) => [Keeps]_(Talk!vars)
  BY DEF X!C!vars, Y!C!vars, Talk!vars
<1>5. scene = "room" \/ scene # "room"
  OBVIOUS
<1> QED
  BY <1>1, <1>2, <1>3, <1>4, <1>5, TalkBehaves, RoomBehaves, PTL

LEMMA ReviewTypesHold == OfficeSpec => [](scene = "review" => Review!TypeOK)
<1> DEFINE Activates == "admin" \in DeskRequests \/ Y!V!ApprovalActivates
<1>1. Y!V!Spec => [](Y!V!TypeOK /\ Activates)
  BY Y!ApprovalStaysActive, SerialConstants DEF Y!NoStaleCompany
<1>2. Y!V!TypeOK => Review!TypeOK
  BY Zenon
  DEF Review!TypeOK, Y!V!TypeOK, Review!Call, Y!V!Call, Review!Company, Y!V!Company,
      Review!ServiceTypes, Y!V!ServiceTypes, Review!VerificationRow, Y!V!VerificationRow,
      Review!TierCodes, Y!V!TierCodes, Review!CompanyStatuses, Y!V!CompanyStatuses
<1> QED
  BY <1>1, <1>2, OtherScenes, SceneLasts, ReviewBehaves, PTL

LEMMA RoomTypesHold == OfficeSpec => [](scene = "room" => Room!TypeOK)
<1>1. Y!C!Spec => []Y!C!TypeOK
  BY Y!ChatTypesHold, SerialConstants
<1>2. Y!C!TypeOK => Room!TypeOK
  BY Zenon
  DEF Room!TypeOK, Y!C!TypeOK, Room!Message, Y!C!Message, Room!Conversation,
      Y!C!Conversation
<1> QED
  BY <1>1, <1>2, OtherScenes, SceneLasts, RoomBehaves, PTL

LEMMA WatchedTypesHold == OfficeSpec => [](scene = "watch" => Watched!TypeOK)
<1>1. Y!T!Spec => []Y!T!TypeOK
  BY Y!TrackingTypesHold, SerialConstants
<1>2. Y!T!TypeOK => Watched!TypeOK
  BY Zenon
  DEF Watched!TypeOK, Y!T!TypeOK, Watched!PushToken, Y!T!PushToken, Watched!Notification,
      Y!T!Notification, Watched!Shipment, Y!T!Shipment
<1> QED
  BY <1>1, <1>2, OtherScenes, SceneLasts, WatchedBehaves, PTL

-----------------------------------------------------------------------------
\* Decisions.

\* A scene that is about a matter shows the stage of its own module, the others stay at
\* the beginning.
LEMMA StageOfTheScene ==
    /\ scene = "review" => OfficeStage = Y!V!Stage
    /\ scene = "expenses" => OfficeStage = Y!E!Stage
    /\ scene = "relations" => OfficeStage = Y!R!Stage
    /\ scene \notin {"review", "expenses", "relations"} =>
          OfficeStage = [m \in Ids |-> "none"]
<1>1. Review!Stage = Y!V!Stage
  BY Zenon DEF Review!Stage, Y!V!Stage
<1>2. Costs!Stage = Y!E!Stage
  BY Zenon DEF Costs!Stage, Y!E!Stage
<1>3. Partners!Stage = Y!R!Stage
  BY Zenon DEF Partners!Stage, Y!R!Stage
<1> QED
  BY <1>1, <1>2, <1>3 DEF OfficeStage

\* A verification, an expense and a relation are opened, granted or refused once, and
\* closed only when granted, by requests that come one after the other
\* (VerificationService, ExpensesService, CompanyRelationshipsService).
THEOREM OfficeDecidesOnce == OfficeSpec => DecisionsTakenOnce
<1>1. OfficeSpec /\ scene = "review" => DecisionsTakenOnce
  <2>1. Y!V!Spec => Y!V!RefinesDecisions
    BY Y!SerialReviewsDecideOnce, SerialConstants
  <2>2. scene = "review" /\ Y!V!Abstract!Init => Decided!Init
    BY StageOfTheScene DEF Y!V!Abstract!Init, Decided!Init
  <2>3. scene = "review" /\ [OfficeNext]_officeVars => (scene = "review")'
    BY ScenesPlay
  <2>4. /\ scene = "review" => OfficeStage = Y!V!Stage
        /\ (scene = "review" => OfficeStage = Y!V!Stage)'
    BY StageOfTheScene, PTL
  <2>5. scene = "review" /\ (scene = "review")' /\ [Y!V!Abstract!Next]_(Y!V!Stage) =>
            [Decided!Next]_OfficeStage
    BY <2>4
    DEF Y!V!Abstract!Next, Y!V!Abstract!Move, Y!V!Abstract!Moves, Y!V!Abstract!Stages,
        Decided!Next, Decided!Move, Decided!Moves, Decided!Stages
  <2> QED
    BY <2>1, <2>2, <2>3, <2>5, ReviewBehaves, PTL
    DEF OfficeSpec, DecisionsTakenOnce, Decided!Spec, Y!V!RefinesDecisions,
        Y!V!Abstract!Spec
<1>2. OfficeSpec /\ scene = "expenses" => DecisionsTakenOnce
  <2>1. Y!E!Spec => Y!E!RefinesDecisions
    BY Y!SerialExpensesDecideOnce, SerialConstants
  <2>2. scene = "expenses" /\ Y!E!Abstract!Init => Decided!Init
    BY StageOfTheScene DEF Y!E!Abstract!Init, Decided!Init
  <2>3. scene = "expenses" /\ [OfficeNext]_officeVars => (scene = "expenses")'
    BY ScenesPlay
  <2>4. /\ scene = "expenses" => OfficeStage = Y!E!Stage
        /\ (scene = "expenses" => OfficeStage = Y!E!Stage)'
    BY StageOfTheScene, PTL
  <2>5. scene = "expenses" /\ (scene = "expenses")' /\ [Y!E!Abstract!Next]_(Y!E!Stage) =>
            [Decided!Next]_OfficeStage
    BY <2>4
    DEF Y!E!Abstract!Next, Y!E!Abstract!Move, Y!E!Abstract!Moves, Y!E!Abstract!Stages,
        Decided!Next, Decided!Move, Decided!Moves, Decided!Stages
  <2> QED
    BY <2>1, <2>2, <2>3, <2>5, CostsBehave, PTL
    DEF OfficeSpec, DecisionsTakenOnce, Decided!Spec, Y!E!RefinesDecisions,
        Y!E!Abstract!Spec
<1>3. OfficeSpec /\ scene = "relations" => DecisionsTakenOnce
  <2>1. Y!R!Spec => Y!R!RefinesDecisions
    BY Y!SerialRelationsDecideOnce, SerialConstants
  <2>2. scene = "relations" /\ Y!R!Abstract!Init => Decided!Init
    BY StageOfTheScene DEF Y!R!Abstract!Init, Decided!Init
  <2>3. scene = "relations" /\ [OfficeNext]_officeVars => (scene = "relations")'
    BY ScenesPlay
  <2>4. /\ scene = "relations" => OfficeStage = Y!R!Stage
        /\ (scene = "relations" => OfficeStage = Y!R!Stage)'
    BY StageOfTheScene, PTL
  <2>5. scene = "relations" /\ (scene = "relations")' /\ [Y!R!Abstract!Next]_(Y!R!Stage) =>
            [Decided!Next]_OfficeStage
    BY <2>4
    DEF Y!R!Abstract!Next, Y!R!Abstract!Move, Y!R!Abstract!Moves, Y!R!Abstract!Stages,
        Decided!Next, Decided!Move, Decided!Moves, Decided!Stages
  <2> QED
    BY <2>1, <2>2, <2>3, <2>5, PartnersBehave, PTL
    DEF OfficeSpec, DecisionsTakenOnce, Decided!Spec, Y!R!RefinesDecisions,
        Y!R!Abstract!Spec
<1>4. OfficeSpec /\ scene \notin {"review", "expenses", "relations"} => DecisionsTakenOnce
  <2> DEFINE Other == scene \notin {"review", "expenses", "relations"}
  <2>1. Other => OfficeStage = [m \in Ids |-> "none"]
    BY StageOfTheScene
  <2>2. Other /\ [OfficeNext]_officeVars => Other'
    BY ScenesPlay
  <2>3. (Other => OfficeStage = [m \in Ids |-> "none"])'
    BY <2>1, PTL
  <2>4. /\ Other => Decided!Init
        /\ Other /\ Other' => UNCHANGED OfficeStage
    BY <2>1, <2>3 DEF Decided!Init
  <2> QED
    BY <2>2, <2>4, PTL DEF OfficeSpec, DecisionsTakenOnce, Decided!Spec
<1> QED
  BY <1>1, <1>2, <1>3, <1>4

-----------------------------------------------------------------------------
\* The shipments and their runs, one request after the other, and two at a time.
P == INSTANCE DispatchProofs WITH
    calls <- shipmentCalls, lost <- shipmentLost, Handlers <- One,
    Drivers <- InvitedDrivers, Trucks <- Lorries, Requests <- ProposalRequests,
    NewStatuses <- ProposalStatuses, MaxLost <- MaxRunLost

Z == INSTANCE DispatchProofs WITH
    calls <- shipmentCalls, lost <- shipmentLost,
    Drivers <- InvitedDrivers, Trucks <- Lorries, Requests <- CrossingRequests,
    NewStatuses <- CrossingStatuses, MaxLost <- MaxRunLost

LEMMA ProposalsBegin == Proposals!Init => P!Init
BY Zenon
DEF Proposals!Pending, P!Pending, Proposals!NoCopies, P!NoCopies, Proposals!Idle, P!Idle,
    Proposals!Init, P!Init

\* What a call does next, what is asked of a run, what of a shipment.
LEMMA ProposalsContinue ==
    ASSUME NEW h, Proposals!Continue(h) PROVE P!Continue(h)
BY Zenon
DEF Proposals!Continue, P!Continue, Proposals!Probe, P!Probe, Proposals!AdvanceStops,
    P!AdvanceStops, Proposals!AttachStops, P!AttachStops, Proposals!DetachStops,
    P!DetachStops, Proposals!Resequence, P!Resequence, Proposals!Release, P!Release,
    Proposals!Recount, P!Recount, Proposals!SaveStop, P!SaveStop, Proposals!Close, P!Close,
    Proposals!Save, P!Save, Proposals!Delete, P!Delete, Proposals!Existing, P!Existing,
    Proposals!End, P!End, Proposals!Begin, P!Begin, Proposals!With, P!With,
    Proposals!Pending, P!Pending, Proposals!StopsOf, P!StopsOf, Proposals!Advance,
    P!Advance, Proposals!Found, P!Found, Proposals!Attachable, P!Attachable,
    Proposals!SetToSeqs, P!SetToSeqs, Proposals!Range, P!Range, Proposals!Extend, P!Extend,
    Proposals!Attach, P!Attach, Proposals!PlaceIn, P!PlaceIn, Proposals!Without, P!Without,
    Proposals!Detach, P!Detach, Proposals!Renumbered, P!Renumbered, Proposals!Counted,
    P!Counted, Proposals!Cardinality, P!Cardinality, Proposals!Write, P!Write,
    Proposals!Idle, P!Idle, Proposals!NoCopies, P!NoCopies, Proposals!Promote, P!Promote,
    Proposals!Kept, P!Kept, Proposals!Closed, P!Closed, Proposals!Manned, P!Manned

LEMMA ProposalsOfRuns ==
    ASSUME NEW h, NEW r, Proposals!RunRequest(h, r) PROVE P!RunRequest(h, r)
BY Zenon
DEF Proposals!RunRequest, P!RunRequest, Proposals!UpdateRun, P!UpdateRun,
    Proposals!StartRun, P!StartRun, Proposals!CompleteRun, P!CompleteRun,
    Proposals!CancelRun, P!CancelRun, Proposals!AssignDriver, P!AssignDriver,
    Proposals!AddShipments, P!AddShipments, Proposals!RemoveShipments, P!RemoveShipments,
    Proposals!SetToSeqs, P!SetToSeqs, Proposals!Range, P!Range, Proposals!Reorder,
    P!Reorder, Proposals!StopsOf, P!StopsOf, Proposals!StopDone, P!StopDone,
    Proposals!StopIncident, P!StopIncident, Proposals!StopStartTransit, P!StopStartTransit,
    Proposals!StopArrive, P!StopArrive, Proposals!Request, P!Request, Proposals!Begin,
    P!Begin, Proposals!With, P!With, Proposals!Startable, P!Startable,
    Proposals!Cancellable, P!Cancellable, Proposals!Reassignable, P!Reassignable,
    Proposals!Promote, P!Promote, Proposals!Naming, P!Naming, Proposals!Reorderable,
    P!Reorderable, Proposals!Found, P!Found, Proposals!Stop, P!Stop, Proposals!Closed,
    P!Closed, Proposals!Closing, P!Closing, Proposals!PastTransit, P!PastTransit,
    Proposals!Holding, P!Holding, Proposals!PastArrival, P!PastArrival, Proposals!Idle,
    P!Idle, Proposals!Pending, P!Pending, Proposals!NoCopies, P!NoCopies, Proposals!Manned,
    P!Manned, Proposals!Cardinality, P!Cardinality, Proposals!Only, P!Only

LEMMA ProposalsOfShipments ==
    ASSUME NEW h, NEW s, Proposals!ShipmentRequest(h, s) PROVE P!ShipmentRequest(h, s)
BY Zenon
DEF Proposals!ShipmentRequest, P!ShipmentRequest, Proposals!UpdateShipment,
    P!UpdateShipment, Proposals!AssignShipment, P!AssignShipment,
    Proposals!ShipmentStatuses, P!ShipmentStatuses, Proposals!UpdateStatus, P!UpdateStatus,
    Proposals!Accept, P!Accept, Proposals!Reject, P!Reject, Proposals!CancelShipment,
    P!CancelShipment, Proposals!UploadPod, P!UploadPod, Proposals!FinishShipment,
    P!FinishShipment, Proposals!RemoveShipment, P!RemoveShipment, Proposals!Request,
    P!Request, Proposals!Begin, P!Begin, Proposals!Holding, P!Holding, Proposals!Assign,
    P!Assign, Proposals!Transitions, P!Transitions, Proposals!Pending, P!Pending,
    Proposals!NoCopies, P!NoCopies, Proposals!Idle, P!Idle, Proposals!Only, P!Only

LEMMA ProposalsGoOn == Proposals!Next => P!Next
BY ProposalsContinue, ProposalsOfRuns, ProposalsOfShipments, ZenonT(120)
DEF Proposals!Next, P!Next, Proposals!Lose, P!Lose, Proposals!CreateRun, P!CreateRun,
    Proposals!Existing, P!Existing, Proposals!CreateShipment, P!CreateShipment,
    Proposals!Found, P!Found, Proposals!End, P!End, Proposals!Request, P!Request,
    Proposals!Begin, P!Begin, Proposals!Naming, P!Naming, Proposals!NewRun, P!NewRun,
    Proposals!Holding, P!Holding, Proposals!NewShipment, P!NewShipment, Proposals!Idle,
    P!Idle, Proposals!Pending, P!Pending, Proposals!NoCopies, P!NoCopies, Proposals!Only,
    P!Only

LEMMA ProposalsBehave == OfficeSpec /\ scene # "crossing" => P!Spec
<1>1. OfficeInit /\ scene # "crossing" => P!Init
  BY ProposalsBegin DEF OfficeInit
<1>2. scene # "crossing" /\ [OfficeNext]_officeVars =>
          (scene # "crossing")' /\ [P!Next]_(P!vars)
  BY ScenesPlay, ProposalsGoOn DEF shipmentVars, P!vars
<1> QED
  BY <1>1, <1>2, PTL DEF OfficeSpec, P!Spec

LEMMA CrossingBegins == Crossing!Init => Z!Init
BY Zenon
DEF Crossing!Pending, Z!Pending, Crossing!NoCopies, Z!NoCopies, Crossing!Idle, Z!Idle,
    Crossing!Init, Z!Init

LEMMA CrossingContinues ==
    ASSUME NEW h, Crossing!Continue(h) PROVE Z!Continue(h)
BY Zenon
DEF Crossing!Continue, Z!Continue, Crossing!Probe, Z!Probe, Crossing!AdvanceStops,
    Z!AdvanceStops, Crossing!AttachStops, Z!AttachStops, Crossing!DetachStops,
    Z!DetachStops, Crossing!Resequence, Z!Resequence, Crossing!Release, Z!Release,
    Crossing!Recount, Z!Recount, Crossing!SaveStop, Z!SaveStop, Crossing!Close, Z!Close,
    Crossing!Save, Z!Save, Crossing!Delete, Z!Delete, Crossing!Existing, Z!Existing,
    Crossing!End, Z!End, Crossing!Begin, Z!Begin, Crossing!With, Z!With, Crossing!Pending,
    Z!Pending, Crossing!StopsOf, Z!StopsOf, Crossing!Advance, Z!Advance, Crossing!Found,
    Z!Found, Crossing!Attachable, Z!Attachable, Crossing!SetToSeqs, Z!SetToSeqs,
    Crossing!Range, Z!Range, Crossing!Extend, Z!Extend, Crossing!Attach, Z!Attach,
    Crossing!PlaceIn, Z!PlaceIn, Crossing!Without, Z!Without, Crossing!Detach, Z!Detach,
    Crossing!Renumbered, Z!Renumbered, Crossing!Counted, Z!Counted, Crossing!Cardinality,
    Z!Cardinality, Crossing!Write, Z!Write, Crossing!Idle, Z!Idle, Crossing!NoCopies,
    Z!NoCopies, Crossing!Promote, Z!Promote, Crossing!Kept, Z!Kept, Crossing!Closed,
    Z!Closed, Crossing!Manned, Z!Manned

LEMMA CrossingOfRuns ==
    ASSUME NEW h, NEW r, Crossing!RunRequest(h, r) PROVE Z!RunRequest(h, r)
BY Zenon
DEF Crossing!RunRequest, Z!RunRequest, Crossing!UpdateRun, Z!UpdateRun, Crossing!StartRun,
    Z!StartRun, Crossing!CompleteRun, Z!CompleteRun, Crossing!CancelRun, Z!CancelRun,
    Crossing!AssignDriver, Z!AssignDriver, Crossing!AddShipments, Z!AddShipments,
    Crossing!RemoveShipments, Z!RemoveShipments, Crossing!SetToSeqs, Z!SetToSeqs,
    Crossing!Range, Z!Range, Crossing!Reorder, Z!Reorder, Crossing!StopsOf, Z!StopsOf,
    Crossing!StopDone, Z!StopDone, Crossing!StopIncident, Z!StopIncident,
    Crossing!StopStartTransit, Z!StopStartTransit, Crossing!StopArrive, Z!StopArrive,
    Crossing!Request, Z!Request, Crossing!Begin, Z!Begin, Crossing!With, Z!With,
    Crossing!Startable, Z!Startable, Crossing!Cancellable, Z!Cancellable,
    Crossing!Reassignable, Z!Reassignable, Crossing!Promote, Z!Promote, Crossing!Naming,
    Z!Naming, Crossing!Reorderable, Z!Reorderable, Crossing!Found, Z!Found, Crossing!Stop,
    Z!Stop, Crossing!Closed, Z!Closed, Crossing!Closing, Z!Closing, Crossing!PastTransit,
    Z!PastTransit, Crossing!Holding, Z!Holding, Crossing!PastArrival, Z!PastArrival,
    Crossing!Idle, Z!Idle, Crossing!Pending, Z!Pending, Crossing!NoCopies, Z!NoCopies,
    Crossing!Manned, Z!Manned, Crossing!Cardinality, Z!Cardinality, Crossing!Only, Z!Only

LEMMA CrossingOfShipments ==
    ASSUME NEW h, NEW s, Crossing!ShipmentRequest(h, s) PROVE Z!ShipmentRequest(h, s)
BY Zenon
DEF Crossing!ShipmentRequest, Z!ShipmentRequest, Crossing!UpdateShipment, Z!UpdateShipment,
    Crossing!AssignShipment, Z!AssignShipment, Crossing!ShipmentStatuses,
    Z!ShipmentStatuses, Crossing!UpdateStatus, Z!UpdateStatus, Crossing!Accept, Z!Accept,
    Crossing!Reject, Z!Reject, Crossing!CancelShipment, Z!CancelShipment,
    Crossing!UploadPod, Z!UploadPod, Crossing!FinishShipment, Z!FinishShipment,
    Crossing!RemoveShipment, Z!RemoveShipment, Crossing!Request, Z!Request, Crossing!Begin,
    Z!Begin, Crossing!Holding, Z!Holding, Crossing!Assign, Z!Assign, Crossing!Transitions,
    Z!Transitions, Crossing!Pending, Z!Pending, Crossing!NoCopies, Z!NoCopies,
    Crossing!Idle, Z!Idle, Crossing!Only, Z!Only

LEMMA CrossingGoesOn == Crossing!Next => Z!Next
BY CrossingContinues, CrossingOfRuns, CrossingOfShipments, ZenonT(120)
DEF Crossing!Next, Z!Next, Crossing!Lose, Z!Lose, Crossing!CreateRun, Z!CreateRun,
    Crossing!Existing, Z!Existing, Crossing!CreateShipment, Z!CreateShipment,
    Crossing!Found, Z!Found, Crossing!End, Z!End, Crossing!Request, Z!Request,
    Crossing!Begin, Z!Begin, Crossing!Naming, Z!Naming, Crossing!NewRun, Z!NewRun,
    Crossing!Holding, Z!Holding, Crossing!NewShipment, Z!NewShipment, Crossing!Idle, Z!Idle,
    Crossing!Pending, Z!Pending, Crossing!NoCopies, Z!NoCopies, Crossing!Only, Z!Only

LEMMA CrossingBehaves == OfficeSpec /\ scene = "crossing" => Z!Spec
<1>1. OfficeInit /\ scene = "crossing" => Z!Init
  BY CrossingBegins DEF OfficeInit
<1>2. scene = "crossing" /\ [OfficeNext]_officeVars =>
          (scene = "crossing")' /\ [Z!Next]_(Z!vars)
  BY ScenesPlay, CrossingGoesOn DEF shipmentVars, Z!vars
<1> QED
  BY <1>1, <1>2, PTL DEF OfficeSpec, Z!Spec

\* The assumptions of the modules about the runs.
LEMMA DispatchConstants ==
    /\ P!NullIsNoId /\ P!FiniteShipments /\ P!NullIsNoRunRow /\ P!NullIsNoShipmentRow
    /\ P!DispatchAssumption
    /\ Z!NullIsNoId /\ Z!FiniteShipments /\ Z!NullIsNoRunRow /\ Z!NullIsNoShipmentRow
    /\ Z!DispatchAssumption
<1>1. /\ P!RunRow = Proposals!RunRow /\ P!ShipmentRow = Proposals!ShipmentRow
      /\ Z!RunRow = Proposals!RunRow /\ Z!ShipmentRow = Proposals!ShipmentRow
  BY DEF P!RunStatuses, Z!RunStatuses, P!RunRow, Z!RunRow, P!ShipmentStatuses,
         Z!ShipmentStatuses, P!ShipmentRow, Z!ShipmentRow, Proposals!RunRow,
         Proposals!ShipmentRow, Proposals!RunStatuses, Proposals!ShipmentStatuses
<1>2. IsFiniteSet(Shipments)
  BY FS_Singleton DEF Shipments
<1>3. P!FiniteShipments /\ Z!FiniteShipments
  BY <1>2 DEF P!FiniteShipments, Z!FiniteShipments, IsFiniteSet, P!IsFiniteSet, Z!IsFiniteSet
<1>4. P!DispatchAssumption /\ Z!DispatchAssumption
  BY DEF P!DispatchAssumption, Z!DispatchAssumption, P!RequestKinds, Z!RequestKinds,
         P!ShipmentStatuses, Z!ShipmentStatuses, ProposalRequests, CrossingRequests,
         ProposalStatuses, CrossingStatuses, MaxRunLost
<1> QED
  BY <1>1, <1>3, <1>4, OfficeAssumption
  DEF P!NullIsNoId, P!NullIsNoRunRow, P!NullIsNoShipmentRow,
      Z!NullIsNoId, Z!NullIsNoRunRow, Z!NullIsNoShipmentRow

\* A run under way has a driver, a truck and a stop, whatever older copies two calls at a
\* time save (DeliveryRunsService).
THEOREM RunsAreManned == OfficeSpec => []RunningRunIsManned
<1>1. Z!Spec => []Z!RunningRunIsManned
  BY Z!RunningRunsAreManned, DispatchConstants
<1>2. Z!RunningRunIsManned \/ scene # "crossing" => RunningRunIsManned
  BY DEF RunningRunIsManned, Crossing!Existing, Z!Existing, Crossing!RunningRunIsManned,
         Z!RunningRunIsManned, Crossing!Manned, Z!Manned
<1> QED
  BY <1>1, <1>2, SceneLasts, CrossingBehaves, PTL

LEMMA ProposalsAreFinal ==
    OfficeSpec /\ scene # "crossing" => AnswerIsFinal /\ CancelledIsFinal
<1>1. P!Serial /\ ProposalRequests \cap {"done", "incident", "transit", "arrive"} = {}
  BY DEF P!Serial, One, ProposalRequests
<1>2. P!Spec => P!AnswerIsFinal /\ P!CancelledIsFinal
  BY <1>1, P!SerialCallsAnswerOnce, P!SerialCallsKeepCancelled, DispatchConstants
<1> DEFINE
      Answered(S) == \A s \in S :
          ships[s].status # "pending_acceptance" => ships'[s].status # "pending_acceptance"
      Stays(S) == \A s \in S :
          ships[s].status = "cancelled" => ships'[s].status = "cancelled"
<1>3. /\ P!AnswerIsFinal <=> [][Answered(P!Found)]_(P!vars)
      /\ P!CancelledIsFinal <=> [][Stays(P!Found)]_(P!vars)
  BY DEF P!AnswerIsFinal, P!CancelledIsFinal
<1>4. /\ AnswerIsFinal <=> [][Answered(Proposals!Found)]_(Proposals!vars)
      /\ CancelledIsFinal <=> [][Stays(Proposals!Found)]_(Proposals!vars)
  BY DEF AnswerIsFinal, CancelledIsFinal, Proposals!AnswerIsFinal,
         Proposals!CancelledIsFinal
<1>5. P!Found = Proposals!Found
  BY DEF Proposals!Found, P!Found
<1>6. /\ [Answered(P!Found)]_(P!vars) => [Answered(Proposals!Found)]_(Proposals!vars)
      /\ [Stays(P!Found)]_(P!vars) => [Stays(Proposals!Found)]_(Proposals!vars)
  BY <1>5 DEF P!vars, Proposals!vars
<1> QED
  BY <1>2, <1>3, <1>4, <1>6, ProposalsBehave, PTL

\* A proposal is answered once, for requests that come one after the other
\* (ShipmentsService.accept, reject).
THEOREM AnswersAreFinal == OfficeSpec /\ scene # "crossing" => AnswerIsFinal
BY ProposalsAreFinal, PTL

\* A cancelled shipment stays cancelled, whatever ShipmentsService is asked by requests
\* that come one after the other.
THEOREM CancellationsAreFinal == OfficeSpec /\ scene # "crossing" => CancelledIsFinal
BY ProposalsAreFinal, PTL

LEMMA ProposalsTypesHold == OfficeSpec => [](scene = "proposals" => Proposals!TypeOK)
<1>1. P!Spec => []P!TypeOK
  BY P!TypesHold, DispatchConstants
<1>2. P!TypeOK => Proposals!TypeOK
  BY Zenon
  DEF Proposals!TypeOK, P!TypeOK, Proposals!Call, P!Call, Proposals!ShipmentRow,
      P!ShipmentRow, Proposals!ShipmentStatuses, P!ShipmentStatuses, Proposals!RunRow,
      P!RunRow, Proposals!RunStatuses, P!RunStatuses, Proposals!Steps, P!Steps
<1>3. scene = "proposals" => scene # "crossing"
  OBVIOUS
<1> QED
  BY <1>1, <1>2, <1>3, OtherScenes, SceneLasts, ProposalsBehave, PTL

LEMMA CrossingTypesHold == OfficeSpec => [](scene = "crossing" => Crossing!TypeOK)
<1>1. Z!Spec => []Z!TypeOK
  BY Z!TypesHold, DispatchConstants
<1>2. Z!TypeOK => Crossing!TypeOK
  BY Zenon
  DEF Crossing!TypeOK, Z!TypeOK, Crossing!Call, Z!Call, Crossing!ShipmentRow, Z!ShipmentRow,
      Crossing!ShipmentStatuses, Z!ShipmentStatuses, Crossing!RunRow, Z!RunRow,
      Crossing!RunStatuses, Z!RunStatuses, Crossing!Steps, Z!Steps
<1> QED
  BY <1>1, <1>2, OtherScenes, SceneLasts, CrossingBehaves, PTL

-----------------------------------------------------------------------------
\* Every table and every call in flight has its type, in every scene.
THEOREM OfficeTypesHold == OfficeSpec => []OfficeTypeOK
<1> DEFINE
      Subscriptions ==
          /\ scene = "plans" => Catalogue!TypeOK
          /\ scene = "free" => FreePlans!TypeOK
          /\ scene = "guards" => Guards!TypeOK
      Registrations ==
          /\ scene = "accounts" => Members!TypeOK
          /\ scene = "reviews" => Reviews!TypeOK
          /\ scene = "review" => Review!TypeOK
      Deliveries ==
          /\ scene = "proposals" => Proposals!TypeOK
          /\ scene = "crossing" => Crossing!TypeOK
          /\ scene = "stops" => Order!TypeOK
      Conversations ==
          /\ scene = "chat" => Talk!TypeOK
          /\ scene = "room" => Room!TypeOK
      Positions ==
          /\ scene = "alerts" => Road!TypeOK
          /\ scene = "watch" => Watched!TypeOK
      Addresses ==
          /\ scene = "places" => Searches!TypeOK
          /\ scene = "records" => Records!TypeOK
<1>1. OfficeSpec => []Subscriptions
  BY CatalogueTypesHold, FreePlansTypesHold, GuardsTypesHold, PTL
<1>2. OfficeSpec => []Registrations
  BY MembersTypesHold, ReviewsTypesHold, ReviewTypesHold, PTL
<1>3. OfficeSpec => []Deliveries
  BY ProposalsTypesHold, CrossingTypesHold, OrderTypesHold, PTL
<1>4. OfficeSpec => []Conversations
  BY TalkTypesHold, RoomTypesHold, PTL
<1>5. OfficeSpec => []Positions
  BY RoadTypesHold, WatchedTypesHold, PTL
<1>6. OfficeSpec => []Addresses
  BY SearchesTypesHold, RecordsTypesHold, PTL
<1>7. ( /\ TypeOK /\ Subscriptions /\ Registrations /\ Deliveries
        /\ Conversations /\ Positions /\ Addresses )
      => OfficeTypeOK
  BY DEF OfficeTypeOK
<1> HIDE DEF Subscriptions, Registrations, Deliveries, Conversations, Positions, Addresses
<1> QED
  BY <1>1, <1>2, <1>3, <1>4, <1>5, <1>6, <1>7, FleetTypesHold, PTL
===============================================================================
