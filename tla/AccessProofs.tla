---------------------------- MODULE AccessProofs ----------------------------
(***************************************************************************)
(* Proofs about Access: the types of the subscriptions and of the cached   *)
(* permissions, what a change to a higher tier keeps, and how many active  *)
(* subscriptions overlapping sign-ups leave.                               *)
(***************************************************************************)
EXTENDS Access, FiniteSetTheorems, TLAPS

\* What the modules that instantiate Access give its constants.
AccessConstants ==
    /\ Offered \subseteq Plans
    /\ IsFiniteSet(Handlers)
    /\ MaxSubs \in Nat /\ MaxFailures \in Nat /\ MaxLost \in Nat

-----------------------------------------------------------------------------
\* Subscriptions.

\* The newest of some subscriptions.
LEMMA NewestExists ==
    ASSUME NEW n \in Nat, NEW T \in SUBSET (1 .. n), T # {}
    PROVE  \E s \in T : \A t \in T : t <= s
<1> DEFINE U == {s .. n : s \in T}
<1>1. U \subseteq FiniteSubsetsOf(Nat)
  <2> SUFFICES ASSUME NEW s \in T PROVE s .. n \in FiniteSubsetsOf(Nat)
    OBVIOUS
  <2>1. s \in Nat /\ IsFiniteSet(s .. n) /\ s .. n \subseteq Nat
    BY FS_Interval
  <2> QED
    BY <2>1 DEF FiniteSubsetsOf
<1>2. U # {}
  OBVIOUS
<1>3. PICK x \in U : \A y \in U : <<y, x>> \notin StrictSubsetOrdering(Nat)
  BY <1>1, <1>2, WFMin, FS_StrictSubsetOrderingWellFounded
<1>4. PICK s \in T : x = s .. n
  OBVIOUS
<1>5. ASSUME NEW t \in T, s < t PROVE FALSE
  <2>1. s \in s .. n /\ s \notin t .. n /\ t .. n \subseteq s .. n
    BY <1>5
  <2>2. t .. n \in SUBSET Nat /\ s .. n \in SUBSET Nat
    OBVIOUS
  <2>3. <<t .. n, x>> \in StrictSubsetOrdering(Nat)
    BY <2>1, <2>2, <1>4 DEF StrictSubsetOrdering
  <2> QED
    BY <2>3, <1>3
<1> QED
  BY <1>5

-----------------------------------------------------------------------------
\* Types.

Known == Codes \cup Edited

Call ==
    [op : {"create"}, step : {"insert", "invalidate"}, plan : Offered]
    \cup [op : {"change"}, step : {"update", "invalidate"}, plan : Offered, sub : Nat]
    \cup [op : {"use"}, step : {"load"}, needs : Guarded]
    \cup [op : {"use"}, step : {"set"}, needs : Guarded, permissions : SUBSET Known]
    \cup [op : {"mine"}, step : {"set"}, needs : {{}}, permissions : SUBSET Known]

\* The rows, the plans' permissions, the cached ones and the calls in flight.
TypeInv ==
    /\ subs \in Seq(SubRows) /\ Len(subs) <= MaxSubs
    /\ granted \in [Offered -> SUBSET Known]
    /\ cache = Null \/ cache \in SUBSET Known
    /\ calls \in [Handlers -> Call \cup {Null}]
    /\ failures \in 0 .. MaxFailures /\ lost \in 0 .. MaxLost

\* The plan that decides has permissions of the known ones.
LEMMA EffectiveIsKnown == ASSUME TypeInv, MaxSubs \in Nat PROVE Effective \in SUBSET Known
<1>1. Len(subs) \in Nat /\ Active \in SUBSET (1 .. Len(subs))
  BY DEF Active, TypeInv
<1>2. CASE Active # {}
  <2> DEFINE Newest(s) == \A t \in Active : t <= s
             s == CHOOSE x \in Active : Newest(x)
  <2>1. \E x \in Active : Newest(x)
    BY <1>1, <1>2, NewestExists
  <2>2. s \in Active
    BY <2>1
  <2>3. Effective = granted[subs[s].plan]
    BY <1>2 DEF Effective
  <2> HIDE DEF s
  <2>4. subs[s] \in SubRows
    BY <1>1, <2>2 DEF TypeInv
  <2>5. subs[s].plan \in Offered
    BY <2>4 DEF SubRows
  <2> QED
    BY <2>3, <2>5 DEF TypeInv
<1> QED
  BY <1>2 DEF Effective

\* So have all its active plans together.
LEMMA CombinedIsKnown == ASSUME TypeInv PROVE Combined \in SUBSET Known
<1> SUFFICES ASSUME NEW s \in Active PROVE granted[subs[s].plan] \subseteq Known
  BY DEF Combined
<1>1. s \in 1 .. Len(subs)
  BY DEF Active, TypeInv
<1>2. subs[s] \in SubRows
  BY <1>1 DEF TypeInv
<1>3. subs[s].plan \in Offered
  BY <1>2 DEF SubRows
<1> QED
  BY <1>3 DEF TypeInv

LEMMA TypesInit == ASSUME AccessConstants, Init PROVE TypeInv
<1>1. \A plan \in Offered : PlanPermissions[plan] \in SUBSET Known
  BY DEF Known, Codes, AccessConstants
<1>2. granted \in [Offered -> SUBSET Known]
  BY <1>1 DEF Init
<1>3. subs \in Seq(SubRows) /\ Len(subs) = 0
  BY DEF Init
<1> QED
  BY <1>2, <1>3 DEF Init, TypeInv, AccessConstants

\* A row that takes the place of one, or that is appended.
LEMMA RowsKeepTheirType ==
    ASSUME subs \in Seq(SubRows), Len(subs) <= MaxSubs, MaxSubs \in Nat, NEW row \in SubRows
    PROVE  /\ \A s : [subs EXCEPT ![s] = row] \in Seq(SubRows)
           /\ \A s : Len([subs EXCEPT ![s] = row]) <= MaxSubs
           /\ Append(subs, row) \in Seq(SubRows)
           /\ Len(subs) < MaxSubs => Len(Append(subs, row)) <= MaxSubs
<1>1. ASSUME NEW s PROVE [subs EXCEPT ![s] = row] \in Seq(SubRows)
                         /\ Len([subs EXCEPT ![s] = row]) = Len(subs)
  <2> DEFINE new == [subs EXCEPT ![s] = row]
  <2>1. DOMAIN new = 1 .. Len(subs) /\ Len(subs) \in Nat
    OBVIOUS
  <2>2. \A i \in 1 .. Len(subs) : new[i] \in SubRows
    OBVIOUS
  <2>3. new \in [1 .. Len(subs) -> SubRows]
    BY <2>1, <2>2
  <2> HIDE DEF new
  <2> QED
    BY <2>1, <2>3 DEF new
<1>2. Append(subs, row) \in Seq(SubRows) /\ Len(Append(subs, row)) = Len(subs) + 1
  OBVIOUS
<1> QED
  BY <1>1, <1>2

LEMMA SubscriptionsKeepTypes ==
    ASSUME AccessConstants, TypeInv,
           \/ \E h \in Handlers : CreateFree(h) \/ InsertFree(h) \/ ChangePlan(h) \/ UpdatePlan(h)
           \/ \E s \in DOMAIN subs : Paid(s) \/ Suspend(s)
    PROVE  TypeInv'
<1> USE DEF TypeInv
<1>1. /\ MaxSubs \in Nat /\ subs \in Seq(SubRows) /\ Len(subs) <= MaxSubs
      /\ Len(subs) \in Nat /\ DOMAIN subs = 1 .. Len(subs)
  BY DEF AccessConstants
<1>2. ASSUME NEW h \in Handlers, CreateFree(h) PROVE TypeInv'
  <2>1. calls' \in [Handlers -> Call \cup {Null}]
    BY <1>2 DEF CreateFree, Call
  <2>2. \A s \in DOMAIN subs : subs'[s] \in SubRows
    <3> TAKE s \in DOMAIN subs
    <3>1. subs[s] \in SubRows
      BY <1>1
    <3>2. [subs[s] EXCEPT !.status = "canceled"] \in SubRows
      BY <3>1 DEF SubRows, Statuses
    <3> QED
      BY <3>1, <3>2, <1>2 DEF CreateFree
  <2>3. subs' \in Seq(SubRows) /\ Len(subs') = Len(subs)
    BY <1>1, <1>2, <2>2 DEF CreateFree
  <2> QED
    BY <1>1, <1>2, <2>1, <2>3 DEF CreateFree
<1>3. ASSUME NEW h \in Handlers, InsertFree(h) PROVE TypeInv'
  <2>1. calls[h] \in Call /\ calls[h].step = "insert"
    BY <1>3 DEF InsertFree, Idle
  <2>2. calls[h] \in [op : {"create"}, step : {"insert", "invalidate"}, plan : Offered]
    BY <2>1 DEF Call
  <2>3. calls' \in [Handlers -> Call \cup {Null}]
    BY <1>3, <2>2 DEF InsertFree, Call
  <2>4. [plan |-> calls[h].plan, status |-> "active", pending |-> Null] \in SubRows
    BY <2>2 DEF SubRows, Statuses
  <2>5. subs' \in Seq(SubRows) /\ Len(subs') <= MaxSubs
    BY <1>1, <1>3, <2>4, RowsKeepTheirType DEF InsertFree
  <2> QED
    BY <1>3, <2>3, <2>5 DEF InsertFree
<1>4. ASSUME NEW h \in Handlers, ChangePlan(h) PROVE TypeInv'
  <2>1. calls' \in [Handlers -> Call \cup {Null}]
    BY <1>1, <1>4 DEF ChangePlan, Call
  <2> QED
    BY <1>4, <2>1 DEF ChangePlan
<1>5. ASSUME NEW h \in Handlers, UpdatePlan(h) PROVE TypeInv'
  <2>1. calls[h] \in Call /\ calls[h].step = "update"
    BY <1>5 DEF UpdatePlan, Idle
  <2>2. calls[h] \in
            [op : {"change"}, step : {"update", "invalidate"}, plan : Offered, sub : Nat]
    BY <2>1 DEF Call
  <2>3. calls' \in [Handlers -> Call \cup {Null}]
    BY <1>5, <2>2 DEF UpdatePlan, Call
  <2> DEFINE to == calls[h].plan
             s == calls[h].sub
             row == IF StatusForPlan(to) = "pending_payment"
                    THEN [subs[s] EXCEPT !.status = "pending_payment", !.pending = to]
                    ELSE [plan |-> to, status |-> "active", pending |-> Null]
  <2>4. subs' = [subs EXCEPT ![s] = row]
    BY <1>5 DEF UpdatePlan
  <2>5. CASE s \in DOMAIN subs
    <3>1. subs[s] \in SubRows
      BY <1>1, <2>5
    <3>2. [subs[s] EXCEPT !.status = "pending_payment", !.pending = to] \in SubRows
      BY <2>2, <3>1 DEF SubRows, Statuses
    <3>3. [plan |-> to, status |-> "active", pending |-> Null] \in SubRows
      BY <2>2 DEF SubRows, Statuses
    <3>4. row \in SubRows
      BY <3>2, <3>3
    <3> HIDE DEF row
    <3>5. subs' \in Seq(SubRows) /\ Len(subs') <= MaxSubs
      BY <1>1, <2>4, <3>4, RowsKeepTheirType
    <3> QED
      BY <1>5, <2>3, <3>5 DEF UpdatePlan
  <2>6. CASE s \notin DOMAIN subs
    <3> HIDE DEF row
    <3>1. subs' = subs
      BY <1>1, <2>4, <2>6
    <3> QED
      BY <1>5, <2>3, <3>1 DEF UpdatePlan
  <2> QED
    BY <2>5, <2>6
<1>6. ASSUME NEW s \in DOMAIN subs, Paid(s) \/ Suspend(s) PROVE TypeInv'
  <2>1. subs[s] \in SubRows
    BY <1>1
  <2> DEFINE paid == [plan |-> IF subs[s].pending = Null THEN subs[s].plan
                               ELSE subs[s].pending,
                      status |-> "active", pending |-> Null]
             suspended == [subs[s] EXCEPT !.status = "suspended"]
  <2>2. paid \in SubRows /\ suspended \in SubRows
    BY <2>1 DEF SubRows, Statuses
  <2>3. subs' = [subs EXCEPT ![s] = paid] \/ subs' = [subs EXCEPT ![s] = suspended]
    BY <1>6 DEF Paid, Suspend
  <2> HIDE DEF paid, suspended
  <2>4. subs' \in Seq(SubRows) /\ Len(subs') <= MaxSubs
    BY <1>1, <2>2, <2>3, RowsKeepTheirType
  <2> QED
    BY <1>6, <2>4 DEF Paid, Suspend
<1> QED
  BY <1>2, <1>3, <1>4, <1>5, <1>6

LEMMA RequestsKeepTypes ==
    ASSUME AccessConstants, TypeInv,
           \/ \E h \in Handlers : \/ Invalidate(h) \/ Use(h) \/ MyPermissions(h) \/ Load(h)
                                  \/ LoadFails(h) \/ SetCache(h) \/ Lose(h)
           \/ \E plan \in Offered, code \in Edited : EditPermission(plan, code)
           \/ Expire
    PROVE  TypeInv'
<1> USE DEF TypeInv
<1>1. ASSUME NEW h \in Handlers, Invalidate(h) PROVE TypeInv'
  BY <1>1 DEF Invalidate
<1>2. ASSUME NEW h \in Handlers, Use(h) PROVE TypeInv'
  <2>1. calls' \in [Handlers -> Call \cup {Null}]
    BY <1>2 DEF Use, Call
  <2> QED
    BY <1>2, <2>1 DEF Use
<1>3. ASSUME NEW h \in Handlers, MyPermissions(h) PROVE TypeInv'
  <2>1. Combined \in SUBSET Known
    BY CombinedIsKnown
  <2>2. calls' \in [Handlers -> Call \cup {Null}]
    BY <1>3, <2>1 DEF MyPermissions, Call
  <2> QED
    BY <1>3, <2>2 DEF MyPermissions
<1>4. ASSUME NEW h \in Handlers, Load(h) \/ LoadFails(h) PROVE TypeInv'
  <2>1. Effective \in SUBSET Known /\ {} \in SUBSET Known
    BY EffectiveIsKnown DEF AccessConstants
  <2>2. calls[h] \in Call /\ calls[h].step = "load"
    BY <1>4 DEF Load, LoadFails, Idle
  <2>3. calls[h].needs \in Guarded
    BY <2>2 DEF Call
  <2>4. calls' \in [Handlers -> Call \cup {Null}]
    BY <1>4, <2>1, <2>3 DEF Load, LoadFails, Loaded, Call
  <2>5. failures' \in 0 .. MaxFailures
    BY <1>4 DEF Load, LoadFails, AccessConstants
  <2> QED
    BY <1>4, <2>4, <2>5 DEF Load, LoadFails
<1>5. ASSUME NEW h \in Handlers, SetCache(h) PROVE TypeInv'
  <2>1. calls[h] \in Call /\ calls[h].step = "set"
    BY <1>5 DEF SetCache, Idle
  <2>2. calls[h].permissions \in SUBSET Known
    BY <2>1 DEF Call
  <2> QED
    BY <1>5, <2>2 DEF SetCache
<1>6. ASSUME NEW h \in Handlers, Lose(h) PROVE TypeInv'
  BY <1>6 DEF Lose, AccessConstants
<1>7. ASSUME NEW plan \in Offered, NEW code \in Edited, EditPermission(plan, code)
      PROVE  TypeInv'
  <2>1. code \in Known /\ granted[plan] \in SUBSET Known
    BY DEF Known
  <2>2. granted' \in [Offered -> SUBSET Known]
    BY <1>7, <2>1 DEF EditPermission
  <2> QED
    BY <1>7, <2>2 DEF EditPermission
<1>8. ASSUME Expire PROVE TypeInv'
  BY <1>8 DEF Expire
<1> QED
  BY <1>1, <1>2, <1>3, <1>4, <1>5, <1>6, <1>7, <1>8

LEMMA TypesNext == ASSUME AccessConstants, TypeInv, [Next]_vars PROVE TypeInv'
<1>1. CASE UNCHANGED vars
  <2>1. Known' = Known /\ Call' = Call /\ SubRows' = SubRows
    BY DEF Known, Call, SubRows
  <2> QED
    BY <1>1, <2>1 DEF vars, TypeInv
<1>2. CASE Next
  BY <1>2, SubscriptionsKeepTypes, RequestsKeepTypes DEF Next, Request, Continue
<1> QED
  BY <1>1, <1>2

LEMMA TypesInductive == ASSUME AccessConstants PROVE Spec => []TypeInv
<1>1. Init => TypeInv
  BY TypesInit
<1>2. TypeInv /\ [Next]_vars => TypeInv'
  BY TypesNext
<1> QED
  BY <1>1, <1>2, PTL DEF Spec

\* Subscriptions, plan permissions and the cache keep their types, for any plans,
\* endpoints, bounds and calls in flight.
THEOREM AccessTypesHold ==
    ASSUME AccessConstants
    PROVE  Spec => []TypeOK
<1>1. TypeInv => TypeOK
  BY DEF TypeInv, TypeOK, AccessConstants, Known
<1> QED
  BY <1>1, TypesInductive, PTL

-----------------------------------------------------------------------------
\* Changes to a higher tier.

\* The changes that the catalogue accepts to a higher tier.
LEMMA Climbs ==
    ASSUME NEW from \in Plans, NEW to \in Plans,
           Tier[to] > Tier[from], CompatibleAudience(from, to)
    PROVE  \/ from = "free_courier" /\ to \in {"pro_courier", "enterprise_courier"}
           \/ from = "pro_courier" /\ to = "enterprise_courier"
           \/ from = "free_passenger" /\ to \in {"pro_passenger", "enterprise_passenger"}
           \/ from = "pro_passenger" /\ to = "enterprise_passenger"
           \/ /\ from \in {"free_courier", "pro_courier", "free_passenger", "pro_passenger"}
              /\ to = "enterprise_fleet"
BY DEF Plans, Tier, CompatibleAudience, Audience, Row

\* Permissions are only added on the way up...
LEMMA PermissionsGrow ==
    ASSUME NEW from \in Plans, NEW to \in Plans,
           Tier[to] > Tier[from], CompatibleAudience(from, to)
    PROVE  PlanPermissions[from] \subseteq PlanPermissions[to]
<1> DEFINE c == CourierPermissions
           p == PassengerPermissions
           f == FleetPermissions
<1>1. /\ PlanPermissions["free_courier"] = c.free_courier
      /\ PlanPermissions["pro_courier"] = c.pro_courier
      /\ PlanPermissions["enterprise_courier"] = c.enterprise_courier
      /\ PlanPermissions["free_passenger"] = p.free_passenger
      /\ PlanPermissions["pro_passenger"] = p.pro_passenger
      /\ PlanPermissions["enterprise_passenger"] = p.enterprise_passenger
      /\ PlanPermissions["enterprise_fleet"] = f.enterprise_fleet
  BY DEF PlanPermissions, Row
<1>2. /\ c.free_courier \subseteq c.pro_courier
      /\ c.pro_courier \subseteq c.enterprise_courier
  BY DEF CourierPermissions
<1>3. /\ p.pro_passenger = c.pro_courier \cup {"passenger.recurring", "passenger.manifest"}
      /\ p.enterprise_passenger =
             c.enterprise_courier \cup {"passenger.recurring", "passenger.manifest"}
      /\ p.enterprise_passenger \subseteq f.enterprise_fleet
  BY DEF PassengerPermissions, FleetPermissions
<1>4. p.free_passenger \subseteq c.pro_courier
  BY DEF PassengerPermissions, CourierPermissions
<1> HIDE DEF c, p, f
<1> QED
  BY <1>1, <1>2, <1>3, <1>4, Climbs

\* ...and limits only raised.
LEMMA LimitsGrow ==
    ASSUME NEW from \in Plans, NEW to \in Plans,
           Tier[to] > Tier[from], CompatibleAudience(from, to),
           NEW code \in DOMAIN PlanLimits,
           Null \notin {PlanLimits[code][from], PlanLimits[code][to]}
    PROVE  PlanLimits[code][from] <= PlanLimits[code][to]
<1>1. DOMAIN PlanLimits = {"maxShipmentsPerDay", "maxStopsPerOptimization", "max_drivers",
                           "max_users", "max_templates", "max_trucks"}
  BY DEF PlanLimits
<1>2. CASE code \in {"maxShipmentsPerDay", "max_drivers"}
  BY <1>2, Climbs DEF PlanLimits, ShipmentsPerDay, Row
<1>3. CASE code \in {"max_users", "max_templates", "max_trucks"}
  BY <1>3, Climbs DEF PlanLimits, Row
<1>4. CASE code = "maxStopsPerOptimization"
  BY <1>4, Climbs DEF PlanLimits, Row
<1> QED
  BY <1>1, <1>2, <1>3, <1>4

\* A change to a higher tier takes no permission away and lowers no limit, whatever
\* calls, payments and crashes overlap (upgradeSubscription, the payment).
THEOREM ClimbingKeepsAccess ==
    ASSUME AccessConstants
    PROVE  Spec => UpgradeKeepsAccess
<1> DEFINE Keeps ==
      \A s \in DOMAIN subs :
          (/\ Tier[subs'[s].plan] > Tier[subs[s].plan]
           /\ CompatibleAudience(subs[s].plan, subs'[s].plan))
              => NothingLost(subs[s].plan, subs'[s].plan)
<1>1. ASSUME TypeInv, Next, TypeInv' PROVE Keeps
  <2> SUFFICES ASSUME NEW s \in DOMAIN subs,
                      Tier[subs'[s].plan] > Tier[subs[s].plan],
                      CompatibleAudience(subs[s].plan, subs'[s].plan)
               PROVE  NothingLost(subs[s].plan, subs'[s].plan)
    OBVIOUS
  <2>1. DOMAIN subs \subseteq DOMAIN subs'
    <3>1. ASSUME NEW h \in Handlers, CreateFree(h) PROVE DOMAIN subs \subseteq DOMAIN subs'
      BY <3>1 DEF CreateFree
    <3>2. ASSUME NEW h \in Handlers, InsertFree(h) PROVE DOMAIN subs \subseteq DOMAIN subs'
      <4>1. \A row : DOMAIN Append(subs, row) = 1 .. Len(subs) + 1
        BY <1>1 DEF TypeInv
      <4> QED
        BY <1>1, <3>2, <4>1 DEF InsertFree, TypeInv
    <3>3. ASSUME NEW h \in Handlers, UpdatePlan(h) PROVE DOMAIN subs \subseteq DOMAIN subs'
      BY <3>3 DEF UpdatePlan
    <3>4. ASSUME NEW x \in DOMAIN subs, Paid(x) \/ Suspend(x)
          PROVE  DOMAIN subs \subseteq DOMAIN subs'
      BY <3>4 DEF Paid, Suspend
    <3>5. ASSUME \/ \E h \in Handlers :
                       \/ ChangePlan(h) \/ Invalidate(h) \/ Use(h) \/ MyPermissions(h)
                       \/ Load(h) \/ LoadFails(h) \/ SetCache(h) \/ Lose(h)
                 \/ \E plan \in Offered, code \in Edited : EditPermission(plan, code)
                 \/ Expire
          PROVE  subs' = subs
      BY <3>5 DEF ChangePlan, Invalidate, Use, MyPermissions, Load, LoadFails, SetCache,
                  Lose, EditPermission, Expire
    <3> QED
      BY <1>1, <3>1, <3>2, <3>3, <3>4, <3>5 DEF Next, Request, Continue
  <2>2. subs[s] \in SubRows /\ subs'[s] \in SubRows'
    BY <1>1, <2>1 DEF TypeInv
  <2>3. subs[s].plan \in Plans /\ subs'[s].plan \in Plans
    BY <2>2 DEF SubRows, AccessConstants
  <2> QED
    BY <2>3, PermissionsGrow, LimitsGrow DEF NothingLost
<1>2. UpgradeKeepsAccess <=> [][Keeps]_vars
  BY DEF UpgradeKeepsAccess
<1>3. TypeInv /\ [Next]_vars /\ TypeInv' => [Keeps]_vars
  BY <1>1
<1> HIDE DEF Keeps
<1> QED
  BY <1>2, <1>3, TypesInductive, PTL DEF Spec

-----------------------------------------------------------------------------
\* Active subscriptions.

\* The calls that have canceled the active subscriptions and have still to insert one.
Inserting == {h \in Handlers : calls[h] # Null /\ calls[h].step = "insert"}

\* Without changes of plan no row becomes active again, and each one that is active
\* was inserted by a call of its own since the last time that all were canceled.
ActiveInv ==
    /\ TypeInv
    /\ \A h \in Handlers : calls[h] # Null => calls[h].step # "update"
    /\ \A s \in DOMAIN subs : subs[s].status # "pending_payment"
    /\ Cardinality(Active) + Cardinality(Inserting) <= Cardinality(Handlers)

LEMMA FiniteCounts ==
    ASSUME AccessConstants, TypeInv
    PROVE  /\ IsFiniteSet(Active) /\ IsFiniteSet(Inserting)
           /\ Cardinality(Active) \in Nat /\ Cardinality(Inserting) \in Nat
           /\ Cardinality(Handlers) \in Nat
           /\ Cardinality(Inserting) <= Cardinality(Handlers)
<1>1. IsFiniteSet(1 .. Len(subs)) /\ Active \subseteq 1 .. Len(subs)
  BY FS_Interval DEF Active, TypeInv
<1>2. IsFiniteSet(Active)
  BY <1>1, FS_Subset
<1>3. IsFiniteSet(Handlers) /\ Inserting \subseteq Handlers
  BY DEF AccessConstants, Inserting
<1>4. IsFiniteSet(Inserting)
  BY <1>3, FS_Subset
<1> QED
  BY <1>2, <1>3, <1>4, FS_Subset, FS_CardinalityType

\* What shrinks keeps the bound.
LEMMA CountsShrink ==
    ASSUME AccessConstants, TypeInv, TypeInv',
           Cardinality(Active) + Cardinality(Inserting) <= Cardinality(Handlers),
           Active' \subseteq Active, Inserting' \subseteq Inserting
    PROVE  Cardinality(Active') + Cardinality(Inserting') <= Cardinality(Handlers)
<1>1. /\ Cardinality(Active') \in Nat /\ Cardinality(Active) \in Nat
      /\ Cardinality(Inserting') \in Nat /\ Cardinality(Inserting) \in Nat
      /\ Cardinality(Active') <= Cardinality(Active)
      /\ Cardinality(Inserting') <= Cardinality(Inserting)
  BY FiniteCounts, FS_Subset, FS_CardinalityType
<1>2. Cardinality(Handlers) \in Nat
  BY FS_CardinalityType DEF AccessConstants
<1> QED
  BY <1>1, <1>2

LEMMA ActiveNext ==
    ASSUME AccessConstants, Requests \cap {"upgrade", "downgrade"} = {},
           ActiveInv, Next, TypeInv'
    PROVE  ActiveInv'
<1> DEFINE Fits == Cardinality(Active) + Cardinality(Inserting) <= Cardinality(Handlers)
           Quiet == /\ \A h \in Handlers : calls[h] # Null => calls[h].step # "update"
                    /\ \A s \in DOMAIN subs : subs[s].status # "pending_payment"
<1> USE DEF ActiveInv
<1>1. ASSUME NEW h \in Handlers, CreateFree(h) PROVE Fits' /\ Quiet'
  <2>1. Active' = {}
    BY <1>1 DEF CreateFree, Active
  <2>2. Cardinality(Active') = 0
    BY <2>1, FS_EmptySet
  <2>3. /\ Cardinality(Inserting') \in Nat
        /\ Cardinality(Inserting') <= Cardinality(Handlers)
    <3>1. IsFiniteSet(Handlers) /\ Inserting' \subseteq Handlers
      BY DEF AccessConstants, Inserting
    <3> QED
      BY <3>1, FS_Subset, FS_CardinalityType
  <2>4. Quiet'
    BY <1>1 DEF CreateFree, TypeInv
  <2> QED
    BY <2>2, <2>3, <2>4
<1>2. ASSUME NEW h \in Handlers, InsertFree(h) PROVE Fits' /\ Quiet'
  <2> DEFINE new == Len(subs) + 1
  <2>1. Len(subs) \in Nat /\ DOMAIN subs = 1 .. Len(subs) /\ DOMAIN subs' = 1 .. new
    BY <1>2 DEF InsertFree, TypeInv
  <2>2. /\ subs'[new].status = "active"
        /\ \A s \in 1 .. Len(subs) : subs'[s] = subs[s]
    BY <1>2 DEF InsertFree, TypeInv
  <2>3. Active' = Active \cup {new}
    BY <2>1, <2>2 DEF Active
  <2>4. Inserting' = Inserting \ {h} /\ h \in Inserting
    BY <1>2 DEF InsertFree, Inserting, Idle, TypeInv
  <2>5. Cardinality(Active') <= Cardinality(Active) + 1
    <3>1. new \notin Active
      BY <2>1 DEF Active
    <3>2. IsFiniteSet(Active) /\ Cardinality(Active) \in Nat
      BY FiniteCounts
    <3> HIDE DEF new
    <3>3. Cardinality(Active \cup {new}) = Cardinality(Active) + 1
      BY <3>1, <3>2, FS_AddElement
    <3> QED
      BY <2>3, <3>2, <3>3
  <2>6. Cardinality(Inserting') = Cardinality(Inserting) - 1
    BY <2>4, FS_RemoveElement, FiniteCounts
  <2>7. Cardinality(Active') \in Nat
    BY <2>3, FS_AddElement, FiniteCounts, FS_CardinalityType
  <2>8. Quiet'
    <3>1. \A g \in Handlers : calls'[g] # Null => calls'[g].step # "update"
      BY <1>2 DEF InsertFree, Idle, TypeInv
    <3>2. \A s \in 1 .. new : subs'[s].status # "pending_payment"
      BY <2>1, <2>2
    <3> HIDE DEF new
    <3> QED
      BY <2>1, <3>1, <3>2
  <2> QED
    BY <2>5, <2>6, <2>7, <2>8, FiniteCounts
<1>3. ASSUME NEW h \in Handlers,
             \/ Invalidate(h) \/ Use(h) \/ MyPermissions(h) \/ Load(h) \/ LoadFails(h)
             \/ SetCache(h) \/ Lose(h)
      PROVE  Fits' /\ Quiet'
  <2>1. subs' = subs /\ Active' = Active
    BY <1>3 DEF Invalidate, Use, MyPermissions, Load, LoadFails, SetCache, Lose, Active
  <2>2. \/ calls' = calls
        \/ \E call : calls' = [calls EXCEPT ![h] = call]
                    /\ (call # Null => call.step \notin {"insert", "update"})
    BY <1>3 DEF Invalidate, Use, MyPermissions, Load, LoadFails, Loaded, SetCache, Lose
  <2>3. Inserting' \subseteq Inserting /\ Quiet'
    BY <2>1, <2>2 DEF Inserting, TypeInv
  <2> QED
    BY <2>1, <2>3, CountsShrink
<1>4. ASSUME NEW s \in DOMAIN subs, Suspend(s) PROVE Fits' /\ Quiet'
  <2>1. Active' \subseteq Active /\ Inserting' = Inserting /\ Quiet'
    BY <1>4 DEF Suspend, Active, Inserting, TypeInv
  <2> QED
    BY <2>1, CountsShrink
<1>5. ASSUME NEW plan \in Offered, NEW code \in Edited, EditPermission(plan, code)
      PROVE  Fits' /\ Quiet'
  BY <1>5 DEF EditPermission, Active, Inserting
<1>6. ASSUME Expire PROVE Fits' /\ Quiet'
  BY <1>6 DEF Expire, Active, Inserting
<1>7. \A h \in Handlers : ~ChangePlan(h) /\ ~UpdatePlan(h)
  BY DEF ChangePlan, UpdatePlan, Idle
<1>8. \A s \in DOMAIN subs : ~Paid(s)
  BY DEF Paid
<1> HIDE DEF Fits, Quiet
<1>9. Fits' /\ Quiet'
  BY <1>1, <1>2, <1>3, <1>4, <1>5, <1>6, <1>7, <1>8 DEF Next, Request, Continue
<1> QED
  BY <1>9 DEF Fits, Quiet

\* Whatever free subscriptions are created at the same time, used, suspended, or left
\* behind by crashes, a company has no more active ones than calls that overlap
\* (createFreeSubscription).
THEOREM OverlapBoundsActivePlans ==
    ASSUME AccessConstants, Requests \cap {"upgrade", "downgrade"} = {}
    PROVE  Spec => []ActivePlansNearOne
<1>1. Init => ActiveInv
  <2> SUFFICES ASSUME Init PROVE ActiveInv
    OBVIOUS
  <2>1. Active = {} /\ Inserting = {}
    BY DEF Init, Active, Inserting
  <2>2. Cardinality(Active) = 0 /\ Cardinality(Inserting) = 0
    BY <2>1, FS_EmptySet
  <2>3. Cardinality(Handlers) \in Nat
    BY FS_CardinalityType DEF AccessConstants
  <2> QED
    BY <2>2, <2>3, TypesInit DEF ActiveInv, Init
<1>2. ActiveInv /\ [Next]_vars => ActiveInv'
  <2>1. ASSUME ActiveInv, UNCHANGED vars PROVE ActiveInv'
    <3>1. TypeInv' /\ Active' = Active /\ Inserting' = Inserting
      BY <2>1, TypesNext DEF vars, ActiveInv, Active, Inserting
    <3> QED
      BY <2>1, <3>1 DEF vars, ActiveInv
  <2>2. ActiveInv /\ Next => ActiveInv'
    BY ActiveNext, TypesNext DEF ActiveInv
  <2> QED
    BY <2>1, <2>2
<1>3. ActiveInv => ActivePlansNearOne
  BY FiniteCounts DEF ActiveInv, ActivePlansNearOne
<1> QED
  BY <1>1, <1>2, <1>3, PTL DEF Spec
=============================================================================
