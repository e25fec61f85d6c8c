--------------------------- MODULE Relationships ----------------------------
(***************************************************************************)
(* Relations between a carrier and its customers: RelationshipsService on  *)
(* the tables "company_relationships" and "company_relationship_logs".  The*)
(* row is saved first and the entry of the log in a statement of its own.  *)
(***************************************************************************)
EXTENDS Integers, FiniteSets

CONSTANTS
    Null,
    Ids,      \* relations
    Handlers,
    MaxLost   \* bound: calls that crash between two steps

VARIABLES
    relations, \* Ids -> status, "none" before it is created
    log,       \* Ids -> entries of its log: pairs fromStatus, toStatus
    calls,     \* Handlers -> the call in flight, or Idle
    lost

vars == <<relations, log, calls, lost>>

Statuses == {"none", "pending", "accepted", "rejected", "blocked"}

Call == [step : {"idle", "save", "log"}, id : Ids \cup {Null},
         from : Statuses, to : Statuses]

Idle == [step |-> "idle", id |-> Null, from |-> "none", to |-> "none"]

Init ==
    /\ relations = [r \in Ids |-> "none"]
    /\ log = [r \in Ids |-> {}]
    /\ calls = [h \in Handlers |-> Idle]
    /\ lost = 0

-----------------------------------------------------------------------------

\* A request loads a relation in one status and will save another.
Hold(h, r, from, to) ==
    /\ calls[h] = Idle
    /\ relations[r] = from
    /\ calls' = [calls EXCEPT ![h] = [step |-> "save", id |-> r, from |-> from, to |-> to]]
    /\ UNCHANGED <<relations, log, lost>>

Create(h, r) ==
    /\ \A g \in Handlers : calls[g].id # r
    /\ Hold(h, r, "none", "pending")

Respond(h, r, decision) == Hold(h, r, "pending", decision)

Terminate(h, r) == Hold(h, r, "accepted", "blocked")

Save(h) ==
    LET c == calls[h] IN
    /\ c.step = "save"
    /\ relations' = [relations EXCEPT ![c.id] = c.to]
    /\ calls' = [calls EXCEPT ![h].step = "log"]
    /\ UNCHANGED <<log, lost>>

AddLog(h) ==
    LET c == calls[h] IN
    /\ c.step = "log"
    /\ log' = [log EXCEPT ![c.id] = @ \cup {<<c.from, c.to>>}]
    /\ calls' = [calls EXCEPT ![h] = Idle]
    /\ UNCHANGED <<relations, lost>>

Crash(h) ==
    /\ calls[h] # Idle /\ lost < MaxLost
    /\ lost' = lost + 1
    /\ calls' = [calls EXCEPT ![h] = Idle]
    /\ UNCHANGED <<relations, log>>

Next ==
    \E h \in Handlers :
        \/ Save(h) \/ AddLog(h) \/ Crash(h)
        \/ \E r \in Ids :
              \/ Create(h, r) \/ Terminate(h, r)
              \/ \E decision \in {"accepted", "rejected"} : Respond(h, r, decision)

Spec == Init /\ [][Next]_vars

-----------------------------------------------------------------------------

Stage == [r \in Ids |->
    CASE relations[r] = "none" -> "none"
      [] relations[r] = "pending" -> "open"
      [] relations[r] = "accepted" -> "granted"
      [] relations[r] = "rejected" -> "refused"
      [] relations[r] = "blocked" -> "closed"]

Abstract == INSTANCE Decisions WITH Matters <- Ids, stage <- Stage

\* Requests one after the other: an invitation is answered once, and only an
\* accepted relation is terminated.
RefinesDecisions == Abstract!Spec
=============================================================================
