---------------------------- MODULE Verification ----------------------------
(***************************************************************************)
(* How one company becomes active and compliant: CompaniesService,         *)
(* VerificationsService, the administrator's endpoint for companies and    *)
(* ComplianceService.                                                      *)
(*                                                                         *)
(* A call loads and checks in one step and saves its copy in a later one.  *)
(* Of dates only whether they have passed counts.                          *)
(***************************************************************************)
EXTENDS Integers, FiniteSets

CONSTANTS
    Null,
    Ids,       \* verifications
    Handlers,
    Requests,  \* the requests that people send: a subset of RequestKinds
    MaxLost    \* bound: calls that crash between two steps

RequestKinds ==
    {"create", "submit", "review", "edit", "remove", "admin"}

VARIABLES
    company,       \* row of the company
    verifications, \* Ids -> row, Null before it is created
    calls,         \* Handlers -> the call in flight, or Idle
    lost

vars == <<company, verifications, calls, lost>>

ServiceTypes == {"freight", "passenger", "mixed"}

TierCodes == {"basic", "passenger_safe"}

CompanyStatuses == {"pending_verification", "active", "suspended", "inactive"}

Company == [status : CompanyStatuses, service : ServiceTypes, gone : BOOLEAN]

\* valid: expires_at has not passed.
VerificationRow ==
    [tier : TierCodes, status : {"pending", "in_review", "approved", "rejected"},
     valid : BOOLEAN]

Call == [step : {"idle", "saveCompany", "removeCompany", "activate", "save"},
         id : Ids \cup {Null}, row : VerificationRow \cup Company \cup {Null}]

Idle == [step |-> "idle", id |-> Null, row |-> Null]

\* Type correctness of the rows and of the calls in flight.
TypeOK ==
    /\ company \in Company
    /\ verifications \in [Ids -> VerificationRow \cup {Null}]
    /\ calls \in [Handlers -> Call]
    /\ lost \in 0 .. MaxLost

\* register() or an administrator has created the company.
Init ==
    /\ company \in [status : {"pending_verification"}, service : ServiceTypes,
                    gone : {FALSE}]
    /\ verifications = [i \in Ids |-> Null]
    /\ calls = [h \in Handlers |-> Idle]
    /\ lost = 0

-----------------------------------------------------------------------------

Request(h, kind) ==
    /\ kind \in Requests
    /\ calls[h] = Idle

Hold(h, step, i, row) ==
    /\ calls' = [calls EXCEPT ![h] = [step |-> step, id |-> i, row |-> row]]
    /\ UNCHANGED <<company, verifications, lost>>

End(h) == calls' = [calls EXCEPT ![h] = Idle]

Existing == {i \in Ids : verifications[i] # Null}

\* CompaniesService.update() writes every column of the copy, status too.
UpdateCompany(h, service) ==
    /\ Request(h, "edit") /\ ~company.gone
    /\ Hold(h, "saveCompany", Null, [company EXCEPT !.service = service])

RemoveCompany(h) ==
    /\ Request(h, "remove") /\ ~company.gone
    /\ Hold(h, "removeCompany", Null, Null)

\* A super admin writes the status, in one UPDATE.
UpdateCompanyByAdmin(h, status) ==
    /\ Request(h, "admin")
    /\ company' = [company EXCEPT !.status = status]
    /\ UNCHANGED <<verifications, calls, lost>>

\* The tier is looked up, the company is not.
Create(h, i, tier) ==
    /\ Request(h, "create")
    /\ verifications[i] = Null /\ \A g \in Handlers : calls[g].id # i
    /\ Hold(h, "save", i, [tier |-> tier, status |-> "pending", valid |-> TRUE])

\* Mutant: whatever is not under review may be sent for review.
SubmitAgain(h, i) ==
    /\ Request(h, "submit")
    /\ i \in Existing /\ verifications[i].status # "in_review"
    /\ Hold(h, "save", i, [verifications[i] EXCEPT !.status = "in_review"])

Submit(h, i) ==
    /\ Request(h, "submit")
    /\ i \in Existing /\ verifications[i].status = "pending"
    /\ Hold(h, "save", i, [verifications[i] EXCEPT !.status = "in_review"])

\* Mutant: the verification is saved first, and the company never.
ReviewWithoutCompany(h, i, decision) ==
    /\ Request(h, "review")
    /\ i \in Existing /\ verifications[i].status = "in_review"
    /\ Hold(h, "save", i, [verifications[i] EXCEPT !.status = decision, !.valid = TRUE])

\* An approval activates the company before it is saved.
Review(h, i, decision) ==
    /\ Request(h, "review")
    /\ i \in Existing /\ verifications[i].status = "in_review"
    /\ Hold(h, IF decision = "approved" THEN "activate" ELSE "save", i,
            [verifications[i] EXCEPT !.status = decision, !.valid = TRUE])

Activate(h) ==
    /\ calls[h].step = "activate"
    /\ company' = [company EXCEPT !.status = "active"]
    /\ calls' = [calls EXCEPT ![h].step = "save"]
    /\ UNCHANGED <<verifications, lost>>

Save(h) ==
    /\ calls[h].step = "save"
    /\ verifications' = [verifications EXCEPT ![calls[h].id] = calls[h].row]
    /\ End(h)
    /\ UNCHANGED <<company, lost>>

SaveCompany(h) ==
    /\ calls[h].step = "saveCompany"
    /\ company' = calls[h].row
    /\ End(h)
    /\ UNCHANGED <<verifications, lost>>

SoftRemoveCompany(h) ==
    /\ calls[h].step = "removeCompany"
    /\ company' = [company EXCEPT !.gone = TRUE]
    /\ End(h)
    /\ UNCHANGED <<verifications, lost>>

\* validityDays go by after an approval.
Expire(i) ==
    /\ i \in Existing
    /\ verifications[i].status = "approved" /\ verifications[i].valid
    /\ verifications' = [verifications EXCEPT ![i].valid = FALSE]
    /\ UNCHANGED <<company, calls, lost>>

Crash(h) ==
    /\ calls[h] # Idle /\ lost < MaxLost
    /\ lost' = lost + 1
    /\ End(h)
    /\ UNCHANGED <<company, verifications>>

Next ==
    \/ \E h \in Handlers :
          \/ \E i \in Ids :
                \/ \E tier \in TierCodes : Create(h, i, tier)
                \/ Submit(h, i)
                \/ \E decision \in {"approved", "rejected"} : Review(h, i, decision)
          \/ \E service \in ServiceTypes : UpdateCompany(h, service)
          \/ \E status \in CompanyStatuses : UpdateCompanyByAdmin(h, status)
          \/ RemoveCompany(h)
          \/ Activate(h) \/ Save(h) \/ SaveCompany(h) \/ SoftRemoveCompany(h) \/ Crash(h)
    \/ \E i \in Ids : Expire(i)

Spec == Init /\ [][Next]_vars

-----------------------------------------------------------------------------
\* What the services answer.

\* ComplianceService: MV-002.
RequiredTier == IF company.service = "freight" THEN Null ELSE "passenger_safe"

Approved == {i \in Existing : verifications[i].status = "approved"}

HasApprovedTier(code) ==
    \E i \in Approved : verifications[i].valid /\ verifications[i].tier = code

\* The company is loaded first: one that was removed is not found.
CanOperate ==
    /\ ~company.gone
    /\ RequiredTier = Null \/ HasApprovedTier(RequiredTier)

-----------------------------------------------------------------------------

\* An approved verification has activated its company, even when a second
\* review of it overlaps or the process dies half-way, so that a company is
\* not approved and locked out: a review cannot be repeated.
ApprovalActivates == Approved # {} => company.status = "active"

OperatesWithCause ==
    /\ CanOperate => \/ CanOperate' \/ company'.gone
                     \/ company'.service # company.service
                     \/ \E i \in Approved : verifications[i].valid # verifications'[i].valid
    /\ CanOperate' => \/ CanOperate
                      \/ company'.service # company.service
                      \/ company.status = "active"

\* Requests one after the other: the right to operate ends with time, with a removal
\* or with a new kind of service, never with a review; and it is gained with the kind
\* of service or by an approval of a company that is active already, although a review
\* may die between its two writes and an administrator writes the status between requests.
RightToOperate == [][OperatesWithCause]_vars

Stage == [i \in Ids |->
    IF verifications[i] = Null THEN "none"
    ELSE CASE verifications[i].status \in {"pending", "in_review"} -> "open"
           [] verifications[i].status = "approved" -> "granted"
           [] verifications[i].status = "rejected" -> "refused"]

Abstract == INSTANCE Decisions WITH Matters <- Ids, stage <- Stage

\* Reviews one after the other: a verification is decided once.
RefinesDecisions == Abstract!Spec
=============================================================================
