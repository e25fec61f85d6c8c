------------------------------ MODULE Expenses ------------------------------
(***************************************************************************)
(* The expenses of one company: ExpensesService on the table "expenses",   *)
(* and the notifications of ExpenseNotificationListener, which runs after  *)
(* the request that created the expense has been answered.                 *)
(***************************************************************************)
EXTENDS Integers, FiniteSets

CONSTANTS
    Null,
    Ids,       \* expenses
    People,    \* people of the company
    Role,      \* People -> role of each
    Handlers,
    MaxLost    \* bound: calls and notifications lost in a crash

VARIABLES
    expenses, \* Ids -> row, Null before it is created
    events,   \* EXPENSE_CREATED, emitted and not yet handled
    notified, \* notifications written: pairs of expense and person
    calls,    \* Handlers -> the call in flight, or Idle
    lost

vars == <<expenses, events, notified, calls, lost>>

Statuses == {"pending", "approved", "rejected", "reimbursed"}

\* urgent: the category is fuel, toll, maintenance or repair.
Row == [status : Statuses, by : People, urgent : BOOLEAN, gone : BOOLEAN]

Call == [step : {"idle", "insert", "save", "remove"}, id : Ids \cup {Null},
         row : Row \cup {Null}]

Idle == [step |-> "idle", id |-> Null, row |-> Null]

Init ==
    /\ expenses = [e \in Ids |-> Null]
    /\ events = {} /\ notified = {}
    /\ calls = [h \in Handlers |-> Idle]
    /\ lost = 0

-----------------------------------------------------------------------------

\* What findOne() finds.
Found == {e \in Ids : expenses[e] # Null /\ ~expenses[e].gone}

\* The roles that the endpoints name, and those that are notified.
Creates(p) == Role[p] \in {"company_owner", "admin", "manager", "dispatcher", "driver"}

Edits(p) == Role[p] \in {"company_owner", "admin", "manager", "driver"}

Decides(p) == Role[p] \in {"company_owner", "admin", "manager", "accountant"}

Reimburses(p) == Role[p] \in {"company_owner", "admin", "accountant"}

IsNotified(p) == Role[p] \in {"company_owner", "admin", "manager"}

\* A driver reaches the expenses that he created.
Reaches(p, e) == Role[p] = "driver" => expenses[e].by = p

Hold(h, step, e, row) ==
    /\ calls[h] = Idle
    /\ calls' = [calls EXCEPT ![h] = [step |-> step, id |-> e, row |-> row]]
    /\ UNCHANGED <<expenses, events, notified, lost>>

End(h) == calls' = [calls EXCEPT ![h] = Idle]

Create(h, e, p, urgent) ==
    /\ Creates(p)
    /\ expenses[e] = Null /\ \A g \in Handlers : calls[g].id # e
    /\ Hold(h, "insert", e, [status |-> "pending", by |-> p, urgent |-> urgent,
                             gone |-> FALSE])

\* Category and amount may be edited while the expense is pending.
Update(h, e, p, urgent) ==
    /\ e \in Found /\ Edits(p) /\ Reaches(p, e) /\ expenses[e].status = "pending"
    /\ Hold(h, "save", e, [expenses[e] EXCEPT !.urgent = urgent])

\* Mutant: a rejected expense may be approved.
DecideAgain(h, e, p, decision) ==
    /\ e \in Found /\ Decides(p)
    /\ expenses[e].status \in {"pending", "rejected"}
    /\ Hold(h, "save", e, [expenses[e] EXCEPT !.status = decision])

\* approve() and reject().
Decide(h, e, p, decision) ==
    /\ e \in Found /\ Decides(p) /\ expenses[e].status = "pending"
    /\ Hold(h, "save", e, [expenses[e] EXCEPT !.status = decision])

Reimburse(h, e, p) ==
    /\ e \in Found /\ Reimburses(p) /\ expenses[e].status = "approved"
    /\ Hold(h, "save", e, [expenses[e] EXCEPT !.status = "reimbursed"])

Remove(h, e, p) ==
    /\ e \in Found /\ Edits(p) /\ Reaches(p, e) /\ expenses[e].status # "reimbursed"
    /\ Hold(h, "remove", e, expenses[e])

\* The event is emitted once the row is there, and nobody waits for it.
Insert(h) ==
    LET c == calls[h] IN
    /\ c.step = "insert"
    /\ expenses' = [expenses EXCEPT ![c.id] = c.row]
    /\ events' = events \cup {[id |-> c.id, by |-> c.row.by, urgent |-> c.row.urgent]}
    /\ End(h)
    /\ UNCHANGED <<notified, lost>>

Save(h) ==
    /\ calls[h].step = "save"
    /\ expenses' = [expenses EXCEPT ![calls[h].id] = calls[h].row]
    /\ End(h)
    /\ UNCHANGED <<events, notified, lost>>

SoftRemove(h) ==
    /\ calls[h].step = "remove"
    /\ expenses' = [expenses EXCEPT ![calls[h].id].gone = TRUE]
    /\ End(h)
    /\ UNCHANGED <<events, notified, lost>>

\* The listener notifies those in charge, except who created the expense;
\* one notification that fails does not stop the others.
Notify(event, reached) ==
    /\ event \in events
    /\ reached \subseteq (IF event.urgent THEN {p \in People \ {event.by} : IsNotified(p)} ELSE {})
    /\ events' = events \ {event}
    /\ notified' = notified \cup {<<event.id, p>> : p \in reached}
    /\ UNCHANGED <<expenses, calls, lost>>

\* The process dies: a call stops half-way.
Crash(h) ==
    /\ calls[h] # Idle /\ lost < MaxLost
    /\ lost' = lost + 1
    /\ End(h)
    /\ UNCHANGED <<expenses, events, notified>>

Next ==
    \/ \E h \in Handlers :
          \/ \E e \in Ids, p \in People :
                \/ \E urgent \in BOOLEAN : Create(h, e, p, urgent) \/ Update(h, e, p, urgent)
                \/ \E decision \in {"approved", "rejected"} : Decide(h, e, p, decision)
                \/ Reimburse(h, e, p) \/ Remove(h, e, p)
          \/ Insert(h) \/ Save(h) \/ SoftRemove(h) \/ Crash(h)
    \/ \E event \in events : \E reached \in SUBSET People : Notify(event, reached)

Spec == Init /\ [][Next]_vars

-----------------------------------------------------------------------------

Stage == [e \in Ids |->
    IF expenses[e] = Null THEN "none"
    ELSE IF expenses[e].gone THEN "withdrawn"
    ELSE CASE expenses[e].status = "pending" -> "open"
           [] expenses[e].status = "approved" -> "granted"
           [] expenses[e].status = "rejected" -> "refused"
           [] expenses[e].status = "reimbursed" -> "closed"]

Abstract == INSTANCE Decisions WITH Matters <- Ids, stage <- Stage

\* Requests one after the other: an expense is decided once, reimbursed once
\* and only when approved, and kept when it is.
RefinesDecisions == Abstract!Spec
=============================================================================
