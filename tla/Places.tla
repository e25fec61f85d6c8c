------------------------------- MODULE Places --------------------------------
\* Addresses: the geocoding service with its cache and its provider, the company's
\* saved addresses, and its library of routes.
EXTENDS Integers, FiniteSets, Sequences

CONSTANTS
    Null,
    Texts, Countries,             \* what a search may ask; a text stands for its normal form
    Labels,                       \* names of saved addresses
    Handlers, Requests,
    MaxAnswers,                   \* versions of the provider's data
    MaxRows, MaxLost

VARIABLES
    edition,         \* the provider's data changes: its edition
    cache,           \* geocoding answers by key: the edition they are from and the question
    answers,         \* what callers were given: [question, asked, from]
    addresses,       \* saved_addresses: [label, deleted]
    routes,          \* routes: [status, deleted]
    calls, lost

vars == <<edition, cache, answers, addresses, routes, calls, lost>>
geo == <<edition, cache, answers>>

Questions ==
    [kind : {"search", "reverse"}, text : Texts, country : Countries, limit : {1, 5}]

\* Mutant: the limit is left out of the key, so validate() answers autocomplete.
KeyWithoutLimit(q) == [q EXCEPT !.limit = 1]

\* searchKey and reverseKey: the reverse key has no limit, and no caller gives one.
\* Keys that differ are taken to hash apart.
Key(q) == IF q.kind = "search" THEN q ELSE [q EXCEPT !.limit = 1]

Keys == [kind : {"search", "reverse"}, text : Texts, country : Countries, limit : {1, 5}]

RouteStatuses == {"draft", "active", "archived"}

Init ==
    /\ edition = 1 /\ cache = [k \in Keys |-> Null] /\ answers = {}
    /\ addresses = <<>> /\ routes = <<>>
    /\ calls = [h \in Handlers |-> Null] /\ lost = 0

Idle(h) == calls[h] = Null
At(h, step) == ~Idle(h) /\ calls[h].step = step
Moves(h, call) == calls' = [calls EXCEPT ![h] = call]

-----------------------------------------------------------------------------
\* Geocoding.  The cache fails silently: a read that fails is a miss, a write that
\* fails is skipped.

Given(q, question, from) == answers' = answers \cup {[asked |-> q, question |-> question, from |-> from]}

Ask(h) ==
    /\ "geocode" \in Requests /\ Idle(h)
    /\ \E q \in Questions :
        /\ q.kind = "reverse" => q.limit = 1
        /\ \/ /\ cache[Key(q)] # Null
              /\ Given(q, cache[Key(q)].question, cache[Key(q)].edition)
              /\ UNCHANGED calls
           \/ Moves(h, [step |-> "provider", question |-> q, tries |-> 0]) /\ UNCHANGED answers
    /\ UNCHANGED <<edition, cache, addresses, routes, lost>>

\* callJson: a 5xx, a timeout or a broken connection is tried once more, a 4xx not.
Answered(h) ==
    /\ At(h, "provider")
    /\ \/ Moves(h, [step |-> "fill", question |-> calls[h].question, from |-> edition])
       \/ calls[h].tries < 1 /\ Moves(h, [calls[h] EXCEPT !.tries = @ + 1])
       \/ Moves(h, Null)
    /\ UNCHANGED <<geo, addresses, routes, lost>>

Fill(h) ==
    /\ At(h, "fill")
    /\ LET q == calls[h].question
       IN  /\ \/ cache' = [cache EXCEPT ![Key(q)] = [question |-> q, edition |-> calls[h].from]]
              \/ UNCHANGED cache
           /\ Given(q, q, calls[h].from)
    /\ Moves(h, Null)
    /\ UNCHANGED <<edition, addresses, routes, lost>>

\* The entry's time to live is over.
Expire ==
    /\ "geocode" \in Requests
    /\ \E k \in Keys : cache[k] # Null /\ cache' = [cache EXCEPT ![k] = Null]
    /\ UNCHANGED <<edition, answers, addresses, routes, calls, lost>>

\* External: the provider's map is updated.
NewEdition ==
    /\ "geocode" \in Requests /\ edition < MaxAnswers /\ edition' = edition + 1
    /\ UNCHANGED <<cache, answers, addresses, routes, calls, lost>>

-----------------------------------------------------------------------------
\* Saved addresses: unique by label among those that are not deleted.

\* What findAll lists and findOne finds.
LiveAddresses == {a \in DOMAIN addresses : ~addresses[a].deleted}

Holds(label) == \E a \in LiveAddresses : addresses[a].label = label

\* create looks for the label; the insert meets the unique index.
SaveAddress(h) ==
    /\ "addresses" \in Requests /\ Idle(h) /\ Len(addresses) < MaxRows
    /\ \E l \in Labels :
        ~Holds(l) /\ Moves(h, [step |-> "address", row |-> [label |-> l, deleted |-> FALSE], at |-> 0])
    /\ UNCHANGED <<geo, addresses, routes, lost>>

\* update loads the row, looks for the new label, and saves the copy whole.
EditAddress(h) ==
    /\ "addresses" \in Requests /\ Idle(h)
    /\ \E a \in LiveAddresses, l \in Labels :
        /\ l # addresses[a].label => ~Holds(l)
        /\ Moves(h, [step |-> "address", row |-> [addresses[a] EXCEPT !.label = l], at |-> a])
    /\ UNCHANGED <<geo, addresses, routes, lost>>

\* The index refuses a label that another live row holds.
StoreAddress(h) ==
    /\ At(h, "address")
    /\ LET row == calls[h].row
           at == calls[h].at
           taken == \E a \in LiveAddresses \ {at} : addresses[a].label = row.label
       IN  IF taken THEN UNCHANGED addresses
           ELSE IF at = 0
           THEN Len(addresses) < MaxRows /\ addresses' = Append(addresses, row)
           ELSE addresses' = [addresses EXCEPT ![at] = row]
    /\ Moves(h, Null)
    /\ UNCHANGED <<geo, routes, lost>>

RemoveAddress ==
    /\ "addresses" \in Requests
    /\ \E a \in LiveAddresses : addresses' = [addresses EXCEPT ![a].deleted = TRUE]
    /\ UNCHANGED <<geo, routes, calls, lost>>

-----------------------------------------------------------------------------
\* Routes: create, duplicate as a draft, change the status, remove.

\* What findAll lists and findOne finds.
LiveRoutes == {r \in DOMAIN routes : ~routes[r].deleted}

AddRoute ==
    /\ "routes" \in Requests /\ Len(routes) < MaxRows
    /\ \E status \in RouteStatuses : routes' = Append(routes, [status |-> status, deleted |-> FALSE])
    /\ UNCHANGED <<geo, addresses, calls, lost>>

DuplicateRoute(r) ==
    /\ Len(routes) < MaxRows
    /\ routes' = Append(routes, [routes[r] EXCEPT !.status = "draft"])
    /\ UNCHANGED <<geo, addresses, calls, lost>>

\* update, activate and archive save the loaded copy.
EditRoute(h, r) ==
    /\ "routes" \in Requests /\ Idle(h)
    /\ \E status \in RouteStatuses :
        Moves(h, [step |-> "route", row |-> [routes[r] EXCEPT !.status = status], at |-> r])
    /\ UNCHANGED <<geo, addresses, routes, lost>>

StoreRoute(h) ==
    /\ At(h, "route")
    /\ routes' = [routes EXCEPT ![calls[h].at] = calls[h].row] /\ Moves(h, Null)
    /\ UNCHANGED <<geo, addresses, lost>>

RemoveRoute(r) ==
    /\ "routes" \in Requests /\ routes' = [routes EXCEPT ![r].deleted = TRUE]
    /\ UNCHANGED <<geo, addresses, calls, lost>>

Lose(h) ==
    /\ ~Idle(h) /\ lost < MaxLost /\ lost' = lost + 1 /\ Moves(h, Null)
    /\ UNCHANGED <<geo, addresses, routes>>

Next ==
    \/ \E h \in Handlers :
        \/ Ask(h) \/ Answered(h) \/ Fill(h) \/ Lose(h)
        \/ SaveAddress(h) \/ EditAddress(h) \/ StoreAddress(h) \/ StoreRoute(h)
        \/ \E r \in LiveRoutes : EditRoute(h, r)
    \/ Expire \/ NewEdition \/ RemoveAddress \/ AddRoute
    \/ \E r \in LiveRoutes : DuplicateRoute(r) \/ RemoveRoute(r)

Spec == Init /\ [][Next]_vars

-----------------------------------------------------------------------------
\* Rows keep their types.
TypeOK ==
    /\ \A k \in Keys : cache[k] # Null => cache[k].question \in Questions
    /\ \A a \in DOMAIN addresses : addresses[a] \in [label : Labels, deleted : BOOLEAN]
    /\ \A r \in DOMAIN routes : routes[r] \in [status : RouteStatuses, deleted : BOOLEAN]

\* Whatever calls fill the cache at the same time, a caller is given an answer to the
\* question he asked, which the provider did give at some time (GeocodingCacheService).
AnswersTheQuestion == \A a \in answers : a.question = a.asked /\ a.from <= edition
==============================================================================
