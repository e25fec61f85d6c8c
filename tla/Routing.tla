------------------------------- MODULE Routing -------------------------------
\* Ordering the stops of a delivery run: the four strategies, what they make of a
\* provider's answer, the fallback to Haversine, and OptimizationService.optimizeRun,
\* which loads the run, waits for a strategy, saves its copy and numbers the stops.
\* Distances: the coordinates are integers on a line with the depot at 0, so that a
\* distance is exact; kilometres, minutes and ETAs are sums of these.
EXTENDS Integers, Sequences, SequencesExt, FiniteSets, Functions

CONSTANTS
    Null, Stops,
    Coordinates,                  \* where a destination may be
    Handlers,                     \* calls in flight
    Providers,                    \* the strategies that may be asked for
    Answers,                      \* the arrays a remote service may send: any numbers
    Requests,                     \* what else may happen, see Next
    DailyLimit,                   \* maxReoptimizationsPerDay
    MaxCalls, MaxLost

VARIABLES
    place,           \* the destination of each shipment, Null when it has no coordinates
    listed,          \* the shipments of the run, as the query returns them
    run,             \* its row: [status, sequence]
    number,          \* run_sequence of each shipment, 0 when it has none
    counter,         \* reoptimizations of the day, in the cache
    begun,           \* calls begun
    calls, lost

vars == <<place, listed, run, number, counter, begun, calls, lost>>
world == <<place, listed>>
bounds == <<begun, lost>>

Run == [status : {"planned", "in_progress"}, sequence : Seq(Stops)]

\* The shipments are in the run as they were attached, one after the other.  The places
\* range over every function, so one order of the shipments stands for all; those of
\* shipments outside the run are never looked at.
Init ==
    /\ place \in [Stops -> Coordinates \cup {Null}]
    /\ \E members \in SUBSET Stops :
        /\ listed = SetToSeq(members)
        /\ \A s \in Stops \ members : place[s] = Null
    /\ run = [status |-> "planned", sequence |-> listed]
    /\ number = [s \in Stops |-> IF s \in Range(listed)
                                THEN CHOOSE i \in DOMAIN listed : listed[i] = s ELSE 0]
    /\ counter = 0 /\ begun = 0 /\ lost = 0
    /\ calls = [h \in Handlers |-> Null]

-----------------------------------------------------------------------------
\* Strategies.  A tour is a sequence of stops; it starts at the origin.

Distance(a, b) == IF a < b THEN b - a ELSE a - b

\* From the origin to the last stop (totalDistanceFromOrigin).
Length(origin, tour) ==
    LET from == [i \in DOMAIN tour |-> IF i = 1 THEN origin ELSE place[tour[i - 1]]]
    IN  FoldFunction(+, 0, [i \in DOMAIN tour |-> Distance(from[i], place[tour[i]])])

\* The index of the stop closest to the cursor, the first of them on a tie.
Closest(cursor, stops) ==
    CHOOSE i \in DOMAIN stops :
        \A j \in DOMAIN stops :
            LET di == Distance(cursor, place[stops[i]])
                dj == Distance(cursor, place[stops[j]])
            IN  di < dj \/ (di = dj /\ i <= j)

\* While some remain: go to the closest stop.
Visited(leg) ==
    LET i == Closest(leg.cursor, leg.remaining)
        next == leg.remaining[i]
    IN  IF leg.remaining = <<>> THEN leg
        ELSE [tour |-> Append(leg.tour, next), remaining |-> RemoveAt(leg.remaining, i),
              cursor |-> place[next]]

\* Nearest neighbour, shared by HaversineOptimizer and the first half of nn_2opt:
\* as many visits as there are stops.
NearestNeighbour(origin, stops) ==
    FoldLeft(LAMBDA leg, s : Visited(leg),
             [tour |-> <<>>, remaining |-> stops, cursor |-> origin], stops).tour

\* twoOptSwap: the segment from i to k reversed.
Swapped(tour, i, k) ==
    [j \in DOMAIN tour |-> IF j \in i .. k THEN tour[i + k - j] ELSE tour[j]]

\* Mutant: a swap that makes the tour longer is taken (> for <).
ImprovedWorse(origin, tour, i, k) ==
    IF Length(origin, Swapped(tour, i, k)) > Length(origin, tour)
    THEN Swapped(tour, i, k) ELSE tour

\* A swap that shortens the tour is taken at once.
Improved(origin, tour, i, k) ==
    IF Length(origin, Swapped(tour, i, k)) < Length(origin, tour)
    THEN Swapped(tour, i, k) ELSE tour

\* The loop over k...
ImprovedFrom(origin, tour, i) ==
    FoldLeft(LAMBDA best, j : Improved(origin, best, i, i + j),
             tour, [j \in 1 .. Len(tour) - i |-> j])

\* ...in the loop over i: one round of the while loop.
TwoOptPass(origin, tour) ==
    FoldLeft(LAMBDA best, i : ImprovedFrom(origin, best, i),
             tour, [i \in 1 .. Len(tour) - 1 |-> i])

\* Rounds until one changes nothing; each shortens the tour, so its length bounds them.
TwoOpt(origin, tour) ==
    IF Len(tour) < 4 THEN tour
    ELSE FoldLeft(LAMBDA best, n : TwoOptPass(origin, best),
                  tour, [n \in 1 .. Length(origin, tour) |-> n])

\* What GoogleRoutesOptimizer makes of optimizedIntermediateWaypointIndex, which counts
\* from 0: the last stop is the fixed destination.
FromGoogle(stops, index) ==
    LET between == Front(stops)
    IN  Append([i \in DOMAIN index |-> between[index[i] + 1]], Last(stops))

\* An array of another length is refused, an index of no stop throws; nothing else is
\* looked at, a stop may well be named twice.
Indexes(stops) ==
    {index \in Answers :
        Len(index) = Len(stops) - 1 /\ Range(index) \subseteq 0 .. Len(stops) - 2}

\* Mutant: the input index still counts the origin (no "- 1").
FromMapboxShifted(stops, position) ==
    LET inputs(pos) == {i \in DOMAIN position : position[i] = pos}
        visit(tour, pos) ==
            IF inputs(pos) # {} /\ Max(inputs(pos)) \in DOMAIN stops
            THEN Append(tour, stops[Max(inputs(pos))]) ELSE tour
    IN  FoldLeft(visit, <<>>, [pos \in 1 .. Len(position) - 1 |-> pos])

\* What MapboxOptimizationProvider makes of waypoint_index: position[i] is where input
\* i - 1 comes in the trip, input 0 being the origin.  Of two inputs with one position
\* the later wins; a position without a stop is left out, and so is its stop's visit.
FromMapbox(stops, position) ==
    LET inputs(pos) == {i \in DOMAIN position : position[i] = pos}
        visit(tour, pos) ==
            IF inputs(pos) # {} /\ Max(inputs(pos)) - 1 \in DOMAIN stops
            THEN Append(tour, stops[Max(inputs(pos)) - 1]) ELSE tour
    IN  FoldLeft(visit, <<>>, [pos \in 1 .. Len(position) - 1 |-> pos])

\* No key, too many stops, an HTTP error, a timeout, an answer without routes or
\* waypoints, or one of Google's that parseResponse throws at.
Fallback(origin, stops) == NearestNeighbour(origin, stops)

\* Each number from 0 to n - 1 once: what both services' arrays are meant to be.
Counts(array, n) == Len(array) = n /\ Range(array) = 0 .. n - 1

\* The tours a strategy may come back with.  sound is auxiliary: no answer was used, or
\* one that gives each place once, and the origin the first.
Tours(provider, origin, stops) ==
    LET sure(tours) == [tour : tours, sound : {TRUE}]
    IN  CASE provider = "haversine" -> sure({NearestNeighbour(origin, stops)})
          [] provider = "nn_2opt" -> sure({TwoOpt(origin, NearestNeighbour(origin, stops))})
          [] provider = "google_routes" ->
                 sure({Fallback(origin, stops), stops}) \cup
                 {[tour |-> FromGoogle(stops, index), sound |-> Counts(index, Len(stops) - 1)] :
                     index \in Indexes(stops)}
          [] provider = "mapbox" ->
                 sure({Fallback(origin, stops)}) \cup
                 {[tour |-> FromMapbox(stops, position),
                   sound |-> Counts(position, Len(stops) + 1) /\ position[1] = 0] :
                     position \in Answers \ {<<>>}}

-----------------------------------------------------------------------------
\* A call: the guard reads the day's counter and writes it back, the service loads
\* the run, the strategy answers, the copy is saved, the stops are numbered.

Idle(h) == calls[h] = Null
At(h, step) == ~Idle(h) /\ calls[h].step = step
Moves(h, call) == calls' = [calls EXCEPT ![h] = call]

\* get(): a cache that fails reads as 0.
Readings == {counter} \cup IF "cache" \in Requests THEN {0} ELSE {}

\* Without a subscription, a plan or its maxReoptimizationsPerDay nothing is counted.
Guard(h) ==
    /\ Idle(h) /\ begun < MaxCalls /\ begun' = begun + 1
    /\ \/ "unlimited" \in Requests /\ Moves(h, [step |-> "load"])
       \/ (\E n \in Readings : n < DailyLimit) /\ Moves(h, [step |-> "guarded"])
    /\ UNCHANGED <<world, run, number, counter, lost>>

\* incr() reads the counter again...
Read(h) ==
    /\ At(h, "guarded")
    /\ \E n \in Readings : Moves(h, [step |-> "counted", count |-> n])
    /\ UNCHANGED <<world, run, number, counter, bounds>>

\* ...and writes it.
Count(h) ==
    /\ At(h, "counted")
    /\ counter' = calls[h].count + 1
    /\ Moves(h, [step |-> "load"])
    /\ UNCHANGED <<world, run, number, bounds>>

\* A cache that cannot be written fails the request.
CountFails(h) ==
    /\ At(h, "counted") /\ "cache" \in Requests
    /\ Moves(h, Null)
    /\ UNCHANGED <<world, run, number, counter, bounds>>

\* OPT-001 and OPT-002, then the strategy is called; the origin is that of a
\* shipment (the depot, 0) or the first stop's destination.
Load(h) ==
    /\ At(h, "load")
    /\ IF run.status # "planned" \/ Len(listed) < 2 \/ \E s \in Range(listed) : place[s] = Null
       THEN Moves(h, Null)
       ELSE \E provider \in Providers, origin \in {0, place[listed[1]]} :
                Moves(h, [step |-> "asked", provider |-> provider, origin |-> origin,
                          stops |-> listed, row |-> run])
    /\ UNCHANGED <<world, run, number, counter, bounds>>

Answered(h) ==
    /\ At(h, "asked")
    /\ \E result \in Tours(calls[h].provider, calls[h].origin, calls[h].stops) :
        Moves(h, [step |-> "answered", provider |-> calls[h].provider, origin |-> calls[h].origin,
                  stops |-> calls[h].stops, sound |-> result.sound,
                  row |-> [calls[h].row EXCEPT !.sequence = result.tour]])
    /\ UNCHANGED <<world, run, number, counter, bounds>>

\* A sequence that lost every stop numbers none.
SaveRun(h) ==
    /\ At(h, "answered")
    /\ run' = calls[h].row
    /\ Moves(h, IF calls[h].row.sequence = <<>> THEN Null
                ELSE [step |-> "number", sequence |-> calls[h].row.sequence, next |-> 1])
    /\ UNCHANGED <<world, number, counter, bounds>>

\* Mutant: the numbers start at two.
NumberFromTwo(h) ==
    /\ At(h, "number")
    /\ LET call == calls[h]
       IN  /\ number' = [number EXCEPT ![call.sequence[call.next]] = call.next + 1]
           /\ Moves(h, IF call.next = Len(call.sequence) THEN Null
                       ELSE [call EXCEPT !.next = @ + 1])
    /\ UNCHANGED <<world, run, counter, bounds>>

\* One UPDATE per stop.
Number(h) ==
    /\ At(h, "number")
    /\ LET call == calls[h]
       IN  /\ number' = [number EXCEPT ![call.sequence[call.next]] = call.next]
           /\ Moves(h, IF call.next = Len(call.sequence) THEN Null
                       ELSE [call EXCEPT !.next = @ + 1])
    /\ UNCHANGED <<world, run, counter, bounds>>

\* DeliveryRunsService.start, which is another call's doing.
Start ==
    /\ "start" \in Requests /\ run.status = "planned" /\ run' = [run EXCEPT !.status = "in_progress"]
    /\ UNCHANGED <<world, number, counter, calls, bounds>>

\* The key of the counter is the day's.
NextDay ==
    /\ "day" \in Requests /\ counter > 0 /\ counter' = 0
    /\ UNCHANGED <<world, run, number, calls, bounds>>

Lose(h) ==
    /\ ~Idle(h) /\ lost < MaxLost /\ lost' = lost + 1 /\ Moves(h, Null)
    /\ UNCHANGED <<world, run, number, counter, begun>>

Continue(h) ==
    Read(h) \/ Count(h) \/ CountFails(h) \/ Load(h) \/ Answered(h) \/ SaveRun(h) \/ Number(h)

Next ==
    \/ \E h \in Handlers : Guard(h) \/ Continue(h) \/ Lose(h)
    \/ Start \/ NextDay

Spec == Init /\ [][Next]_vars

\* Every strategy answers: a remote call is aborted after its timeout.
FairSpec == Spec /\ \A h \in Handlers : WF_vars(Continue(h))

-----------------------------------------------------------------------------
\* Rows keep their types.
TypeOK ==
    /\ place \in [Stops -> Coordinates \cup {Null}]
    /\ run \in Run /\ number \in [Stops -> 0 .. Cardinality(Stops)]
    /\ counter \in 0 .. MaxCalls

\* OPT-005 and the defect the strategy's comment tells of ("asignaba los IDs en orden
\* ORIGINAL"): a tour visits no stop of another run, and every stop of its own exactly
\* once if the strategy computed it, fell back, or was sent what the service promises.
\* An answer that is not checked costs no more than this: Mapbox's may lose stops and
\* never visits one twice, Google's may visit one in place of another.
TourOfItsStops ==
    \A h \in Handlers :
        At(h, "answered") =>
            LET tour == calls[h].row.sequence
                stops == calls[h].stops
                provider == calls[h].provider
            IN  /\ Range(tour) \subseteq Range(stops)
                /\ provider # "google_routes" => IsInjective(tour)
                /\ provider # "mapbox" => Len(tour) = Len(stops)
                /\ calls[h].sound => Len(tour) = Len(stops) /\ Range(tour) = Range(stops)

\* The number of a stop is a place that the sequence gives it.
Follows(sequence, s) == number[s] \in DOMAIN sequence /\ sequence[number[s]] = s

\* One call after the other: the stops that have been numbered are where the saved
\* sequence has them, whatever it lost or doubled, and in the end all of them, unless a
\* call died between its writes (one save and one UPDATE for each stop).
NumbersFollowSequence ==
    /\ \A h \in Handlers :
        At(h, "number") =>
            /\ run.sequence = calls[h].sequence
            /\ \A i \in 1 .. calls[h].next - 1 : Follows(run.sequence, run.sequence[i])
    /\ (lost = 0 /\ \A h \in Handlers : ~At(h, "number")) =>
           \A s \in Range(run.sequence) : Follows(run.sequence, s)

\* What the driver is shown: a tour of the run's stops, each with its number in it.
StopsFollowTheTour == TourOfItsStops /\ NumbersFollowSequence

\* nn_2opt is never longer than the nearest neighbour it starts from, and ends where
\* no reversal of a segment makes it shorter (nearest-neighbor-2opt.optimizer.ts).
TwoOptImproves ==
    \A h \in Handlers :
        (At(h, "answered") /\ calls[h].provider = "nn_2opt") =>
            LET tour == calls[h].row.sequence
                origin == calls[h].origin
            IN  /\ Length(origin, tour) <= Length(origin, NearestNeighbour(origin, calls[h].stops))
                /\ Len(tour) >= 4 =>
                       \A i, k \in 1 .. Len(tour) :
                           i < k => Length(origin, Swapped(tour, i, k)) >= Length(origin, tour)

\* OPT-001 (optimization.service.ts): only a run that has not started is optimized,
\* so a run that was started stays started and keeps the order it was started with.
OnlyBeforeStart ==
    [][run.status = "in_progress" => run' = run]_vars
==============================================================================
