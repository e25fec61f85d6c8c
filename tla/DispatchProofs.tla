--------------------------- MODULE DispatchProofs ---------------------------
(***************************************************************************)
(* Theorems about Dispatch for every value of its constants: any number of *)
(* runs, shipments, drivers and trucks and, unless a theorem says          *)
(* otherwise, any number of calls in flight.                               *)
(***************************************************************************)
EXTENDS Dispatch, FiniteSetTheorems, FunctionTheorems, TLAPS

RunColumns == {"status", "driver", "truck", "seq", "total", "done"}

\* A record with the columns of a run, whatever their values.
IsRun(row) == DOMAIN row = RunColumns /\ row = [c \in RunColumns |-> row[c]]

Fit(row) == Manned(row) /\ row.total > 0

RunOK(row) == IsRun(row) /\ (row.status = "in_progress" => Fit(row))

\* A call that will save a copy of its run.
HoldsRun(call) == call.run # Null /\ call.step # "close"

CallOK(call) ==
    /\ call.run \in Runs \cup {Null}
    /\ HoldsRun(call) => RunOK(call.row)
    /\ call.step \in {"probe", "advance"} => Fit(call.row)
    /\ call.step \in {"attach", "detach"} => call.row.status # "in_progress"
    /\ call.step \in Steps \ {"idle", "save", "delete"} => call.run \in Runs
    /\ call.step = "close" => RunOK(runs[call.run])

\* The rows of runs and the copies that calls hold are those of RunOK.
RowsInv ==
    /\ runs = [r \in Runs |-> runs[r]]
    /\ calls = [h \in Handlers |-> calls[h]]
    /\ \A r \in Existing : RunOK(runs[r])
    /\ \A h \in Handlers : CallOK(calls[h])

\* At most one call is in flight.
Serial == \A g, h \in Handlers : g = h

\* No other run of the row's driver is under way.
Alone(r, row) ==
    \A x \in Existing \ {r} :
        runs[x].status = "in_progress" => runs[x].driver # row.driver

CallAlone(call) ==
    call.step = "advance" \/ (HoldsRun(call) /\ call.row.status = "in_progress")
        => Alone(call.run, call.row)

AloneInv == OneRunPerDriver /\ \A h \in Handlers : CallAlone(calls[h])

Inv == RowsInv /\ (Serial => AloneInv)

-----------------------------------------------------------------------------
\* What the functions on rows make of a run.

LEMMA SetStatus ==
    ASSUME NEW row, NEW v, IsRun(row)
    PROVE  LET new == [row EXCEPT !.status = v] IN
           /\ IsRun(new) /\ new.status = v
           /\ new.driver = row.driver /\ new.truck = row.truck /\ new.total = row.total
BY DEF IsRun, RunColumns

LEMMA SetDone ==
    ASSUME NEW row, NEW v, IsRun(row)
    PROVE  LET new == [row EXCEPT !.done = v] IN
           /\ IsRun(new) /\ new.status = row.status
           /\ new.driver = row.driver /\ new.truck = row.truck /\ new.total = row.total
BY DEF IsRun, RunColumns

LEMMA SetSeq ==
    ASSUME NEW row, NEW v, IsRun(row)
    PROVE  LET new == [row EXCEPT !.seq = v] IN
           IsRun(new) /\ new.status = row.status
BY DEF IsRun, RunColumns

LEMMA SetStops ==
    ASSUME NEW row, NEW v, NEW n, IsRun(row)
    PROVE  LET new == [row EXCEPT !.seq = v, !.total = n] IN
           IsRun(new) /\ new.status = row.status
BY DEF IsRun, RunColumns

LEMMA SetCrew ==
    ASSUME NEW row, NEW x, NEW y, IsRun(row)
    PROVE  LET new == [row EXCEPT !.driver = x, !.truck = y] IN
           IsRun(new) /\ new.status = row.status
BY DEF IsRun, RunColumns

LEMMA PromoteRow ==
    ASSUME NEW row, IsRun(row), row.status # "in_progress"
    PROVE  IsRun(Promote(row)) /\ Promote(row).status # "in_progress"
BY SetStatus DEF Promote

LEMMA ExtendRow ==
    ASSUME NEW row, NEW found, IsRun(row), row.status # "in_progress"
    PROVE  IsRun(Extend(row, found)) /\ Extend(row, found).status # "in_progress"
<1> DEFINE seq == row.seq \o found
           n == Len(row.seq \o found)
           longer == [row EXCEPT !.seq = seq, !.total = n]
<1>1. Extend(row, found) = Promote(longer)
  BY DEF Extend
<1> HIDE DEF seq, n
<1>2. IsRun(longer) /\ longer.status # "in_progress"
  BY SetStops
<1> HIDE DEF longer
<1> QED
  BY <1>1, <1>2, PromoteRow

LEMMA WithoutRow ==
    ASSUME NEW row, NEW ids, IsRun(row)
    PROVE  IsRun(Without(row, ids)) /\ Without(row, ids).status = row.status
<1> DEFINE seq == Kept(row.seq, ids)
           n == Len(Kept(row.seq, ids))
           shorter == [row EXCEPT !.seq = seq, !.total = n]
<1>1. Without(row, ids) = shorter
  BY DEF Without
<1> HIDE DEF seq, n
<1>2. IsRun(shorter) /\ shorter.status = row.status
  BY SetStops
<1> HIDE DEF shorter
<1> QED
  BY <1>1, <1>2

\* The fields of a call.
LEMMA PendingFields ==
    ASSUME NEW step, NEW r, NEW row, NEW copies, NEW ids
    PROVE  LET call == Pending(step, r, row, copies, ids) IN
           call.step = step /\ call.run = r /\ call.row = row
BY DEF Pending

LEMMA IdleOK == CallOK(Idle) /\ CallAlone(Idle)
BY DEF CallOK, Idle, Pending, HoldsRun, CallAlone, Steps

-----------------------------------------------------------------------------
\* A step that leaves the table of runs and replaces one call.
LEMMA BeginStep ==
    ASSUME Inv, NEW h \in Handlers, NEW call, UNCHANGED runs, Begin(h, call),
           CallOK(call), Serial => CallAlone(call)
    PROVE  Inv'
<1>1. calls' = [calls EXCEPT ![h] = call] /\ calls = [g \in Handlers |-> calls[g]]
  BY DEF Begin, Inv, RowsInv
<1>2. calls'[h] = call /\ (\A g \in Handlers \ {h} : calls'[g] = calls[g])
      /\ calls' = [g \in Handlers |-> calls'[g]]
  BY <1>1
<1>3. Existing' = Existing
  BY DEF Existing
<1>4. RowsInv'
  <2>1. ASSUME NEW g \in Handlers PROVE CallOK(calls[g])'
    <3>1. CallOK(calls'[g])
      BY <1>2 DEF Inv, RowsInv
    <3> QED
      BY <3>1 DEF CallOK
  <2> QED
    BY <1>2, <1>3, <2>1 DEF Inv, RowsInv
<1>5. ASSUME Serial PROVE AloneInv'
  <2>1. ASSUME NEW g \in Handlers PROVE CallAlone(calls[g])'
    <3>1. CallAlone(calls'[g])
      BY <1>2, <1>5 DEF Inv, AloneInv
    <3> QED
      BY <1>3, <3>1 DEF CallAlone, Alone
  <2> QED
    BY <1>3, <1>5, <2>1 DEF Inv, AloneInv, OneRunPerDriver
<1> QED
  BY <1>4, <1>5 DEF Inv, Serial

\* A step that stores one run and leaves its call idle or about to complete
\* that run.
LEMMA StoreStep ==
    ASSUME Inv, NEW h \in Handlers, NEW r \in Runs, NEW row, RunOK(row),
           Serial => (row.status = "in_progress" => Alone(r, row)),
           runs' = [runs EXCEPT ![r] = row],
           End(h) \/ Begin(h, With("close", r, Null))
    PROVE  Inv'
<1>1. calls = [g \in Handlers |-> calls[g]] /\ runs = [x \in Runs |-> runs[x]]
  BY DEF Inv, RowsInv
<1>2. runs'[r] = row /\ (\A x \in Runs \ {r} : runs'[x] = runs[x])
      /\ runs' = [x \in Runs |-> runs'[x]]
  BY <1>1
<1>3. (\A g \in Handlers \ {h} : calls'[g] = calls[g])
      /\ calls' = [g \in Handlers |-> calls'[g]]
      /\ calls'[h] \in {Idle, With("close", r, Null)}
  BY <1>1 DEF End, Begin
<1>4. \A x \in Existing' : RunOK(runs'[x])
  BY <1>2 DEF Inv, RowsInv, Existing
<1>5. ASSUME NEW g \in Handlers PROVE CallOK(calls[g])'
  <2>1. CASE g # h
    <3>1. CallOK(calls[g]) /\ calls'[g] = calls[g]
      BY <1>3, <2>1 DEF Inv, RowsInv
    <3>2. calls[g].step = "close" => RunOK(runs'[calls[g].run])
      BY <1>2, <3>1 DEF CallOK, Steps
    <3> QED
      BY <3>1, <3>2 DEF CallOK
  <2>2. CASE g = h /\ calls'[h] = Idle
    BY <2>2 DEF CallOK, Idle, Pending, HoldsRun, Steps
  <2>3. CASE g = h /\ calls'[h] = With("close", r, Null)
    BY <1>2, <2>3 DEF With, Pending, CallOK, HoldsRun, Steps
  <2> QED
    BY <1>3, <2>1, <2>2, <2>3
<1>6. RowsInv'
  BY <1>2, <1>3, <1>4, <1>5 DEF RowsInv
<1>7. ASSUME Serial PROVE AloneInv'
  <2>1. ASSUME NEW g \in Handlers PROVE CallAlone(calls[g])'
    <3>1. g = h
      BY <1>7 DEF Serial
    <3>2. CASE calls'[h] = Idle
      BY <3>1, <3>2 DEF CallAlone, HoldsRun, Idle, Pending
    <3>3. CASE calls'[h] = With("close", r, Null)
      BY <3>1, <3>3 DEF With, Pending, CallAlone, HoldsRun
    <3> QED
      BY <1>3, <3>2, <3>3
  <2>2. OneRunPerDriver'
    <3>1. ASSUME NEW x \in Existing', NEW y \in Existing',
                 runs'[x].status = "in_progress", runs'[y].status = "in_progress",
                 runs'[x].driver = runs'[y].driver
          PROVE  x = y
      <4>1. CASE x # r /\ y # r
        BY <1>2, <1>7, <3>1, <4>1 DEF Existing, Inv, AloneInv, OneRunPerDriver
      <4>2. CASE x = r /\ y # r
        BY <1>2, <1>7, <3>1, <4>2 DEF Existing, Alone
      <4>3. CASE x # r /\ y = r
        BY <1>2, <1>7, <3>1, <4>3 DEF Existing, Alone
      <4> QED
        BY <4>1, <4>2, <4>3
    <3> QED
      BY <3>1 DEF OneRunPerDriver
  <2> QED
    BY <2>1, <2>2 DEF AloneInv
<1> QED
  BY <1>6, <1>7 DEF Inv, Serial
-----------------------------------------------------------------------------
\* Requests on runs.

LEMMA CreateStep ==
    ASSUME Inv, NEW h \in Handlers, NEW r \in Runs, NEW driver, NEW truck, NEW ids,
           CreateRun(h, r, driver, truck, ids)
    PROVE  Inv'
<1> DEFINE row == NewRun(driver, truck)
           step == IF ids = {} THEN "save" ELSE "attach"
           call == Naming(step, r, row, ids)
<1>1. UNCHANGED runs /\ Begin(h, call)
  BY DEF CreateRun, Request
<1>2. IsRun(row) /\ row.status = "planned"
  BY DEF NewRun, IsRun, RunColumns
<1>3. call.run = r /\ call.row = row /\ call.step \in {"save", "attach"}
  BY DEF Naming, Pending
<1> HIDE DEF row, call
<1>4. CallOK(call) /\ CallAlone(call)
  BY <1>2, <1>3 DEF CallOK, CallAlone, HoldsRun, RunOK, Steps
<1> QED
  BY <1>1, <1>4, BeginStep

\* A call that loads a run holds a good copy of it.
LEMMA LoadStep ==
    ASSUME Inv, NEW h \in Handlers, NEW r \in Existing, NEW call,
           UNCHANGED runs, Begin(h, call), call.run = r,
           RunOK(call.row) \/ call.step = "close",
           \/ call.row.status # "in_progress"
           \/ call.row.status = runs[r].status /\ call.row.driver = runs[r].driver
           \/ call.step = "close",
           call.step \notin {"advance", "attach", "detach"},
           call.step = "probe" => Fit(call.row)
    PROVE  Inv'
<1>1. r \in Runs /\ RunOK(runs[r])
  BY DEF Existing, Inv, RowsInv
<1>2. CallOK(call)
  BY <1>1 DEF CallOK, HoldsRun
<1>3. Serial => CallAlone(call)
  BY DEF Inv, AloneInv, OneRunPerDriver, CallAlone, HoldsRun, Alone
<1> QED
  BY <1>2, <1>3, BeginStep

LEMMA UpdateStep ==
    ASSUME Inv, NEW h \in Handlers, NEW r \in Existing, UpdateRun(h, r)
    PROVE  Inv'
<1>1. UNCHANGED runs /\ Begin(h, With("save", r, runs[r]))
  BY DEF UpdateRun, Request
<1>2. RunOK(runs[r])
  BY DEF Inv, RowsInv
<1> DEFINE call == With("save", r, runs[r])
<1>3. call.run = r /\ call.row = runs[r] /\ call.step = "save"
  BY DEF With, Pending
<1> HIDE DEF call
<1> QED
  BY <1>1, <1>2, <1>3, LoadStep DEF call

LEMMA AssignStep ==
    ASSUME Inv, NEW h \in Handlers, NEW r \in Existing, NEW driver, NEW truck,
           AssignDriver(h, r, driver, truck)
    PROVE  Inv'
<1> DEFINE old == runs[r]
           crewed == [old EXCEPT !.driver = driver, !.truck = truck]
           row == Promote(crewed)
           call == With("save", r, row)
<1>1. UNCHANGED runs /\ Begin(h, call) /\ runs[r].status # "in_progress"
  BY DEF AssignDriver, Request, Reassignable
<1>2. IsRun(old) /\ old.status # "in_progress"
  BY <1>1 DEF Inv, RowsInv, RunOK
<1> HIDE DEF old
<1>3. IsRun(crewed) /\ crewed.status # "in_progress"
  BY <1>2, SetCrew
<1> HIDE DEF crewed
<1>4. IsRun(row) /\ row.status # "in_progress"
  BY <1>3, PromoteRow
<1> HIDE DEF row
<1>5. call.run = r /\ call.row = row /\ call.step = "save"
  BY DEF With, Pending
<1> HIDE DEF call
<1> QED
  BY <1>1, <1>4, <1>5, LoadStep DEF RunOK

LEMMA StopsStep ==
    ASSUME Inv, NEW h \in Handlers, NEW r \in Existing, NEW ids,
           AddShipments(h, r, ids) \/ RemoveShipments(h, r, ids)
    PROVE  Inv'
<1>1. PICK step \in {"attach", "detach"} :
          /\ UNCHANGED runs
          /\ Begin(h, Naming(step, r, runs[r], ids))
          /\ runs[r].status # "in_progress"
  BY DEF AddShipments, RemoveShipments, Request
<1>2. r \in Runs /\ RunOK(runs[r])
  BY DEF Inv, RowsInv, Existing
<1> DEFINE call == Naming(step, r, runs[r], ids)
<1>3. call.run = r /\ call.row = runs[r] /\ call.step = step
  BY DEF Naming, Pending
<1> HIDE DEF call
<1>4. CallOK(call) /\ CallAlone(call)
  BY <1>1, <1>2, <1>3 DEF CallOK, CallAlone, HoldsRun
<1> QED
  BY <1>1, <1>4, BeginStep DEF call

LEMMA ReorderStep ==
    ASSUME Inv, NEW h \in Handlers, NEW r \in Existing, NEW order, Reorder(h, r, order)
    PROVE  Inv'
<1> DEFINE row == [runs[r] EXCEPT !.seq = order]
           call == With("resequence", r, row)
<1>1. UNCHANGED runs /\ Begin(h, call) /\ runs[r].status # "in_progress"
  BY DEF Reorder, Request, Reorderable
<1>2. IsRun(runs[r])
  BY DEF Inv, RowsInv, RunOK
<1>3. IsRun(row) /\ row.status # "in_progress"
  BY <1>1, <1>2, SetSeq
<1> HIDE DEF row
<1>4. call.run = r /\ call.row = row /\ call.step = "resequence"
  BY DEF With, Pending
<1> HIDE DEF call
<1> QED
  BY <1>1, <1>3, <1>4, LoadStep DEF RunOK

LEMMA StartStep ==
    ASSUME Inv, NEW h \in Handlers, NEW r \in Existing, StartRun(h, r)
    PROVE  Inv'
<1> DEFINE call == With("probe", r, runs[r])
<1>1. UNCHANGED runs /\ Begin(h, call) /\ Fit(runs[r])
  BY DEF StartRun, Request, Startable, Fit
<1>2. RunOK(runs[r])
  BY DEF Inv, RowsInv
<1>3. call.run = r /\ call.row = runs[r] /\ call.step = "probe"
  BY DEF With, Pending
<1> HIDE DEF call
<1> QED
  BY <1>1, <1>2, <1>3, LoadStep

LEMMA CompleteStep ==
    ASSUME Inv, NEW h \in Handlers, NEW r \in Existing, CompleteRun(h, r)
    PROVE  Inv'
<1> DEFINE call == With("close", r, Null)
<1>1. UNCHANGED runs /\ Begin(h, call)
  BY DEF CompleteRun, Request
<1>2. call.run = r /\ call.step = "close"
  BY DEF With, Pending
<1> HIDE DEF call
<1> QED
  BY <1>1, <1>2, LoadStep

LEMMA CancelStep ==
    ASSUME Inv, NEW h \in Handlers, NEW r \in Existing, CancelRun(h, r)
    PROVE  Inv'
<1> DEFINE row == [runs[r] EXCEPT !.status = "cancelled"]
           call == With("release", r, row)
<1>1. UNCHANGED runs /\ Begin(h, call)
  BY DEF CancelRun, Request
<1>2. IsRun(runs[r])
  BY DEF Inv, RowsInv, RunOK
<1>3. IsRun(row) /\ row.status = "cancelled"
  BY <1>2, SetStatus
<1> HIDE DEF row
<1>4. call.run = r /\ call.row = row /\ call.step = "release"
  BY DEF With, Pending
<1> HIDE DEF call
<1> QED
  BY <1>1, <1>3, <1>4, LoadStep DEF RunOK

\* A stop is closed with the copy of the run; transit and arrive hold none.
LEMMA ClosingStep ==
    ASSUME Inv, NEW h \in Handlers, NEW r \in Existing, NEW s, NEW status,
           UNCHANGED runs, Begin(h, Closing(r, s, status))
    PROVE  Inv'
<1> DEFINE call == Closing(r, s, status)
<1>1. RunOK(runs[r])
  BY DEF Inv, RowsInv
<1>2. call.run = r /\ call.row = runs[r] /\ call.step = "recount"
  BY DEF Closing, Pending
<1> HIDE DEF call
<1> QED
  BY <1>1, <1>2, LoadStep DEF call

\* A call that holds no run.
LEMMA NoRunStep ==
    ASSUME Inv, NEW h \in Handlers, NEW call, UNCHANGED runs, Begin(h, call),
           call.run = Null, call.step \in {"idle", "save", "delete"}
    PROVE  Inv'
<1>1. CallOK(call) /\ CallAlone(call)
  BY DEF CallOK, CallAlone, HoldsRun, Steps
<1> QED
  BY <1>1, BeginStep

LEMMA HoldingStep ==
    ASSUME Inv, NEW h \in Handlers, NEW s, NEW copy, UNCHANGED runs,
           Begin(h, Holding(s, copy))
    PROVE  Inv'
<1> DEFINE call == Holding(s, copy)
<1>1. call.run = Null /\ call.step = "save"
  BY DEF Holding, Pending
<1> HIDE DEF call
<1> QED
  BY <1>1, NoRunStep DEF call

LEMMA EndStep ==
    ASSUME Inv, NEW h \in Handlers, UNCHANGED runs, End(h)
    PROVE  Inv'
<1>1. Idle.run = Null /\ Idle.step = "idle"
  BY DEF Idle, Pending
<1> QED
  BY <1>1, NoRunStep DEF End
-----------------------------------------------------------------------------
\* The later steps of a call.

\* What is known of the copy that a call holds.
LEMMA HeldRow ==
    ASSUME Inv, NEW h \in Handlers,
           calls[h].step \in Steps \ {"idle", "close", "delete"},
           calls[h].step = "save" => calls[h].run # Null
    PROVE  /\ calls[h].run \in Runs
           /\ RunOK(calls[h].row)
           /\ Serial => (calls[h].row.status = "in_progress" =>
                           Alone(calls[h].run, calls[h].row))
<1>1. CallOK(calls[h]) /\ (Serial => CallAlone(calls[h]))
  BY DEF Inv, RowsInv, AloneInv
<1>2. calls[h].run \in Runs
  BY <1>1 DEF CallOK, Steps
<1>3. HoldsRun(calls[h])
  BY <1>2, NullIsNoId DEF HoldsRun, Steps
<1> QED
  BY <1>1, <1>2, <1>3 DEF CallOK, CallAlone

LEMMA ProbeStep ==
    ASSUME Inv, NEW h \in Handlers, Probe(h)
    PROVE  Inv'
<1> DEFINE r == calls[h].run
           row == calls[h].row
           call == With("advance", r, row)
<1>1. calls[h].step = "probe" /\ UNCHANGED runs
  BY DEF Probe
<1>2. r \in Runs /\ RunOK(row) /\ Fit(row)
  BY <1>1, HeldRow DEF Steps, Inv, RowsInv, CallOK
<1>3. End(h) \/ (Begin(h, call) /\ Alone(r, row))
  BY DEF Probe, Alone
<1>4. call.run = r /\ call.row = row /\ call.step = "advance"
  BY DEF With, Pending
<1> HIDE DEF call
<1>5. CallOK(call)
  BY <1>2, <1>4 DEF CallOK
<1>6. CASE End(h)
  BY <1>1, <1>6, EndStep
<1>7. CASE Begin(h, call) /\ Alone(r, row)
  <2>1. CallAlone(call)
    BY <1>4, <1>7 DEF CallAlone
  <2> QED
    BY <1>1, <1>5, <1>7, <2>1, BeginStep
<1> QED
  BY <1>3, <1>6, <1>7

\* A call goes on with another copy of its run.
LEMMA HoldStep ==
    ASSUME Inv, NEW h \in Handlers, NEW call, NEW step \in {"save", "saveStop"},
           calls[h].step \in {"advance", "attach", "recount"},
           UNCHANGED runs, Begin(h, call),
           call.step = step, call.run = calls[h].run, RunOK(call.row),
           \/ call.row.status # "in_progress"
           \/ call.row.driver = calls[h].row.driver
              /\ (call.row.status = calls[h].row.status \/ calls[h].step = "advance")
    PROVE  Inv'
<1>1. CallOK(calls[h]) /\ (Serial => CallAlone(calls[h]))
  BY DEF Inv, RowsInv, AloneInv
<1>2. calls[h].run \in Runs /\ HoldsRun(calls[h])
  BY <1>1, NullIsNoId DEF CallOK, HoldsRun, Steps
<1>3. CallOK(call)
  BY <1>2 DEF CallOK
<1>4. Serial => CallAlone(call)
  BY <1>1, <1>2 DEF CallAlone, Alone
<1> QED
  BY <1>3, <1>4, BeginStep

LEMMA AdvanceStep ==
    ASSUME Inv, NEW h \in Handlers, AdvanceStops(h)
    PROVE  Inv'
<1> DEFINE r == calls[h].run
           old == calls[h].row
           row == [old EXCEPT !.status = "in_progress"]
           copies == [s \in Shipments |->
                        IF s \in StopsOf(r) THEN Advance(ships[s]) ELSE Null]
           call == Pending("save", r, row, copies, {})
<1>1. calls[h].step = "advance" /\ UNCHANGED runs /\ Begin(h, call)
  BY DEF AdvanceStops
<1>2. RunOK(old) /\ Fit(old)
  BY <1>1, HeldRow DEF Steps, Inv, RowsInv, CallOK
<1>3. IsRun(row) /\ row.driver = old.driver /\ row.truck = old.truck /\ row.total = old.total
  BY <1>2, SetStatus DEF RunOK
<1>4. RunOK(row)
  <2> HIDE DEF row, old
  <2> QED
    BY <1>2, <1>3 DEF RunOK, Fit, Manned
<1> HIDE DEF copies, row
<1>5. call.run = r /\ call.row = row /\ call.step = "save"
  BY DEF Pending
<1> HIDE DEF call
<1> QED
  BY <1>1, <1>3, <1>4, <1>5, HoldStep

LEMMA AttachStep ==
    ASSUME Inv, NEW h \in Handlers, AttachStops(h)
    PROVE  Inv'
<1> DEFINE r == calls[h].run
           old == calls[h].row
<1>1. calls[h].step = "attach" /\ UNCHANGED runs
  BY DEF AttachStops
<1>2. RunOK(old) /\ old.status # "in_progress"
  BY <1>1, HeldRow DEF Steps, Inv, RowsInv, CallOK
<1>3. End(h) \/ (\E found, copies : Begin(h, Pending("save", r, Extend(old, found), copies, {})))
  BY DEF AttachStops
<1>4. ASSUME NEW found, NEW copies,
             Begin(h, Pending("save", r, Extend(old, found), copies, {}))
      PROVE  Inv'
  <2> DEFINE row == Extend(old, found)
             call == Pending("save", r, row, copies, {})
  <2>1. RunOK(row) /\ row.status # "in_progress"
    BY <1>2, ExtendRow DEF RunOK
  <2> HIDE DEF row
  <2>2. call.run = r /\ call.row = row /\ call.step = "save"
    BY DEF Pending
  <2>3. Begin(h, call)
    BY <1>4 DEF row
  <2> HIDE DEF call
  <2> QED
    BY <1>1, <2>1, <2>2, <2>3, HoldStep
<1> QED
  BY <1>1, <1>3, <1>4, EndStep

LEMMA RecountStep ==
    ASSUME Inv, NEW h \in Handlers, Recount(h)
    PROVE  Inv'
<1> DEFINE r == calls[h].run
           old == calls[h].row
<1>1. calls[h].step = "recount" /\ UNCHANGED runs
  BY DEF Recount
<1>2. RunOK(old)
  BY <1>1, HeldRow DEF Steps
<1>3. PICK n, copies :
          Begin(h, Pending("saveStop", r, [old EXCEPT !.done = n], copies, {}))
  BY DEF Recount
<1> DEFINE row == [old EXCEPT !.done = n]
           call == Pending("saveStop", r, row, copies, {})
<1>4. /\ IsRun(row) /\ row.status = old.status /\ row.driver = old.driver
      /\ row.truck = old.truck /\ row.total = old.total
  BY <1>2, SetDone DEF RunOK
<1>5. RunOK(row)
  <2> HIDE DEF row, old
  <2> QED
    BY <1>2, <1>4 DEF RunOK, Fit, Manned
<1> HIDE DEF row
<1>6. call.run = r /\ call.row = row /\ call.step = "saveStop"
  BY DEF Pending
<1>7. Begin(h, call)
  BY <1>3 DEF row
<1> HIDE DEF call
<1> QED
  BY <1>1, <1>4, <1>5, <1>6, <1>7, HoldStep

LEMMA CloseStep ==
    ASSUME Inv, NEW h \in Handlers, Close(h)
    PROVE  Inv'
<1> DEFINE r == calls[h].run
           row == [runs[r] EXCEPT !.status = "completed"]
           call == With("save", r, row)
<1>1. calls[h].step = "close" /\ UNCHANGED runs /\ Begin(h, call)
  BY DEF Close
<1>2. r \in Runs /\ RunOK(runs[r])
  BY <1>1 DEF Inv, RowsInv, CallOK, Steps
<1>3. RunOK(row) /\ row.status # "in_progress"
  BY <1>2, SetStatus DEF RunOK
<1> HIDE DEF row
<1>4. call.run = r /\ call.row = row /\ call.step = "save"
  BY DEF With, Pending
<1> HIDE DEF call
<1>5. CallOK(call) /\ CallAlone(call)
  BY <1>2, <1>3, <1>4 DEF CallOK, CallAlone
<1> QED
  BY <1>1, <1>5, BeginStep

\* A call saves the copy that it holds.
LEMMA WriteStep ==
    ASSUME Inv, NEW h \in Handlers,
           calls[h].step \in {"save", "saveStop", "resequence", "release"},
           \/ runs' = [runs EXCEPT ![calls[h].run] = calls[h].row]
           \/ calls[h].run = Null /\ UNCHANGED runs,
           calls[h].run = Null => calls[h].step = "save",
           \/ End(h)
           \/ calls[h].step = "saveStop" /\ Begin(h, With("close", calls[h].run, Null))
    PROVE  Inv'
<1> DEFINE r == calls[h].run
           row == calls[h].row
<1>1. CASE r = Null /\ UNCHANGED runs
  BY <1>1, EndStep
<1>2. CASE runs' = [runs EXCEPT ![r] = row] /\ r # Null
  <2>1. /\ r \in Runs /\ RunOK(row)
        /\ Serial => (row.status = "in_progress" => Alone(r, row))
    BY <1>2, HeldRow DEF Steps
  <2> QED
    BY <1>2, <2>1, StoreStep
<1>3. CASE r = Null /\ runs' = [runs EXCEPT ![r] = row]
  <2>1. runs = [x \in Runs |-> runs[x]] /\ Null \notin Runs
    BY NullIsNoId DEF Inv, RowsInv
  <2>2. runs' = runs
    BY <1>3, <2>1
  <2> QED
    BY <1>3, <2>2, EndStep
<1> QED
  BY <1>1, <1>2, <1>3

LEMMA DetachStep ==
    ASSUME Inv, NEW h \in Handlers, DetachStops(h)
    PROVE  Inv'
<1> DEFINE r == calls[h].run
           old == calls[h].row
<1>1. calls[h].step = "detach" /\ End(h)
  BY DEF DetachStops
<1>2. r \in Runs /\ RunOK(old) /\ old.status # "in_progress"
  BY <1>1, HeldRow DEF Steps, Inv, RowsInv, CallOK
<1>3. UNCHANGED runs \/ (\E ids : runs' = [runs EXCEPT ![r] = Without(old, ids)])
  BY DEF DetachStops
<1>4. ASSUME NEW ids, runs' = [runs EXCEPT ![r] = Without(old, ids)]
      PROVE  Inv'
  <2> DEFINE row == Without(old, ids)
  <2>1. RunOK(row) /\ row.status # "in_progress"
    BY <1>2, WithoutRow DEF RunOK
  <2>2. runs' = [runs EXCEPT ![r] = row]
    BY <1>4
  <2> HIDE DEF row
  <2> QED
    BY <1>1, <1>2, <2>1, <2>2, StoreStep
<1> QED
  BY <1>1, <1>3, <1>4, EndStep
-----------------------------------------------------------------------------

LEMMA InitOK == Init => Inv
<1> SUFFICES ASSUME Init PROVE Inv
  OBVIOUS
<1>1. Existing = {}
  BY DEF Init, Existing
<1>2. runs = [r \in Runs |-> runs[r]] /\ calls = [h \in Handlers |-> calls[h]]
  BY DEF Init
<1>3. \A h \in Handlers : CallOK(calls[h]) /\ CallAlone(calls[h])
  BY IdleOK DEF Init
<1> QED
  BY <1>1, <1>2, <1>3 DEF Inv, RowsInv, AloneInv, OneRunPerDriver

LEMMA ContinueStep ==
    ASSUME Inv, NEW h \in Handlers, Continue(h)
    PROVE  Inv'
<1>1. CASE Resequence(h) \/ Release(h)
  <2>1. /\ calls[h].step \in {"resequence", "release"}
        /\ runs' = [runs EXCEPT ![calls[h].run] = calls[h].row]
        /\ End(h)
    BY <1>1 DEF Resequence, Release
  <2>2. calls[h].run \in Runs
    BY <2>1, HeldRow DEF Steps
  <2>3. calls[h].run # Null
    BY <2>2, NullIsNoId
  <2> QED
    BY <2>1, <2>3, WriteStep
<1>2. CASE Save(h)
  <2>1. calls[h].step = "save" /\ Write(calls[h]) /\ End(h)
    BY <1>2 DEF Save
  <2> QED
    BY <2>1, WriteStep DEF Write
<1>3. CASE SaveStop(h)
  <2>1. /\ calls[h].step = "saveStop" /\ Write(calls[h])
        /\ End(h) \/ Begin(h, With("close", calls[h].run, Null))
    BY <1>3 DEF SaveStop
  <2>2. calls[h].run \in Runs
    BY <2>1, HeldRow DEF Steps
  <2>3. calls[h].run # Null
    BY <2>2, NullIsNoId
  <2> QED
    BY <2>1, <2>3, WriteStep DEF Write
<1>4. CASE Delete(h)
  BY <1>4, EndStep DEF Delete
<1> QED
  BY <1>1, <1>2, <1>3, <1>4, ProbeStep, AdvanceStep, AttachStep, DetachStep,
     RecountStep, CloseStep DEF Continue

LEMMA RunRequestStep ==
    ASSUME Inv, NEW h \in Handlers, NEW r \in Existing, RunRequest(h, r)
    PROVE  Inv'
<1>1. ASSUME NEW s \in StopsOf(r), NEW status, StopDone(h, r, s, status)
      PROVE  Inv'
  BY <1>1, ClosingStep DEF StopDone, Stop, Request
<1>2. ASSUME NEW s \in StopsOf(r), StopIncident(h, r, s)
      PROVE  Inv'
  BY <1>2, ClosingStep DEF StopIncident, Stop, Request
<1>3. ASSUME NEW s \in StopsOf(r), StopStartTransit(h, r, s) \/ StopArrive(h, r, s)
      PROVE  Inv'
  BY <1>3, HoldingStep DEF StopStartTransit, StopArrive, Stop, Request
<1> QED
  BY <1>1, <1>2, <1>3, UpdateStep, StartStep, CompleteStep, CancelStep, AssignStep,
     StopsStep, ReorderStep DEF RunRequest

LEMMA ShipmentRequestStep ==
    ASSUME Inv, NEW h \in Handlers, NEW s, ShipmentRequest(h, s)
    PROVE  Inv'
<1>1. ASSUME RemoveShipment(h, s) PROVE Inv'
  <2> DEFINE call == Pending("delete", Null, Null, NoCopies, {s})
  <2>1. UNCHANGED runs /\ Begin(h, call)
    BY <1>1 DEF RemoveShipment, Request
  <2>2. call.run = Null /\ call.step = "delete"
    BY DEF Pending
  <2> HIDE DEF call
  <2> QED
    BY <2>1, <2>2, NoRunStep
<1>2. ASSUME ~RemoveShipment(h, s) PROVE Inv'
  <2>1. UNCHANGED runs /\ (\E copy : Begin(h, Holding(s, copy)))
    BY <1>2 DEF ShipmentRequest, UpdateShipment, AssignShipment, UpdateStatus, Accept,
                Reject, CancelShipment, UploadPod, FinishShipment, Request
  <2> QED
    BY <2>1, HoldingStep
<1> QED
  BY <1>1, <1>2

LEMMA NextOK == Inv /\ [Next]_vars => Inv'
<1> SUFFICES ASSUME Inv, [Next]_vars PROVE Inv'
  OBVIOUS
<1>1. CASE UNCHANGED vars
  BY <1>1 DEF vars, Inv, RowsInv, AloneInv, OneRunPerDriver, Existing, CallOK,
              CallAlone, Alone, Serial
<1>2. ASSUME NEW h \in Handlers, Lose(h) PROVE Inv'
  BY <1>2, EndStep DEF Lose
<1>3. ASSUME NEW h \in Handlers, NEW s, NEW status, NEW crewed,
             CreateShipment(h, s, status, crewed)
      PROVE  Inv'
  BY <1>3, HoldingStep DEF CreateShipment, Request
<1> QED
  BY <1>1, <1>2, <1>3, ContinueStep, CreateStep, RunRequestStep, ShipmentRequestStep
     DEF Next

LEMMA InvHolds == Spec => []Inv
BY InitOK, NextOK, PTL DEF Spec

\* Whatever calls overlap, a run under way has a driver, a truck and a stop:
\* only start() makes a copy a running one, it checks the three on the copy
\* that it saves, and the calls that change crew or stops hold copies of runs
\* that are not under way.
THEOREM RunningRunsAreManned == Spec => []RunningRunIsManned
<1>1. Inv => RunningRunIsManned
  BY DEF Inv, RowsInv, RunOK, Fit, RunningRunIsManned
<1> QED
  BY <1>1, InvHolds, PTL

\* DR-009 holds of every carrier whose calls come one after the other.  Two are
\* enough to break it: both query before either is under way.
THEOREM SerialCallsKeepOneRunPerDriver ==
    ASSUME Serial
    PROVE  Spec => []OneRunPerDriver
<1>1. Inv => OneRunPerDriver
  BY DEF Inv, AloneInv
<1> QED
  BY <1>1, InvHolds, PTL

-----------------------------------------------------------------------------
(***************************************************************************)
(* The types of the tables and of the copies in flight, and what the       *)
(* functions of DispatchRows on sequences of stops return.                 *)
(***************************************************************************)

-----------------------------------------------------------------------------
\* filter() of a sequence.

Stay(seq, ids) == {i \in DOMAIN seq : seq[i] \notin ids}

Rank(stay) == [i \in stay |-> Cardinality({j \in stay : j <= i})]

\* The positions that stay are ranked 1, 2, ... without a gap.
LEMMA RankCounts ==
    ASSUME NEW n \in Nat, NEW stay \in SUBSET (1 .. n)
    PROVE  /\ Cardinality(stay) \in Nat
           /\ Rank(stay) \in [stay -> 1 .. Cardinality(stay)]
           /\ \A i, j \in stay : Rank(stay)[i] = Rank(stay)[j] => i = j
           /\ \A k \in 1 .. Cardinality(stay) : \E i \in stay : Rank(stay)[i] = k
<1> DEFINE Low(i) == {j \in stay : j <= i}
           size == Cardinality(stay)
<1>1. IsFiniteSet(1 .. n)
  BY FS_Interval
<1>2. IsFiniteSet(stay)
  BY <1>1, FS_Subset
<1>3. size \in Nat
  BY <1>2, FS_CardinalityType
<1>4. stay \subseteq Int
  OBVIOUS
<1>5. ASSUME NEW i \in stay
      PROVE  IsFiniteSet(Low(i)) /\ Cardinality(Low(i)) \in 1 .. size
  <2>1. Low(i) \in SUBSET stay /\ i \in Low(i)
    BY <1>4
  <2>2. IsFiniteSet(Low(i)) /\ Cardinality(Low(i)) <= size
    BY <1>2, <2>1, FS_Subset
  <2>3. Cardinality(Low(i)) \in Nat
    BY <2>2, FS_CardinalityType
  <2>4. Cardinality(Low(i)) # 0
    BY <2>1, <2>2, FS_EmptySet
  <2> HIDE DEF Low
  <2> QED
    BY <1>3, <2>2, <2>3, <2>4
<1>6. ASSUME NEW i \in stay, NEW j \in stay, i < j
      PROVE  Cardinality(Low(i)) # Cardinality(Low(j))
  <2>1. \A k \in stay : k <= i => k <= j
    BY <1>4, <1>6
  <2>2. j <= j /\ ~(j <= i)
    BY <1>4, <1>6
  <2>3. Low(i) \in SUBSET Low(j) /\ j \in Low(j) /\ j \notin Low(i)
    BY <2>1, <2>2
  <2>4. IsFiniteSet(Low(j))
    BY <1>5
  <2>5. Cardinality(Low(i)) = Cardinality(Low(j)) => Low(i) = Low(j)
    BY <2>3, <2>4, FS_Subset
  <2> QED
    BY <2>3, <2>5
<1>7. \A i \in stay : Rank(stay)[i] = Cardinality(Low(i))
  BY DEF Rank
<1>8. Rank(stay) \in [stay -> 1 .. size]
  <2>1. Rank(stay) = [i \in stay |-> Cardinality(Low(i))]
    BY DEF Rank
  <2> HIDE DEF Low
  <2> QED
    BY <1>5, <2>1
<1>9. \A i, j \in stay : Rank(stay)[i] = Rank(stay)[j] => i = j
  <2> SUFFICES ASSUME NEW i \in stay, NEW j \in stay, i # j
               PROVE  Rank(stay)[i] # Rank(stay)[j]
    OBVIOUS
  <2>1. i < j \/ j < i
    BY <1>4
  <2> QED
    BY <1>6, <1>7, <2>1
<1>10. Rank(stay) \in Injection(stay, 1 .. size)
  BY <1>8, <1>9, Fun_IsInj
<1>11. IsFiniteSet(1 .. size) /\ Cardinality(1 .. size) = size
  BY <1>3, FS_Interval
<1>12. Rank(stay) \in Surjection(stay, 1 .. size)
  BY <1>10, <1>11, FS_Injection
<1> QED
  BY <1>3, <1>8, <1>9, <1>12, Fun_SurjectionProperties

\* Kept is a sequence of the elements that stay, in which no element is
\* listed twice unless the first sequence did.
LEMMA KeptElements ==
    ASSUME NEW S, NEW seq \in Seq(S), NEW ids
    PROVE  /\ Kept(seq, ids) \in Seq(S)
           /\ Range(Kept(seq, ids)) = Range(seq) \ ids
           /\ IsInjective(seq) => IsInjective(Kept(seq, ids))
<1> DEFINE stay == Stay(seq, ids)
           size == Cardinality(stay)
           At(k) == CHOOSE i \in stay : Rank(stay)[i] = k
           kept == [k \in 1 .. size |-> seq[At(k)]]
<1>1. Kept(seq, ids) = kept
  BY DEF Kept, Stay, Rank
<1>2. Len(seq) \in Nat /\ DOMAIN seq = 1 .. Len(seq) /\ stay \in SUBSET (1 .. Len(seq))
  BY DEF Stay
<1>3. \A i \in stay : seq[i] \in S \ ids
  BY <1>2 DEF Stay
<1>4. /\ size \in Nat
      /\ Rank(stay) \in [stay -> 1 .. size]
      /\ \A i, j \in stay : Rank(stay)[i] = Rank(stay)[j] => i = j
      /\ \A k \in 1 .. size : \E i \in stay : Rank(stay)[i] = k
  BY <1>2, RankCounts
<1>5. \A x \in Range(seq) \ ids : \E i \in stay : seq[i] = x
  BY DEF Range, Stay
<1>6. \A i \in stay : seq[i] \in Range(seq) \ ids
  BY <1>2 DEF Range, Stay
<1>7. stay \subseteq DOMAIN seq
  BY <1>2
<1> HIDE DEF stay
<1>8. \A k \in 1 .. size : At(k) \in stay /\ Rank(stay)[At(k)] = k
  BY <1>4
<1>9. \A i \in stay : Rank(stay)[i] \in 1 .. size /\ At(Rank(stay)[i]) = i
  BY <1>4, <1>8
<1> HIDE DEF At
<1>10. kept \in [1 .. size -> S]
  BY <1>3, <1>8
<1>11. kept \in Seq(S)
  BY <1>4, <1>10
<1>12. DOMAIN kept = 1 .. size /\ \A k \in 1 .. size : kept[k] = seq[At(k)]
  OBVIOUS
<1> HIDE DEF kept
<1>13. Range(kept) \subseteq Range(seq) \ ids
  BY <1>6, <1>8, <1>12 DEF Range
<1>14. Range(seq) \ ids \subseteq Range(kept)
  <2> SUFFICES ASSUME NEW x \in Range(seq) \ ids PROVE x \in Range(kept)
    OBVIOUS
  <2>1. PICK i \in stay : seq[i] = x
    BY <1>5
  <2>2. Rank(stay)[i] \in DOMAIN kept /\ kept[Rank(stay)[i]] = x
    BY <1>9, <1>12, <2>1
  <2> QED
    BY <2>2 DEF Range
<1>15. IsInjective(seq) => IsInjective(kept)
  BY <1>7, <1>8, <1>12 DEF IsInjective
<1> QED
  BY <1>1, <1>11, <1>13, <1>14, <1>15

\* A sequence that lists each element of a finite set once.
LEMMA ListedSet ==
    ASSUME NEW S, IsFiniteSet(S), NEW seq \in SetToSeqs(S)
    PROVE  seq \in Seq(S) /\ Range(seq) = S /\ IsInjective(seq)
<1> DEFINE size == Cardinality(S)
<1>1. size \in Nat
  BY FS_CardinalityType
<1>2. seq \in [1 .. size -> S] /\ (\A i, j \in 1 .. size : i # j => seq[i] # seq[j])
  BY DEF SetToSeqs
<1>3. IsFiniteSet(1 .. size) /\ Cardinality(1 .. size) = size
  BY <1>1, FS_Interval
<1> HIDE DEF size
<1>4. seq \in Seq(S) /\ IsInjective(seq)
  BY <1>1, <1>2 DEF IsInjective
<1>5. seq \in Injection(1 .. size, S)
  BY <1>2, Fun_IsInj
<1>6. seq \in Surjection(1 .. size, S)
  BY <1>3, <1>5, FS_Injection DEF size
<1> QED
  BY <1>4, <1>6, Fun_SurjectionProperties

\* A shipment of the sequence has a place in it.
LEMMA PlaceExists ==
    ASSUME NEW S, NEW seq \in Seq(S), NEW s \in Range(seq)
    PROVE  PlaceIn(seq, s) \in DOMAIN seq /\ PlaceIn(seq, s) \in Nat
           /\ seq[PlaceIn(seq, s)] = s
<1>1. PICK i \in DOMAIN seq : seq[i] = s
  BY DEF Range
<1>2. PlaceIn(seq, s) \in DOMAIN seq /\ seq[PlaceIn(seq, s)] = s
  BY <1>1 DEF PlaceIn
<1>3. DOMAIN seq = 1 .. Len(seq) /\ Len(seq) \in Nat
  OBVIOUS
<1> QED
  BY <1>2, <1>3

LEMMA JoinedRange ==
    ASSUME NEW S, NEW a \in Seq(S), NEW b \in Seq(S)
    PROVE  a \o b \in Seq(S) /\ Range(a \o b) = Range(a) \cup Range(b)
<1>1. /\ a \o b \in Seq(S) /\ Len(a \o b) = Len(a) + Len(b)
      /\ \A i \in 1 .. Len(a) : (a \o b)[i] = a[i]
      /\ \A i \in Len(a) + 1 .. Len(a) + Len(b) : (a \o b)[i] = b[i - Len(a)]
  OBVIOUS
<1>2. Range(a \o b) \subseteq Range(a) \cup Range(b)
  <2> SUFFICES ASSUME NEW i \in DOMAIN (a \o b) PROVE (a \o b)[i] \in Range(a) \cup Range(b)
    BY DEF Range
  <2>1. CASE i \in 1 .. Len(a)
    BY <1>1, <2>1 DEF Range
  <2>2. CASE i \in Len(a) + 1 .. Len(a) + Len(b)
    <3>1. i - Len(a) \in DOMAIN b
      BY <2>2
    <3> QED
      BY <1>1, <2>2, <3>1 DEF Range
  <2> QED
    BY <1>1, <2>1, <2>2
<1>3. Range(a) \subseteq Range(a \o b)
  BY <1>1 DEF Range
<1>4. Range(b) \subseteq Range(a \o b)
  <2> SUFFICES ASSUME NEW i \in DOMAIN b PROVE b[i] \in Range(a \o b)
    BY DEF Range
  <2>1. i + Len(a) \in DOMAIN (a \o b) /\ (a \o b)[i + Len(a)] = b[i]
    BY <1>1
  <2> QED
    BY <2>1 DEF Range
<1> QED
  BY <1>1, <1>2, <1>3, <1>4

-----------------------------------------------------------------------------
\* Types.

Made == {s \in Shipments : ships[s] # Null}

\* A row of the table of runs lists shipments that were created.
RowTyped(row) == row \in RunRow /\ Range(row.seq) \subseteq Made

\* It counts at least the shipments that it lists, and what is planned lacks
\* something.
RowFits(row) ==
    /\ RowTyped(row)
    /\ Cardinality(Range(row.seq)) <= row.total
    /\ row.status = "planned" => ~Fit(row)

\* Only removals set deleted_at.
ShipmentOK == {row \in ShipmentRow : "delete" \notin Requests => ~row.gone}

Copies == [Shipments -> ShipmentOK \cup {Null}]

CallFits(call) ==
    /\ call \in Call /\ call.copies \in Copies
    /\ HoldsRun(call) => RowFits(call.row)
    /\ call.step \in {"recount", "saveStop", "close"} => call.run \in Existing
    /\ call.step = "delete" => call.ids \subseteq Made /\ "delete" \in Requests

TypeInv ==
    /\ TypeOK
    /\ ships \in Copies
    /\ \A r \in Existing : RowFits(runs[r])
    /\ \A h \in Handlers : CallFits(calls[h])

LEMMA StatusFits ==
    ASSUME NEW row, NEW v \in RunStatuses \ {"planned"}, RowFits(row)
    PROVE  RowFits([row EXCEPT !.status = v])
BY DEF RowFits, RowTyped, RunRow

LEMMA DoneFits ==
    ASSUME NEW row, NEW n \in Nat, RowFits(row)
    PROVE  RowFits([row EXCEPT !.done = n])
BY DEF RowFits, RowTyped, RunRow, Fit, Manned

\* The same shipments in another order.
LEMMA SeqFits ==
    ASSUME NEW row, NEW seq \in Seq(Shipments), RowFits(row), Range(seq) = Range(row.seq)
    PROVE  RowFits([row EXCEPT !.seq = seq])
BY DEF RowFits, RowTyped, RunRow, Fit, Manned

\* Promotion leaves nothing planned that lacks nothing.
LEMMA PromoteFits ==
    ASSUME NEW row, RowTyped(row), Cardinality(Range(row.seq)) <= row.total
    PROVE  RowFits(Promote(row)) /\ Promote(row).seq = row.seq
<1>1. CASE row.status = "planned" /\ Manned(row) /\ row.total > 0
  <2> DEFINE new == [row EXCEPT !.status = "ready"]
  <2>1. /\ new \in RunRow /\ new.seq = row.seq /\ new.total = row.total
        /\ new.status # "planned"
    BY DEF RowTyped, RunRow, RunStatuses
  <2>2. Promote(row) = new
    BY <1>1 DEF Promote
  <2> HIDE DEF new
  <2> QED
    BY <2>1, <2>2 DEF RowFits, RowTyped
<1>2. CASE ~(row.status = "planned" /\ Manned(row) /\ row.total > 0)
  BY <1>2 DEF Promote, RowFits, Fit
<1> QED
  BY <1>1, <1>2

LEMMA CrewFits ==
    ASSUME NEW row, NEW x \in Drivers \cup {Null}, NEW y \in Trucks \cup {Null},
           RowFits(row)
    PROVE  RowFits(Promote([row EXCEPT !.driver = x, !.truck = y]))
<1> DEFINE new == [row EXCEPT !.driver = x, !.truck = y]
<1>1. new \in RunRow /\ new.seq = row.seq /\ new.total = row.total
  BY DEF RowFits, RowTyped, RunRow
<1> HIDE DEF new
<1>2. RowTyped(new) /\ Cardinality(Range(new.seq)) <= new.total
  BY <1>1 DEF RowFits, RowTyped
<1> QED
  BY <1>2, PromoteFits DEF new

\* A sequence is at least as long as the set of what it lists.
LEMMA RangeSize ==
    ASSUME NEW seq \in Seq(Shipments)
    PROVE  Cardinality(Range(seq)) \in Nat /\ Cardinality(Range(seq)) <= Len(seq)
<1>1. Len(seq) \in Nat /\ seq \in [1 .. Len(seq) -> Shipments]
  OBVIOUS
<1>2. IsFiniteSet(1 .. Len(seq)) /\ Cardinality(1 .. Len(seq)) = Len(seq)
  BY <1>1, FS_Interval
<1>3. seq \in Surjection(1 .. Len(seq), Range(seq))
  BY <1>1, Fun_RangeProperties
<1>4. IsFiniteSet(Range(seq)) /\ Cardinality(Range(seq)) <= Len(seq)
  BY <1>2, <1>3, FS_Surjection
<1> QED
  BY <1>4, FS_CardinalityType

LEMMA StopsTyped ==
    ASSUME NEW row, NEW seq \in Seq(Shipments), Range(seq) \subseteq Made, RowTyped(row),
           NEW n, n = Len(seq)
    PROVE  RowTyped([row EXCEPT !.seq = seq, !.total = n])
<1>1. n \in Nat
  OBVIOUS
<1> QED
  BY <1>1 DEF RowTyped, RunRow

LEMMA ExtendFits ==
    ASSUME NEW row, NEW found \in Seq(Shipments), RowFits(row), Range(found) \subseteq Made
    PROVE  /\ RowFits(Extend(row, found))
           /\ Extend(row, found).seq = row.seq \o found
           /\ Extend(row, found).seq \in Seq(Shipments)
           /\ Range(Extend(row, found).seq) = Range(row.seq) \cup Range(found)
<1> DEFINE seq == row.seq \o found
           n == Len(row.seq \o found)
           longer == [row EXCEPT !.seq = seq, !.total = n]
<1>1. RowTyped(row) /\ row.seq \in Seq(Shipments) /\ Range(row.seq) \subseteq Made
  BY DEF RowFits, RowTyped, RunRow
<1>2. seq \in Seq(Shipments) /\ Range(seq) = Range(row.seq) \cup Range(found)
  BY <1>1, JoinedRange
<1>3. n = Len(seq)
  OBVIOUS
<1>4. Extend(row, found) = Promote(longer)
  BY DEF Extend
<1> HIDE DEF seq, n
<1>5. RowTyped(longer)
  BY <1>1, <1>2, <1>3, StopsTyped
<1>6. longer.seq = seq /\ longer.total = n
  BY <1>1 DEF RowTyped, RunRow
<1> HIDE DEF longer
<1>7. Cardinality(Range(longer.seq)) <= longer.total
  BY <1>2, <1>3, <1>6, RangeSize
<1> QED
  BY <1>2, <1>4, <1>5, <1>6, <1>7, PromoteFits DEF seq

LEMMA WithoutFits ==
    ASSUME NEW row, NEW ids, RowFits(row)
    PROVE  /\ RowFits(Without(row, ids))
           /\ Without(row, ids).status = row.status
           /\ Without(row, ids).seq \in Seq(Shipments)
           /\ Range(Without(row, ids).seq) = Range(row.seq) \ ids
<1> DEFINE seq == Kept(row.seq, ids)
           n == Len(Kept(row.seq, ids))
           shorter == [row EXCEPT !.seq = seq, !.total = n]
<1>1. RowTyped(row) /\ row.seq \in Seq(Shipments) /\ Range(row.seq) \subseteq Made
  BY DEF RowFits, RowTyped, RunRow
<1>2. seq \in Seq(Shipments) /\ Range(seq) = Range(row.seq) \ ids
  BY <1>1, KeptElements
<1>3. n = Len(seq) /\ Without(row, ids) = shorter
  BY DEF Without
<1>4. Range(row.seq) = {} => n = 0
  <2>1. n \in Nat /\ DOMAIN seq = 1 .. n
    BY <1>2
  <2>2. Range(row.seq) = {} => DOMAIN seq = {}
    BY <1>2 DEF Range
  <2> HIDE DEF n, seq
  <2> QED
    BY <2>1, <2>2
<1> HIDE DEF seq, n
<1>5. RowTyped(shorter)
  BY <1>1, <1>2, <1>3, StopsTyped
<1>6. /\ shorter.seq = seq /\ shorter.total = n /\ shorter.status = row.status
      /\ shorter.driver = row.driver /\ shorter.truck = row.truck
  BY <1>1 DEF RowTyped, RunRow
<1> HIDE DEF shorter
<1>7. Cardinality(Range(shorter.seq)) <= shorter.total
  BY <1>2, <1>3, <1>6, RangeSize
<1>8. shorter.status = "planned" => ~Fit(shorter)
  <2> SUFFICES ASSUME row.status = "planned", Manned(row) PROVE n = 0
    BY <1>6 DEF Fit, Manned
  <2>1. row.total = 0
    BY DEF RowFits, Fit, RowTyped, RunRow
  <2>2. Cardinality(Range(row.seq)) = 0
    BY <1>1, <2>1, RangeSize DEF RowFits
  <2>3. IsFiniteSet(Range(row.seq))
    <3>1. Range(row.seq) \subseteq Shipments
      BY <1>1 DEF Made
    <3> QED
      BY <3>1, FiniteShipments, FS_Subset
  <2> QED
    BY <1>4, <2>2, <2>3, FS_EmptySet
<1> QED
  BY <1>2, <1>3, <1>5, <1>6, <1>7, <1>8 DEF RowFits

\* Rows of shipments.

LEMMA ShipmentStatusFits ==
    ASSUME NEW s \in ShipmentOK, NEW v \in ShipmentStatuses
    PROVE  [s EXCEPT !.status = v] \in ShipmentOK
BY DEF ShipmentOK, ShipmentRow

LEMMA PlaceFits ==
    ASSUME NEW s \in ShipmentOK, NEW n \in Nat
    PROVE  [s EXCEPT !.place = n] \in ShipmentOK
BY DEF ShipmentOK, ShipmentRow

LEMMA AttachFits ==
    ASSUME NEW s \in ShipmentOK, NEW r \in Runs, NEW n \in Nat
    PROVE  Attach(s, r, n) \in ShipmentOK
BY DEF ShipmentOK, ShipmentRow, Attach

LEMMA DetachFits ==
    ASSUME NEW s \in ShipmentOK
    PROVE  Detach(s) \in ShipmentOK
BY DEF ShipmentOK, ShipmentRow, Detach

LEMMA AdvanceFits ==
    ASSUME NEW s \in ShipmentOK
    PROVE  Advance(s) \in ShipmentOK
BY DEF ShipmentOK, ShipmentRow, ShipmentStatuses, Advance

LEMMA CrewedFits ==
    ASSUME NEW s \in ShipmentOK, NEW crewed \in BOOLEAN
    PROVE  [s EXCEPT !.crewed = crewed] \in ShipmentOK /\ Assign(s, crewed) \in ShipmentOK
BY DEF ShipmentOK, ShipmentRow, ShipmentStatuses, Assign

LEMMA GoneFits ==
    ASSUME NEW s \in ShipmentOK, "delete" \in Requests
    PROVE  [s EXCEPT !.gone = TRUE] \in ShipmentOK
BY DEF ShipmentOK, ShipmentRow

\* What exists has the type of a row.
LEMMA RowsExist ==
    ASSUME TypeInv
    PROVE  /\ \A r \in Existing : r \in Runs /\ RowFits(runs[r])
           /\ \A s \in Made : s \in Shipments /\ ships[s] \in ShipmentOK
           /\ Found \subseteq Made
           /\ \A r : StopsOf(r) \subseteq Found
BY DEF TypeInv, Copies, Existing, Made, Found, StopsOf

-----------------------------------------------------------------------------
\* Calls.

LEMMA PendingFits ==
    ASSUME NEW step \in Steps, NEW r \in Runs, NEW row, NEW copies \in Copies,
           NEW ids \in SUBSET Shipments, RowFits(row) \/ (step = "close" /\ row = Null),
           step # "delete",
           step \in {"recount", "saveStop", "close"} => runs[r] # Null
    PROVE  CallFits(Pending(step, r, row, copies, ids))
<1> DEFINE call == Pending(step, r, row, copies, ids)
<1>1. call \in Call
  BY DEF Pending, Call, Copies, ShipmentOK, RowFits, RowTyped
<1>2. call.step = step /\ call.run = r /\ call.row = row /\ call.copies = copies
  BY DEF Pending
<1> HIDE DEF call
<1>3. HoldsRun(call) => RowFits(call.row)
  BY <1>2 DEF HoldsRun
<1>4. call.step \in {"recount", "saveStop", "close"} => call.run \in Existing
  BY <1>2 DEF Existing
<1> QED
  BY <1>1, <1>2, <1>3, <1>4 DEF CallFits, call

LEMMA NoCopiesFit == NoCopies \in Copies
BY DEF NoCopies, Copies

LEMMA WithFits ==
    ASSUME NEW step \in Steps, NEW r \in Runs, NEW row,
           RowFits(row) \/ (step = "close" /\ row = Null), step # "delete",
           step \in {"recount", "saveStop", "close"} => runs[r] # Null
    PROVE  CallFits(With(step, r, row))
BY NoCopiesFit, PendingFits DEF With

LEMMA NamingFits ==
    ASSUME NEW step \in Steps, NEW r \in Runs, NEW row, NEW ids \in SUBSET Shipments,
           RowFits(row), step \in {"save", "attach", "detach"}
    PROVE  CallFits(Naming(step, r, row, ids))
BY NoCopiesFit, PendingFits DEF Naming

LEMMA OnlyFits ==
    ASSUME NEW s, NEW copy \in ShipmentOK
    PROVE  Only(s, copy) \in Copies
BY DEF Only, Copies

LEMMA HoldingFits ==
    ASSUME NEW s, NEW copy \in ShipmentOK
    PROVE  CallFits(Holding(s, copy))
<1> DEFINE call == Holding(s, copy)
<1>1. call \in Call /\ call.copies \in Copies
  BY OnlyFits DEF Holding, Pending, Call, Copies, ShipmentOK, Steps
<1>2. call.step = "save" /\ call.run = Null
  BY DEF Holding, Pending
<1> HIDE DEF call
<1> QED
  BY <1>1, <1>2 DEF CallFits, HoldsRun, call

LEMMA IdleFits == CallFits(Idle)
<1>1. Idle \in Call /\ Idle.copies \in Copies
  BY NoCopiesFit DEF Idle, Pending, Call, Steps, Copies, ShipmentOK
<1>2. Idle.step = "idle" /\ Idle.run = Null
  BY DEF Idle, Pending
<1> QED
  BY <1>1, <1>2 DEF CallFits, HoldsRun

\* A step that stores at most one run and replaces one call.
LEMMA StepFits ==
    ASSUME TypeInv, NEW h \in Handlers, NEW call, Begin(h, call), CallFits(call),
           lost' \in Nat,
           \/ UNCHANGED runs
           \/ \E r \in Runs : \E row : RowFits(row) /\ runs' = [runs EXCEPT ![r] = row],
           ships' \in Copies,
           \A s \in Made : ships'[s] # Null
    PROVE  TypeInv'
<1>1. calls' = [calls EXCEPT ![h] = call] /\ calls \in [Handlers -> Call]
      /\ runs \in [Runs -> RunRow \cup {Null}]
  BY DEF Begin, TypeInv, TypeOK
<1>2. Made \subseteq Made'
  BY DEF Made
<1>3. \A row : RowFits(row) => (row \in RunRow /\ Range(row.seq) \subseteq Made')
  BY <1>2 DEF RowFits, RowTyped
<1>4. runs' \in [Runs -> RunRow \cup {Null}] /\ (\A x \in Existing : runs'[x] # Null)
  BY <1>1, <1>3, NullIsNoRunRow DEF Existing
<1>5. ASSUME NEW r \in Existing' PROVE RowFits(runs[r])'
  <2>1. RowFits(runs'[r])
    BY <1>1, <1>5 DEF TypeInv, Existing
  <2> QED
    BY <1>3, <2>1 DEF RowFits, RowTyped
<1>6. ASSUME NEW g \in Handlers PROVE CallFits(calls[g])'
  <2>1. CallFits(calls'[g])
    BY <1>1 DEF TypeInv
  <2>2. calls'[g] \in Call /\ calls'[g].copies \in Copies
    BY <2>1 DEF CallFits
  <2>3. HoldsRun(calls'[g]) => RowFits(calls'[g].row)
    BY <2>1 DEF CallFits
  <2>4. calls'[g].step \in {"recount", "saveStop", "close"} => calls'[g].run \in Existing'
    BY <1>4, <2>1 DEF CallFits, Existing
  <2>5. calls'[g].step = "delete" => calls'[g].ids \subseteq Made' /\ "delete" \in Requests
    BY <1>2, <2>1 DEF CallFits
  <2> QED
    BY <1>3, <2>2, <2>3, <2>4, <2>5 DEF CallFits, HoldsRun, RowFits, RowTyped
<1>7. calls' \in [Handlers -> Call]
  BY <1>1 DEF CallFits
<1>8. ships' \in [Shipments -> ShipmentRow \cup {Null}]
  BY DEF Copies, ShipmentOK
<1> QED
  BY <1>4, <1>5, <1>6, <1>7, <1>8 DEF TypeInv, TypeOK

\* A step that only replaces a call.
LEMMA BeginFits ==
    ASSUME TypeInv, NEW h \in Handlers, NEW call, Begin(h, call), CallFits(call),
           UNCHANGED <<runs, ships, lost>>
    PROVE  TypeInv'
BY StepFits DEF TypeInv, TypeOK, Copies, Made

LEMMA CreateFits ==
    ASSUME TypeInv, NEW h \in Handlers, NEW r \in Runs, NEW driver \in Drivers \cup {Null},
           NEW truck \in Trucks \cup {Null}, NEW ids \in SUBSET Shipments,
           CreateRun(h, r, driver, truck, ids)
    PROVE  TypeInv'
<1> DEFINE row == NewRun(driver, truck)
           step == IF ids = {} THEN "save" ELSE "attach"
<1>1. row \in RunRow /\ Range(row.seq) = {}
  BY DEF NewRun, RunRow, RunStatuses, Range
<1>2. RowFits(row) /\ step \in {"save", "attach"}
  <2>1. Cardinality({}) = 0
    BY FS_EmptySet
  <2>2. row.total = 0
    BY DEF NewRun
  <2> HIDE DEF row
  <2> QED
    BY <1>1, <2>1, <2>2 DEF RowFits, RowTyped, Fit
<1>3. UNCHANGED <<runs, ships, lost>> /\ Begin(h, Naming(step, r, row, ids))
  BY DEF CreateRun, Request
<1> HIDE DEF row, step
<1> QED
  BY <1>2, <1>3, NamingFits, BeginFits DEF Steps

\* Requests that load a run.
LEMMA RunRequestFits ==
    ASSUME TypeInv, NEW h \in Handlers, NEW r \in Existing, RunRequest(h, r)
    PROVE  TypeInv'
<1>1. r \in Runs /\ RowFits(runs[r]) /\ runs[r] # Null
  BY RowsExist DEF Existing
<1>2. CASE UpdateRun(h, r) \/ StartRun(h, r)
  <2>1. UNCHANGED <<runs, ships, lost>>
        /\ \E step \in {"save", "probe"} : Begin(h, With(step, r, runs[r]))
    BY <1>2 DEF UpdateRun, StartRun, Request
  <2> QED
    BY <1>1, <2>1, WithFits, BeginFits DEF Steps
<1>3. CASE CompleteRun(h, r)
  <2>1. UNCHANGED <<runs, ships, lost>> /\ Begin(h, With("close", r, Null))
    BY <1>3 DEF CompleteRun, Request
  <2> QED
    BY <1>1, <2>1, WithFits, BeginFits DEF Steps
<1>4. CASE CancelRun(h, r)
  <2> DEFINE row == [runs[r] EXCEPT !.status = "cancelled"]
  <2>1. UNCHANGED <<runs, ships, lost>> /\ Begin(h, With("release", r, row))
    BY <1>4 DEF CancelRun, Request
  <2>2. RowFits(row)
    BY <1>1, StatusFits DEF RunStatuses
  <2> HIDE DEF row
  <2> QED
    BY <1>1, <2>1, <2>2, WithFits, BeginFits DEF Steps
<1>5. ASSUME NEW driver \in Drivers \cup {Null}, NEW truck \in Trucks \cup {Null},
             AssignDriver(h, r, driver, truck)
      PROVE  TypeInv'
  <2> DEFINE row == Promote([runs[r] EXCEPT !.driver = driver, !.truck = truck])
  <2>1. UNCHANGED <<runs, ships, lost>> /\ Begin(h, With("save", r, row))
    BY <1>5 DEF AssignDriver, Request
  <2>3. RowFits(row)
    BY <1>1, CrewFits
  <2> HIDE DEF row
  <2> QED
    BY <1>1, <2>1, <2>3, WithFits, BeginFits DEF Steps
<1>6. ASSUME NEW ids \in SUBSET Shipments, AddShipments(h, r, ids) \/ RemoveShipments(h, r, ids)
      PROVE  TypeInv'
  <2>1. UNCHANGED <<runs, ships, lost>>
        /\ \E step \in {"attach", "detach"} : Begin(h, Naming(step, r, runs[r], ids))
    BY <1>6 DEF AddShipments, RemoveShipments, Request
  <2> QED
    BY <1>1, <2>1, NamingFits, BeginFits DEF Steps
<1>7. ASSUME NEW order \in SetToSeqs(Range(runs[r].seq)), Reorder(h, r, order)
      PROVE  TypeInv'
  <2> DEFINE row == [runs[r] EXCEPT !.seq = order]
  <2>1. UNCHANGED <<runs, ships, lost>> /\ Begin(h, With("resequence", r, row))
    BY <1>7 DEF Reorder, Request
  <2>2. Range(runs[r].seq) \subseteq Made /\ Made \subseteq Shipments
    BY <1>1 DEF RowFits, RowTyped, Made
  <2>3. IsFiniteSet(Range(runs[r].seq))
    BY <2>2, FiniteShipments, FS_Subset
  <2>4. order \in Seq(Range(runs[r].seq)) /\ Range(order) = Range(runs[r].seq)
    BY <1>7, <2>3, ListedSet
  <2>5. order \in Seq(Shipments)
    BY <2>2, <2>4
  <2>6. RowFits(row)
    BY <1>1, <2>4, <2>5, SeqFits
  <2> HIDE DEF row
  <2> QED
    BY <1>1, <2>1, <2>6, WithFits, BeginFits DEF Steps
<1>8. ASSUME NEW s \in StopsOf(r), NEW status \in ShipmentStatuses,
             UNCHANGED <<runs, ships, lost>>,
             Begin(h, Closing(r, s, status))
             \/ Begin(h, Holding(s, [ships[s] EXCEPT !.status = status]))
      PROVE  TypeInv'
  <2> DEFINE copy == [ships[s] EXCEPT !.status = status]
  <2>1. ships[s] \in ShipmentOK
    BY RowsExist
  <2>2. copy \in ShipmentOK
    BY <2>1, ShipmentStatusFits
  <2>3. Closing(r, s, status) = Pending("recount", r, runs[r], Only(s, copy), {})
    BY DEF Closing
  <2> HIDE DEF copy
  <2>4. CallFits(Holding(s, copy))
    BY <2>2, HoldingFits
  <2>5. CallFits(Closing(r, s, status))
    BY <1>1, <2>2, <2>3, OnlyFits, PendingFits DEF Steps
  <2> QED
    BY <1>8, <2>4, <2>5, BeginFits DEF copy
<1>9. ASSUME NEW s \in StopsOf(r), NEW status \in {"delivered", "pod_uploaded"},
             StopDone(h, r, s, status)
      PROVE  TypeInv'
  BY <1>8, <1>9 DEF StopDone, Stop, Request, ShipmentStatuses
<1>10. ASSUME NEW s \in StopsOf(r),
              StopIncident(h, r, s) \/ StopStartTransit(h, r, s) \/ StopArrive(h, r, s)
       PROVE  TypeInv'
  BY <1>8, <1>10 DEF StopIncident, StopStartTransit, StopArrive, Stop, Request,
                     ShipmentStatuses
<1> QED
  BY <1>2, <1>3, <1>4, <1>5, <1>6, <1>7, <1>9, <1>10 DEF RunRequest

\* Requests on shipments.
LEMMA ShipmentRequestFits ==
    ASSUME TypeInv, NEW h \in Handlers, NEW s \in Found, ShipmentRequest(h, s)
    PROVE  TypeInv'
<1>1. s \in Made /\ ships[s] \in ShipmentOK
  BY RowsExist
<1>2. ASSUME NEW copy \in ShipmentOK, UNCHANGED <<runs, ships, lost>>,
             Begin(h, Holding(s, copy))
      PROVE  TypeInv'
  BY <1>2, HoldingFits, BeginFits
<1>3. ASSUME NEW crewed \in BOOLEAN,
             UpdateShipment(h, s, crewed) \/ AssignShipment(h, s, crewed)
      PROVE  TypeInv'
  BY <1>1, <1>2, <1>3, CrewedFits DEF UpdateShipment, AssignShipment, Request
<1>4. ASSUME NEW status \in ShipmentStatuses, UNCHANGED <<runs, ships, lost>>,
             Begin(h, Holding(s, [ships[s] EXCEPT !.status = status]))
      PROVE  TypeInv'
  BY <1>1, <1>2, <1>4, ShipmentStatusFits
<1>5. CASE Accept(h, s) \/ Reject(h, s) \/ CancelShipment(h, s) \/ UploadPod(h, s)
           \/ FinishShipment(h, s) \/ \E status \in ShipmentStatuses : UpdateStatus(h, s, status)
  <2>1. \E status \in ShipmentStatuses :
           /\ UNCHANGED <<runs, ships, lost>>
           /\ Begin(h, Holding(s, [ships[s] EXCEPT !.status = status]))
    BY <1>5 DEF UpdateStatus, Accept, Reject, CancelShipment, UploadPod, FinishShipment,
                Request, ShipmentStatuses
  <2> QED
    BY <1>4, <2>1
<1>6. CASE RemoveShipment(h, s)
  <2> DEFINE call == Pending("delete", Null, Null, NoCopies, {s})
  <2>1. UNCHANGED <<runs, ships, lost>> /\ Begin(h, call) /\ "delete" \in Requests
    BY <1>6 DEF RemoveShipment, Request
  <2>2. call \in Call /\ call.copies \in Copies
    BY <1>1, NoCopiesFit DEF Made, Pending, Call, Steps, Copies, ShipmentOK
  <2>3. call.step = "delete" /\ call.run = Null /\ call.ids = {s}
    BY DEF Pending
  <2> HIDE DEF call
  <2>4. CallFits(call)
    BY <1>1, <2>1, <2>2, <2>3 DEF CallFits, HoldsRun
  <2> QED
    BY <2>1, <2>4, BeginFits
<1> QED
  BY <1>3, <1>5, <1>6 DEF ShipmentRequest

LEMMA CreateShipmentFits ==
    ASSUME TypeInv, NEW h \in Handlers, NEW s \in Shipments, NEW status \in NewStatuses,
           NEW crewed \in BOOLEAN, CreateShipment(h, s, status, crewed)
    PROVE  TypeInv'
<1>1. NewShipment(status, crewed) \in ShipmentOK
  BY DispatchAssumption DEF NewShipment, ShipmentOK, ShipmentRow
<1>2. UNCHANGED <<runs, ships, lost>> /\ Begin(h, Holding(s, NewShipment(status, crewed)))
  BY DEF CreateShipment, Request
<1> QED
  BY <1>1, <1>2, HoldingFits, BeginFits

-----------------------------------------------------------------------------
\* The later steps of a call.

\* The copy of a run that a call holds, and the others it holds.
LEMMA HeldFits ==
    ASSUME TypeInv, Inv, NEW h \in Handlers,
           calls[h].step \in Steps \ {"idle", "close", "delete"},
           calls[h].step = "save" => calls[h].run # Null
    PROVE  calls[h].run \in Runs /\ RowFits(calls[h].row)
<1>1. CallFits(calls[h]) /\ CallOK(calls[h])
  BY DEF TypeInv, Inv, RowsInv
<1>2. calls[h].run \in Runs
  BY <1>1 DEF CallOK, Steps
<1> QED
  BY <1>1, <1>2, NullIsNoId DEF CallFits, HoldsRun

LEMMA CallFields ==
    ASSUME TypeInv, NEW h \in Handlers
    PROVE  calls[h].copies \in Copies /\ calls[h].ids \in SUBSET Shipments
BY DEF TypeInv, CallFits, Call, Copies

LEMMA EndFits ==
    ASSUME TypeInv, NEW h \in Handlers, End(h), UNCHANGED <<runs, ships>>, lost' \in Nat
    PROVE  TypeInv'
BY IdleFits, StepFits DEF End, TypeInv, TypeOK, Copies, Made

LEMMA ProbeFits ==
    ASSUME TypeInv, Inv, NEW h \in Handlers, Probe(h)
    PROVE  TypeInv'
<1>1. calls[h].step = "probe" /\ UNCHANGED <<runs, ships, lost>>
      /\ (End(h) \/ Begin(h, With("advance", calls[h].run, calls[h].row)))
  BY DEF Probe
<1>2. calls[h].run \in Runs /\ RowFits(calls[h].row)
  BY <1>1, HeldFits DEF Steps
<1>3. CallFits(With("advance", calls[h].run, calls[h].row))
  BY <1>2, WithFits DEF Steps
<1>4. lost \in Nat
  BY DEF TypeInv, TypeOK
<1> QED
  BY <1>1, <1>3, <1>4, EndFits, BeginFits

LEMMA AdvanceStopsFits ==
    ASSUME TypeInv, Inv, NEW h \in Handlers, AdvanceStops(h)
    PROVE  TypeInv'
<1> DEFINE r == calls[h].run
           row == [calls[h].row EXCEPT !.status = "in_progress"]
           copies == [s \in Shipments |->
                        IF s \in StopsOf(r) THEN Advance(ships[s]) ELSE Null]
<1>1. calls[h].step = "advance" /\ UNCHANGED <<runs, ships, lost>>
      /\ Begin(h, Pending("save", r, row, copies, {}))
  BY DEF AdvanceStops
<1>2. r \in Runs /\ RowFits(row)
  BY <1>1, HeldFits, StatusFits DEF Steps, RunStatuses
<1>3. \A s \in StopsOf(r) : Advance(ships[s]) \in ShipmentOK
  BY RowsExist, AdvanceFits
<1>4. copies \in Copies
  BY <1>3 DEF Copies
<1> HIDE DEF row, copies
<1> QED
  BY <1>1, <1>2, <1>4, PendingFits, BeginFits DEF Steps

LEMMA AttachStopsFits ==
    ASSUME TypeInv, Inv, NEW h \in Handlers, AttachStops(h)
    PROVE  TypeInv'
<1> DEFINE r == calls[h].run
           row == calls[h].row
           ids == calls[h].ids
           new == ids \ Range(row.seq)
           copies(found) == [s \in Shipments |->
                               IF s \in Range(found)
                               THEN Attach(ships[s], r, PlaceIn(Extend(row, found).seq, s))
                               ELSE Null]
<1>1. calls[h].step = "attach" /\ UNCHANGED <<runs, ships, lost>>
  BY DEF AttachStops
<1>2. r \in Runs /\ RowFits(row) /\ ids \in SUBSET Shipments /\ lost \in Nat
  BY <1>1, HeldFits, CallFields DEF Steps, TypeInv, TypeOK
<1>3. End(h) \/ (ids \subseteq Found
                 /\ \E found \in SetToSeqs(new) :
                      Begin(h, Pending("save", r, Extend(row, found), copies(found), {})))
  BY DEF AttachStops
<1>4. ASSUME ids \subseteq Found, NEW found \in SetToSeqs(new),
             Begin(h, Pending("save", r, Extend(row, found), copies(found), {}))
      PROVE  TypeInv'
  <2>1. new \subseteq Made /\ new \subseteq Shipments
    BY <1>2, <1>4, RowsExist
  <2>2. IsFiniteSet(new)
    BY <2>1, FiniteShipments, FS_Subset
  <2> HIDE DEF new
  <2>3. found \in Seq(new) /\ Range(found) = new
    BY <1>4, <2>2, ListedSet
  <2>4. found \in Seq(Shipments) /\ Range(found) \subseteq Made
    BY <2>1, <2>3
  <2>5. /\ RowFits(Extend(row, found))
        /\ Extend(row, found).seq \in Seq(Shipments)
        /\ Range(found) \subseteq Range(Extend(row, found).seq)
    BY <1>2, <2>4, ExtendFits
  <2>6. \A s \in Range(found) : Attach(ships[s], r, PlaceIn(Extend(row, found).seq, s)) \in ShipmentOK
    <3> SUFFICES ASSUME NEW s \in Range(found)
                 PROVE  Attach(ships[s], r, PlaceIn(Extend(row, found).seq, s)) \in ShipmentOK
      OBVIOUS
    <3>1. PlaceIn(Extend(row, found).seq, s) \in Nat
      BY <2>5, PlaceExists
    <3>2. ships[s] \in ShipmentOK
      BY <2>4, RowsExist
    <3> QED
      BY <1>2, <3>1, <3>2, AttachFits
  <2>7. copies(found) \in Copies
    BY <2>6 DEF Copies
  <2> HIDE DEF copies
  <2> QED
    BY <1>1, <1>2, <1>4, <2>5, <2>7, PendingFits, BeginFits DEF Steps
<1> QED
  BY <1>1, <1>2, <1>3, <1>4, EndFits

LEMMA RecountFits ==
    ASSUME TypeInv, Inv, NEW h \in Handlers, Recount(h)
    PROVE  TypeInv'
<1> DEFINE r == calls[h].run
           copies == calls[h].copies
<1>1. calls[h].step = "recount" /\ UNCHANGED <<runs, ships, lost>>
      /\ \E counted \in SUBSET Shipments :
            Begin(h, Pending("saveStop", r, [calls[h].row EXCEPT !.done = Cardinality(counted)],
                             copies, {}))
  BY DEF Recount
<1>2. PICK counted \in SUBSET Shipments :
            Begin(h, Pending("saveStop", r, [calls[h].row EXCEPT !.done = Cardinality(counted)],
                             copies, {}))
  BY <1>1
<1>3. Cardinality(counted) \in Nat
  <2>1. IsFiniteSet(counted)
    BY FiniteShipments, FS_Subset
  <2> QED
    BY <2>1, FS_CardinalityType
<1>4. r \in Runs /\ RowFits(calls[h].row) /\ copies \in Copies /\ r \in Existing
  BY <1>1, HeldFits, CallFields DEF Steps, TypeInv, CallFits
<1>5. RowFits([calls[h].row EXCEPT !.done = Cardinality(counted)])
  BY <1>3, <1>4, DoneFits
<1>6. CallFits(Pending("saveStop", r, [calls[h].row EXCEPT !.done = Cardinality(counted)], copies, {}))
  BY <1>4, <1>5, PendingFits DEF Steps, Existing
<1> QED
  BY <1>1, <1>2, <1>6, BeginFits

LEMMA CloseFits ==
    ASSUME TypeInv, NEW h \in Handlers, Close(h)
    PROVE  TypeInv'
<1> DEFINE r == calls[h].run
           row == [runs[r] EXCEPT !.status = "completed"]
<1>1. calls[h].step = "close" /\ UNCHANGED <<runs, ships, lost>> /\ Begin(h, With("save", r, row))
  BY DEF Close
<1>2. r \in Existing
  BY <1>1 DEF TypeInv, CallFits
<1>3. r \in Runs /\ RowFits(row)
  BY <1>2, RowsExist, StatusFits DEF RunStatuses
<1> HIDE DEF row
<1> QED
  BY <1>1, <1>3, WithFits, BeginFits DEF Steps

\* persistSequence of a row that fits.
LEMMA RenumberedFits ==
    ASSUME TypeInv, NEW row, RowFits(row), NEW s \in Made
    PROVE  Renumbered(row, s) \in ShipmentOK
<1>1. ships[s] \in ShipmentOK /\ row.seq \in Seq(Shipments)
  BY RowsExist DEF RowFits, RowTyped, RunRow
<1>2. s \in Range(row.seq) => PlaceIn(row.seq, s) \in Nat
  BY <1>1, PlaceExists
<1> QED
  BY <1>1, <1>2, PlaceFits DEF Renumbered

\* Shipments that were never created have no row to change.
LEMMA RenumberedAbsent ==
    ASSUME NEW row, RowFits(row), NEW s \in Shipments \ Made
    PROVE  Renumbered(row, s) = Null
BY DEF RowFits, RowTyped, Renumbered, Made

LEMMA NoNullRow == \A s \in ShipmentOK : s # Null
BY NullIsNoShipmentRow DEF ShipmentOK

LEMMA ResequenceFits ==
    ASSUME TypeInv, Inv, NEW h \in Handlers, Resequence(h)
    PROVE  TypeInv'
<1> DEFINE r == calls[h].run
           row == calls[h].row
<1>1. /\ calls[h].step = "resequence" /\ lost' = lost /\ End(h)
      /\ runs' = [runs EXCEPT ![r] = row]
      /\ ships' = [s \in Shipments |-> Renumbered(row, s)]
  BY DEF Resequence
<1>2. r \in Runs /\ RowFits(row) /\ lost \in Nat
  BY <1>1, HeldFits DEF Steps, TypeInv, TypeOK
<1>3. \A s \in Shipments : Renumbered(row, s) \in ShipmentOK \cup {Null}
  BY <1>2, RenumberedFits, RenumberedAbsent
<1>4. \A s \in Made : Renumbered(row, s) # Null
  BY <1>2, RenumberedFits, NoNullRow
<1>5. ships' \in Copies /\ (\A s \in Made : ships'[s] # Null)
  BY <1>1, <1>3, <1>4 DEF Copies, Made
<1> QED
  BY <1>1, <1>2, <1>5, IdleFits, StepFits DEF End

LEMMA DetachStopsFits ==
    ASSUME TypeInv, Inv, NEW h \in Handlers, DetachStops(h)
    PROVE  TypeInv'
<1> DEFINE r == calls[h].run
           removed == calls[h].ids \cap StopsOf(r)
           row == Without(calls[h].row, removed)
<1>1. calls[h].step = "detach" /\ lost' = lost /\ End(h)
  BY DEF DetachStops
<1>2. r \in Runs /\ RowFits(row) /\ lost \in Nat
  BY <1>1, HeldFits, WithoutFits DEF Steps, TypeInv, TypeOK
<1>3. \/ UNCHANGED <<runs, ships>>
      \/ /\ runs' = [runs EXCEPT ![r] = row]
         /\ ships' = [s \in Shipments |->
                        IF s \in removed THEN Detach(ships[s]) ELSE Renumbered(row, s)]
  BY DEF DetachStops
<1>4. removed \subseteq Made
  BY RowsExist
<1>5. CASE UNCHANGED <<runs, ships>>
  BY <1>1, <1>2, <1>5, EndFits
<1> HIDE DEF row, removed
<1>6. ASSUME runs' = [runs EXCEPT ![r] = row],
             ships' = [s \in Shipments |->
                         IF s \in removed THEN Detach(ships[s]) ELSE Renumbered(row, s)]
      PROVE  TypeInv'
  <2>1. \A s \in removed : Detach(ships[s]) \in ShipmentOK
    BY <1>4, RowsExist, DetachFits
  <2>2. \A s \in Shipments : Renumbered(row, s) \in ShipmentOK \cup {Null}
    BY <1>2, RenumberedFits, RenumberedAbsent
  <2>3. \A s \in Made : Renumbered(row, s) # Null
    BY <1>2, RenumberedFits, NoNullRow
  <2>4. ships' \in Copies /\ (\A s \in Made : ships'[s] # Null)
    BY <1>6, <2>1, <2>2, <2>3, NoNullRow DEF Copies, Made
  <2> QED
    BY <1>1, <1>2, <1>6, <2>4, IdleFits, StepFits DEF End
<1> QED
  BY <1>3, <1>5, <1>6

LEMMA ReleaseFits ==
    ASSUME TypeInv, Inv, NEW h \in Handlers, Release(h)
    PROVE  TypeInv'
<1> DEFINE r == calls[h].run
           row == calls[h].row
<1>1. /\ calls[h].step = "release" /\ lost' = lost /\ End(h)
      /\ runs' = [runs EXCEPT ![r] = row]
      /\ ships' = [s \in Shipments |->
                     IF ships[s] # Null /\ ships[s].run = r /\ ships[s].status \notin Counted
                     THEN Detach(ships[s]) ELSE ships[s]]
  BY DEF Release
<1>2. r \in Runs /\ RowFits(row) /\ lost \in Nat
  BY <1>1, HeldFits DEF Steps, TypeInv, TypeOK
<1>3. \A s \in Made : ships[s] \in ShipmentOK /\ Detach(ships[s]) \in ShipmentOK
  BY RowsExist, DetachFits
<1>4. ships' \in Copies /\ (\A s \in Made : ships'[s] # Null)
  BY <1>1, <1>3, NoNullRow DEF Copies, Made
<1> QED
  BY <1>1, <1>2, <1>4, IdleFits, StepFits DEF End

\* save() of the copies that a call holds.
LEMMA WriteFits ==
    ASSUME TypeInv, Inv, NEW h \in Handlers, calls[h].step \in {"save", "saveStop"},
           Write(calls[h]), lost' = lost,
           End(h) \/ (calls[h].step = "saveStop" /\ Begin(h, With("close", calls[h].run, Null)))
    PROVE  TypeInv'
<1> DEFINE r == calls[h].run
           row == calls[h].row
           copies == calls[h].copies
<1>1. copies \in Copies /\ lost \in Nat /\ ships \in Copies
  BY CallFields DEF TypeInv, TypeOK, Copies
<1>2. ships' = [s \in Shipments |-> IF copies[s] # Null THEN copies[s] ELSE ships[s]]
  BY DEF Write
<1>3. ships' \in Copies /\ (\A s \in Made : ships'[s] # Null)
  BY <1>1, <1>2 DEF Copies, Made
<1>4. \/ UNCHANGED runs
      \/ r # Null /\ runs' = [runs EXCEPT ![r] = row]
  BY DEF Write
<1>5. r # Null => (r \in Runs /\ RowFits(row))
  BY HeldFits DEF Steps
<1>6. calls[h].step = "saveStop" => r \in Existing
  BY DEF TypeInv, CallFits
<1>7. calls[h].step = "saveStop" => CallFits(With("close", r, Null))
  BY <1>6, WithFits DEF Steps, Existing
<1> QED
  BY <1>1, <1>3, <1>4, <1>5, <1>7, IdleFits, StepFits DEF End

LEMMA DeleteFits ==
    ASSUME TypeInv, NEW h \in Handlers, Delete(h)
    PROVE  TypeInv'
<1>1. /\ calls[h].step = "delete" /\ End(h) /\ UNCHANGED <<runs, lost>>
      /\ ships' = [s \in Shipments |->
                     IF s \in calls[h].ids THEN [ships[s] EXCEPT !.gone = TRUE] ELSE ships[s]]
  BY DEF Delete
<1>2. calls[h].ids \subseteq Made /\ "delete" \in Requests
  BY <1>1 DEF TypeInv, CallFits
<1>3. \A s \in Made : ships[s] \in ShipmentOK /\ [ships[s] EXCEPT !.gone = TRUE] \in ShipmentOK
  BY <1>2, RowsExist, GoneFits
<1>4. ships' \in Copies /\ (\A s \in Made : ships'[s] # Null) /\ lost' \in Nat
  BY <1>1, <1>2, <1>3, NoNullRow DEF Copies, Made, TypeInv, TypeOK
<1> QED
  BY <1>1, <1>4, IdleFits, StepFits DEF End

LEMMA ContinueFits ==
    ASSUME TypeInv, Inv, NEW h \in Handlers, Continue(h)
    PROVE  TypeInv'
<1>1. CASE Save(h) \/ SaveStop(h)
  BY <1>1, WriteFits DEF Save, SaveStop
<1> QED
  BY <1>1, ProbeFits, AdvanceStopsFits, AttachStopsFits, DetachStopsFits, ResequenceFits,
     ReleaseFits, RecountFits, CloseFits, DeleteFits DEF Continue

-----------------------------------------------------------------------------

LEMMA InitFits == Init => TypeInv
<1> SUFFICES ASSUME Init PROVE TypeInv
  OBVIOUS
<1>1. calls = [h \in Handlers |-> Idle] /\ Idle \in Call
  BY IdleFits DEF Init, CallFits
<1>2. TypeOK /\ ships \in Copies
  BY <1>1 DEF Init, TypeOK, Copies
<1>3. Existing = {}
  BY DEF Init, Existing
<1> QED
  BY <1>1, <1>2, <1>3, IdleFits DEF TypeInv

LEMMA NextFits == TypeInv /\ Inv /\ [Next]_vars => TypeInv'
<1> SUFFICES ASSUME TypeInv, Inv, [Next]_vars PROVE TypeInv'
  OBVIOUS
<1>1. CASE UNCHANGED vars
  BY <1>1 DEF vars, TypeInv, TypeOK, Existing, CallFits, RowFits, RowTyped, Made
<1>2. ASSUME NEW h \in Handlers, Lose(h) PROVE TypeInv'
  <2>1. lost' \in Nat
    BY <1>2 DEF Lose, TypeInv, TypeOK
  <2> QED
    BY <1>2, <2>1, EndFits DEF Lose
<1> QED
  BY <1>1, <1>2, ContinueFits, CreateFits, RunRequestFits, ShipmentRequestFits,
     CreateShipmentFits DEF Next

LEMMA TypeInvHolds == Spec => []TypeInv
BY InitFits, NextFits, InvHolds, PTL DEF Spec

\* Whatever calls overlap, the tables hold rows and the calls copies of rows:
\* no call saves the place of a shipment that has no row, and none completes
\* a run that was never stored.
THEOREM TypesHold == Spec => []TypeOK
<1>1. TypeInv => TypeOK
  BY DEF TypeInv
<1> QED
  BY <1>1, TypeInvHolds, PTL

-----------------------------------------------------------------------------
(***************************************************************************)
(* What holds when the calls of a carrier come one after the other,        *)
(* however many they are: what a call loaded is still what the tables hold *)
(* when it saves.  Two calls at a time break each theorem.                 *)
(***************************************************************************)

ClosedRun == {"completed", "cancelled"}

\* The shipments of table S that point to run r, deleted ones included.
Pointing(S, r) == {s \in Shipments : S[s] # Null /\ S[s].run = r}

\* Open runs of table R list the shipments of table S that point to them, and
\* no shipment points to a run that was never stored.
Aligned(R, S) ==
    /\ \A r \in Runs : R[r] # Null /\ R[r].status \notin ClosedRun =>
                         Range(R[r].seq) = Pointing(S, r)
    /\ \A s \in Shipments : S[s] # Null /\ S[s].run # Null => R[S[s].run] # Null

\* The tables once the copies of a call are saved.
RunsAfter(call) ==
    IF call.run = Null THEN runs ELSE [runs EXCEPT ![call.run] = call.row]

ShipsAfter(call) ==
    [s \in Shipments |-> IF call.copies[s] # Null THEN call.copies[s] ELSE ships[s]]

Follows(old, new) ==
    new.status = old.status \/ <<old.status, new.status>> \in Diagram

\* Every stop of run r is delivered or has an incident.
Counts(S, r) ==
    \A s \in Pointing(S, r) : S[s].gone \/ S[s].status \in Counted

\* The copies of shipments that a call will save say of each what its row says,
\* but for the status and the place.
Kin(call) ==
    \A s \in Shipments : call.copies[s] # Null =>
        IF ships[s] = Null THEN call.copies[s].run = Null
        ELSE call.copies[s].run = ships[s].run

\* What was answered or cancelled is so in the copy that will be saved.
Answered(call) ==
    \A s \in Shipments :
        /\ call.copies[s] # Null /\ ships[s] # Null /\ ships[s].status # "pending_acceptance"
             => call.copies[s].status # "pending_acceptance"
        /\ call.copies[s] # Null /\ ships[s] # Null /\ ships[s].status = "cancelled"
             /\ Requests \cap {"done", "incident", "transit", "arrive"} = {}
             => call.copies[s].status = "cancelled"

\* A call holds what the tables hold, changed as its request says.
Fresh(call) ==
    LET r == call.run
        row == call.row
    IN
    /\ call.step \in {"probe", "advance", "detach", "recount"} =>
         r \in Existing /\ row = runs[r]
    /\ call.step \in {"probe", "advance"} => row.status \in {"planned", "ready"} /\ Fit(row)
    /\ call.step = "attach" =>
         IF runs[r] = Null THEN row.seq = << >> ELSE row = runs[r]
    /\ call.step \in {"resequence", "release"} => r \in Existing /\ Follows(runs[r], row)
    /\ call.step = "resequence" =>
         row.status = runs[r].status /\ Range(row.seq) = Range(runs[r].seq)
    /\ call.step = "release" => row.status = "cancelled"
    /\ call.step \in {"recount", "saveStop"} => row.status = "in_progress"
    /\ call.step = "saveStop" /\ row.done >= row.total => Counts(ShipsAfter(call), r)
    /\ call.step = "close" => runs[r].status = "in_progress"
    /\ call.step = "close" /\ "complete" \notin Requests => Counts(ships, r)
    /\ call.step = "recount" => Kin(call)
    /\ Answered(call)
    /\ call.step \in {"save", "saveStop"} =>
         /\ Aligned(RunsAfter(call), ShipsAfter(call))
         /\ r \in Existing => Follows(runs[r], row)
         /\ r \in Existing /\ row.status = "completed" /\ runs[r].status # "completed"
            /\ "complete" \notin Requests => Counts(ships, r)

SerialInv == Aligned(runs, ships) /\ \A h \in Handlers : Fresh(calls[h])

-----------------------------------------------------------------------------
\* Pointers of shipments.

\* Each row of the table points where the row of ships does; new rows point
\* nowhere.
SameRuns(S) ==
    \A s \in Shipments : IF ships[s] = Null THEN S[s] = Null \/ S[s].run = Null
                         ELSE S[s] # Null /\ S[s].run = ships[s].run

LEMMA SamePointing ==
    ASSUME NEW S, SameRuns(S)
    PROVE  \A x \in Runs : Pointing(S, x) = Pointing(ships, x)
BY NullIsNoId DEF SameRuns, Pointing

\* A run is stored, with the shipments that point to it.
LEMMA AlignedAfter ==
    ASSUME TypeInv, Aligned(runs, ships), NEW r \in Runs, NEW row, row # Null,
           NEW S \in Copies,
           row.status \notin ClosedRun => Range(row.seq) = Pointing(S, r),
           \A x \in Runs \ {r} : Pointing(S, x) = Pointing(ships, x)
    PROVE  Aligned([runs EXCEPT ![r] = row], S)
<1> DEFINE R == [runs EXCEPT ![r] = row]
<1>1. R[r] = row /\ (\A x \in Runs \ {r} : R[x] = runs[x])
  BY DEF TypeInv, TypeOK
<1> HIDE DEF R
<1>2. ASSUME NEW x \in Runs, R[x] # Null, R[x].status \notin ClosedRun
      PROVE  Range(R[x].seq) = Pointing(S, x)
  BY <1>1, <1>2 DEF Aligned
<1>3. ASSUME NEW s \in Shipments, S[s] # Null, S[s].run # Null
      PROVE  R[S[s].run] # Null
  <2>1. S[s].run \in Runs
    BY <1>3 DEF Copies, ShipmentOK, ShipmentRow
  <2>2. CASE S[s].run = r
    BY <1>1, <2>2
  <2>3. CASE S[s].run # r
    <3>1. s \in Pointing(S, S[s].run)
      BY <1>3 DEF Pointing
    <3>2. s \in Pointing(ships, S[s].run)
      BY <2>1, <2>3, <3>1
    <3>3. ships[s] # Null /\ ships[s].run = S[s].run
      BY <3>2 DEF Pointing
    <3>4. runs[S[s].run] # Null
      BY <1>3, <3>3 DEF Aligned
    <3> QED
      BY <1>1, <2>1, <2>3, <3>4
  <2> QED
    BY <2>2, <2>3
<1>4. Aligned(R, S)
  BY <1>2, <1>3 DEF Aligned
<1> QED
  BY <1>4 DEF R

\* Nothing points elsewhere than before.
LEMMA AlignedShips ==
    ASSUME TypeInv, Aligned(runs, ships), NEW S \in Copies, SameRuns(S)
    PROVE  Aligned(runs, S)
<1>1. \A x \in Runs : Pointing(S, x) = Pointing(ships, x)
  BY SamePointing
<1>2. ASSUME NEW s \in Shipments, S[s] # Null, S[s].run # Null
      PROVE  runs[S[s].run] # Null
  BY <1>2 DEF SameRuns, Aligned
<1> QED
  BY <1>1, <1>2 DEF Aligned

\* The run keeps its shipments and does not open again.
LEMMA AlignedRow ==
    ASSUME TypeInv, Aligned(runs, ships), NEW r \in Existing, NEW row, row # Null,
           NEW S \in Copies, SameRuns(S),
           row.status \notin ClosedRun =>
             runs[r].status \notin ClosedRun /\ Range(row.seq) = Range(runs[r].seq)
    PROVE  Aligned([runs EXCEPT ![r] = row], S)
<1>1. r \in Runs /\ runs[r] # Null
  BY DEF Existing
<1>2. \A x \in Runs : Pointing(S, x) = Pointing(ships, x)
  BY SamePointing
<1>3. row.status \notin ClosedRun => Range(row.seq) = Pointing(S, r)
  BY <1>1, <1>2 DEF Aligned
<1> QED
  BY <1>1, <1>2, <1>3, AlignedAfter

\* What is saved of the copies points where the rows of ships do.
LEMMA KinAfter ==
    ASSUME TypeInv, NEW call, call.copies \in Copies, Kin(call)
    PROVE  ShipsAfter(call) \in Copies /\ SameRuns(ShipsAfter(call))
<1>1. ShipsAfter(call) \in Copies
  BY DEF ShipsAfter, Copies, TypeInv
<1>2. SameRuns(ShipsAfter(call))
  BY DEF ShipsAfter, Kin, SameRuns
<1> QED
  BY <1>1, <1>2

LEMMA SameShips ==
    ASSUME TypeInv
    PROVE  ships \in Copies /\ SameRuns(ships)
BY DEF TypeInv, SameRuns

\* A call without copies of shipments.
LEMMA NoCopiesAfter ==
    ASSUME TypeInv, NEW call, call.copies = NoCopies
    PROVE  ShipsAfter(call) = ships /\ Answered(call)
<1>1. ships = [s \in Shipments |-> ships[s]]
  BY DEF TypeInv, Copies
<1>2. \A s \in Shipments : call.copies[s] = Null
  BY DEF NoCopies
<1> QED
  BY <1>1, <1>2 DEF ShipsAfter, Answered

\* A row that fits is one.
LEMMA FitsNotNull ==
    ASSUME NEW row, RowFits(row)
    PROVE  row # Null
BY NullIsNoRunRow DEF RowFits, RowTyped

-----------------------------------------------------------------------------
\* Steps of the only call.

LEMMA SerialBegin ==
    ASSUME Serial, TypeInv, SerialInv, NEW h \in Handlers, NEW call, Begin(h, call),
           UNCHANGED <<runs, ships>>, Fresh(call)
    PROVE  SerialInv'
<1>1. calls' = [calls EXCEPT ![h] = call] /\ calls \in [Handlers -> Call]
  BY DEF Begin, TypeInv, TypeOK
<1>2. \A g \in Handlers : calls'[g] = call
  BY <1>1 DEF Serial
<1>3. ASSUME NEW g \in Handlers PROVE Fresh(calls[g])'
  <2>1. Fresh(calls'[g])
    BY <1>2
  <2> QED
    BY <2>1 DEF Fresh, Existing, RunsAfter, ShipsAfter, Kin, Answered
<1> QED
  BY <1>3 DEF SerialInv

LEMMA SerialStore ==
    ASSUME Serial, TypeInv, NEW h \in Handlers, NEW r, Aligned(runs, ships)',
           \/ End(h)
           \/ /\ Begin(h, With("close", r, Null))
              /\ runs'[r].status = "in_progress" /\ Counts(ships', r)
    PROVE  SerialInv'
<1>1. calls \in [Handlers -> Call]
  BY DEF TypeInv, TypeOK
<1>2. \/ \A g \in Handlers : calls'[g] = Idle
      \/ /\ \A g \in Handlers : calls'[g] = With("close", r, Null)
         /\ runs'[r].status = "in_progress" /\ Counts(ships', r)
  BY <1>1 DEF Serial, End, Begin
<1>3. ASSUME NEW g \in Handlers PROVE Fresh(calls[g])'
  <2>1. calls'[g].copies = NoCopies /\ calls'[g].step \in {"idle", "close"}
        /\ (calls'[g].step = "close" => (calls'[g].run = r /\ runs'[r].status = "in_progress"
                                         /\ Counts(ships', r)))
    BY <1>2 DEF Idle, With, Pending
  <2>2. \A s \in Shipments : calls'[g].copies[s] = Null
    BY <2>1 DEF NoCopies
  <2> QED
    BY <2>1, <2>2 DEF Fresh, Answered
<1> QED
  BY <1>3 DEF SerialInv

-----------------------------------------------------------------------------
\* Requests on runs.

\* The fields of a call that holds no copy of a shipment.
LEMMA WithFields ==
    ASSUME NEW step, NEW r, NEW row, NEW ids
    PROVE  LET call == Naming(step, r, row, ids) IN
           /\ call.step = step /\ call.run = r /\ call.row = row
           /\ call.ids = ids /\ call.copies = NoCopies
BY DEF Naming, Pending

LEMMA WithIsNaming == \A step, r, row : With(step, r, row) = Naming(step, r, row, {})
BY DEF With, Naming

\* A copy that will be saved alone: its run keeps its shipments and goes along
\* the diagram, but not to its end.
LEMMA FreshSave ==
    ASSUME TypeInv, SerialInv, NEW r \in Existing, NEW row, RowFits(row),
           Range(row.seq) = Range(runs[r].seq), Follows(runs[r], row),
           row.status = runs[r].status \/ row.status = "ready"
    PROVE  Fresh(With("save", r, row))
<1> DEFINE call == With("save", r, row)
<1>1. call.step = "save" /\ call.run = r /\ call.row = row /\ call.copies = NoCopies
  BY WithFields, WithIsNaming
<1>2. RunsAfter(call) = [runs EXCEPT ![r] = row]
  BY <1>1, NullIsNoId DEF RunsAfter, Existing
<1> HIDE DEF call
<1>3. ShipsAfter(call) = ships /\ Answered(call)
  BY <1>1, NoCopiesAfter
<1>4. row.status \notin ClosedRun => runs[r].status \notin ClosedRun
  BY DEF Follows, Diagram, ClosedRun
<1>5. row # Null
  BY FitsNotNull
<1>6. Aligned(RunsAfter(call), ShipsAfter(call))
  BY <1>2, <1>3, <1>4, <1>5, AlignedRow, SameShips DEF SerialInv
<1>7. Fresh(call)
  BY <1>1, <1>3, <1>6 DEF Fresh
<1> QED
  BY <1>7 DEF call

LEMMA PromoteFollows ==
    ASSUME NEW old, NEW row, row.status = old.status, IsRun(row)
    PROVE  Follows(old, Promote(row))
           /\ (Promote(row).status = old.status \/ Promote(row).status = "ready")
<1>1. [row EXCEPT !.status = "ready"].status = "ready"
  BY SetStatus
<1> QED
  BY <1>1 DEF Promote, Follows, Diagram

\* A row of the table is a record with its columns.
LEMMA FitsIsRun ==
    ASSUME NEW row, RowFits(row)
    PROVE  IsRun(row) /\ row.status \in RunStatuses /\ row.seq \in Seq(Shipments)
           /\ row.total \in Nat /\ row.done \in Nat
BY DEF RowFits, RowTyped, RunRow, IsRun, RunColumns

LEMMA CreateFresh ==
    ASSUME Serial, TypeInv, SerialInv, NEW h \in Handlers, NEW r \in Runs,
           NEW driver \in Drivers \cup {Null}, NEW truck \in Trucks \cup {Null},
           NEW ids \in SUBSET Shipments, CreateRun(h, r, driver, truck, ids)
    PROVE  SerialInv'
<1> DEFINE row == NewRun(driver, truck)
           step == IF ids = {} THEN "save" ELSE "attach"
           call == Naming(step, r, row, ids)
<1>1. UNCHANGED <<runs, ships>> /\ Begin(h, call) /\ runs[r] = Null
  BY DEF CreateRun, Request
<1>2. row \in RunRow /\ row.seq = << >> /\ row.status = "planned" /\ Range(row.seq) = {}
  BY DEF NewRun, RunRow, RunStatuses, Range
<1>3. call.step = step /\ call.run = r /\ call.row = row /\ call.copies = NoCopies
  BY WithFields
<1>4. step \in {"save", "attach"} /\ row # Null
  BY <1>2, NullIsNoRunRow
<1> HIDE DEF call, row, step
<1>5. ShipsAfter(call) = ships /\ Answered(call)
  BY <1>3, NoCopiesAfter
<1>6. RunsAfter(call) = [runs EXCEPT ![r] = row]
  BY <1>3, NullIsNoId DEF RunsAfter
<1>7. Pointing(ships, r) = {}
  BY <1>1, NullIsNoId DEF SerialInv, Aligned, Pointing
<1>8. Aligned(RunsAfter(call), ShipsAfter(call))
  BY <1>2, <1>4, <1>5, <1>6, <1>7, AlignedAfter, SameShips DEF SerialInv
<1>9. r \notin Existing
  BY <1>1 DEF Existing
<1>10. Fresh(call)
  BY <1>1, <1>2, <1>3, <1>4, <1>5, <1>8, <1>9 DEF Fresh
<1> QED
  BY <1>1, <1>10, SerialBegin

\* A call that will save the copy of a shipment and nothing else.
LEMMA HoldingFresh ==
    ASSUME TypeInv, SerialInv, NEW s \in Shipments, NEW copy \in ShipmentOK,
           IF ships[s] = Null THEN copy.run = Null ELSE copy.run = ships[s].run,
           ships[s] # Null /\ ships[s].status # "pending_acceptance" =>
             copy.status # "pending_acceptance",
           ships[s] # Null /\ ships[s].status = "cancelled"
             /\ Requests \cap {"done", "incident", "transit", "arrive"} = {} =>
             copy.status = "cancelled"
    PROVE  Fresh(Holding(s, copy))
<1> DEFINE call == Holding(s, copy)
<1>1. call.step = "save" /\ call.run = Null /\ call.copies = Only(s, copy)
  BY DEF Holding, Pending
<1>2. call.copies \in Copies
  BY <1>1, OnlyFits
<1> HIDE DEF call
<1>3. \A x \in Shipments : call.copies[x] = IF x = s THEN copy ELSE Null
  BY <1>1 DEF Only
<1>4. Kin(call) /\ Answered(call)
  BY <1>3 DEF Kin, Answered
<1>5. RunsAfter(call) = runs /\ call.run \notin Existing
  BY <1>1, NullIsNoId DEF RunsAfter, Existing
<1>6. Aligned(RunsAfter(call), ShipsAfter(call))
  BY <1>2, <1>4, <1>5, KinAfter, AlignedShips DEF SerialInv
<1>7. Fresh(call)
  BY <1>1, <1>4, <1>5, <1>6 DEF Fresh
<1> QED
  BY <1>7 DEF call

LEMMA StatusFresh ==
    ASSUME TypeInv, SerialInv, NEW s \in Made, NEW status \in ShipmentStatuses,
           status # "pending_acceptance",
           \/ status = "cancelled" \/ ships[s].status # "cancelled"
           \/ Requests \cap {"done", "incident", "transit", "arrive"} # {}
    PROVE  Fresh(Holding(s, [ships[s] EXCEPT !.status = status]))
<1> DEFINE copy == [ships[s] EXCEPT !.status = status]
<1>1. s \in Shipments /\ ships[s] \in ShipmentOK /\ ships[s] # Null
  BY RowsExist DEF Made
<1>2. copy \in ShipmentOK
  BY <1>1, ShipmentStatusFits
<1>3. copy.run = ships[s].run /\ copy.status = status
  BY <1>1 DEF ShipmentOK, ShipmentRow
<1> HIDE DEF copy
<1>4. Fresh(Holding(s, copy))
  BY <1>1, <1>2, <1>3, HoldingFresh
<1> QED
  BY <1>4 DEF copy

\* A stop is closed.
LEMMA ClosingFresh ==
    ASSUME TypeInv, SerialInv, NEW r \in Existing, NEW s \in StopsOf(r),
           NEW status \in {"delivered", "pod_uploaded", "incident"},
           runs[r].status = "in_progress",
           Requests \cap {"done", "incident", "transit", "arrive"} # {}
    PROVE  Fresh(Closing(r, s, status))
<1> DEFINE copy == [ships[s] EXCEPT !.status = status]
           call == Closing(r, s, status)
<1>1. s \in Shipments /\ ships[s] \in ShipmentOK /\ ships[s] # Null
  BY RowsExist DEF Made
<1>2. copy.run = ships[s].run /\ copy.status = status
  BY <1>1 DEF ShipmentOK, ShipmentRow
<1>3. /\ call.step = "recount" /\ call.run = r /\ call.row = runs[r]
      /\ call.copies = Only(s, copy)
  BY DEF Closing, Pending
<1> HIDE DEF call, copy
<1>4. \A x \in Shipments : call.copies[x] = IF x = s THEN copy ELSE Null
  BY <1>3 DEF Only
<1>5. Kin(call) /\ Answered(call)
  BY <1>1, <1>2, <1>4 DEF Kin, Answered
<1>6. Fresh(call)
  BY <1>3, <1>5 DEF Fresh
<1> QED
  BY <1>6 DEF call

LEMMA RunRequestFresh ==
    ASSUME Serial, TypeInv, SerialInv, NEW h \in Handlers, NEW r \in Existing,
           RunRequest(h, r)
    PROVE  SerialInv'
<1>1. r \in Runs /\ RowFits(runs[r]) /\ runs[r] # Null /\ IsRun(runs[r])
      /\ runs[r].status \in RunStatuses
  BY RowsExist, FitsIsRun DEF Existing
<1>2. CASE UpdateRun(h, r)
  <2>1. UNCHANGED <<runs, ships>> /\ Begin(h, With("save", r, runs[r]))
    BY <1>2 DEF UpdateRun, Request
  <2>2. Follows(runs[r], runs[r])
    BY DEF Follows
  <2> QED
    BY <1>1, <2>1, <2>2, FreshSave, SerialBegin
<1>3. ASSUME NEW driver \in Drivers \cup {Null}, NEW truck \in Trucks \cup {Null},
             AssignDriver(h, r, driver, truck)
      PROVE  SerialInv'
  <2> DEFINE old == runs[r]
             crewed == [old EXCEPT !.driver = driver, !.truck = truck]
             row == Promote(crewed)
  <2>1. UNCHANGED <<runs, ships>> /\ Begin(h, With("save", r, row))
    BY <1>3 DEF AssignDriver, Request
  <2>2. RowFits(row)
    BY <1>1, CrewFits
  <2>3. IsRun(crewed) /\ crewed.status = old.status
    BY <1>1, SetCrew
  <2>4. Range(row.seq) = Range(old.seq)
    BY <1>1 DEF Promote, IsRun, RunColumns
  <2> HIDE DEF crewed
  <2>5. Follows(old, row) /\ (row.status = old.status \/ row.status = "ready")
    BY <2>3, PromoteFollows
  <2> HIDE DEF row
  <2> QED
    BY <2>1, <2>2, <2>4, <2>5, FreshSave, SerialBegin
<1>4. ASSUME NEW step, NEW row, NEW ids, UNCHANGED <<runs, ships>>,
             Begin(h, Naming(step, r, row, ids)),
             \/ step = "probe" /\ row = runs[r] /\ row.status \in {"planned", "ready"} /\ Fit(row)
             \/ step \in {"attach", "detach"} /\ row = runs[r]
             \/ /\ step = "resequence" /\ row.status = runs[r].status
                /\ Range(row.seq) = Range(runs[r].seq)
             \/ step = "release" /\ row.status = "cancelled" /\ Follows(runs[r], row)
             \/ step = "close" /\ runs[r].status = "in_progress" /\ "complete" \in Requests
      PROVE  SerialInv'
  <2> DEFINE call == Naming(step, r, row, ids)
  <2>1. call.step = step /\ call.run = r /\ call.row = row /\ call.copies = NoCopies
    BY WithFields
  <2> HIDE DEF call
  <2>2. Answered(call)
    BY <2>1, NoCopiesAfter
  <2>3. Fresh(call)
    BY <1>1, <1>4, <2>1, <2>2 DEF Fresh, Follows
  <2> QED
    BY <1>4, <2>3, SerialBegin DEF call
<1>5. CASE StartRun(h, r)
  <2>1. UNCHANGED <<runs, ships>> /\ Begin(h, Naming("probe", r, runs[r], {}))
        /\ runs[r].status \in {"planned", "ready"} /\ Fit(runs[r])
    BY <1>5, WithIsNaming DEF StartRun, Request, Startable, Fit
  <2> QED
    BY <1>4, <2>1
<1>6. CASE CompleteRun(h, r)
  <2>1. UNCHANGED <<runs, ships>> /\ Begin(h, Naming("close", r, Null, {}))
        /\ runs[r].status = "in_progress" /\ "complete" \in Requests
    BY <1>6, WithIsNaming DEF CompleteRun, Request
  <2> QED
    BY <1>4, <2>1
<1>7. CASE CancelRun(h, r)
  <2> DEFINE row == [runs[r] EXCEPT !.status = "cancelled"]
  <2>1. UNCHANGED <<runs, ships>> /\ Begin(h, Naming("release", r, row, {}))
        /\ runs[r].status # "completed"
    BY <1>7, WithIsNaming DEF CancelRun, Request, Cancellable
  <2>2. row.status = "cancelled"
    BY <1>1, SetStatus
  <2> HIDE DEF row
  <2>3. Follows(runs[r], row)
    BY <1>1, <2>1, <2>2 DEF Follows, Diagram, RunStatuses
  <2> QED
    BY <1>4, <2>1, <2>2, <2>3
<1>8. ASSUME NEW ids \in SUBSET Shipments, AddShipments(h, r, ids) \/ RemoveShipments(h, r, ids)
      PROVE  SerialInv'
  <2>1. UNCHANGED <<runs, ships>>
        /\ \E step \in {"attach", "detach"} : Begin(h, Naming(step, r, runs[r], ids))
    BY <1>8 DEF AddShipments, RemoveShipments, Request
  <2> QED
    BY <1>4, <2>1
<1>9. ASSUME NEW order, Reorder(h, r, order) PROVE SerialInv'
  <2> DEFINE row == [runs[r] EXCEPT !.seq = order]
  <2>1. UNCHANGED <<runs, ships>> /\ Begin(h, Naming("resequence", r, row, {}))
        /\ Range(order) = Range(runs[r].seq)
    BY <1>9, WithIsNaming DEF Reorder, Request, Reorderable
  <2>2. row.status = runs[r].status /\ row.seq = order
    BY <1>1 DEF IsRun, RunColumns
  <2> HIDE DEF row
  <2> QED
    BY <1>4, <2>1, <2>2
<1>10. ASSUME NEW s \in StopsOf(r), NEW status \in {"delivered", "pod_uploaded", "incident"},
              runs[r].status = "in_progress", UNCHANGED <<runs, ships>>,
              Begin(h, Closing(r, s, status)),
              Requests \cap {"done", "incident", "transit", "arrive"} # {}
       PROVE  SerialInv'
  BY <1>1, <1>10, ClosingFresh, SerialBegin
<1>11. ASSUME NEW s \in StopsOf(r), NEW status \in {"delivered", "pod_uploaded"},
              StopDone(h, r, s, status)
       PROVE  SerialInv'
  BY <1>10, <1>11 DEF StopDone, Stop, Request
<1>12. ASSUME NEW s \in StopsOf(r), StopIncident(h, r, s) PROVE SerialInv'
  BY <1>10, <1>12 DEF StopIncident, Stop, Request
<1>13. ASSUME NEW s \in StopsOf(r), StopStartTransit(h, r, s) \/ StopArrive(h, r, s)
       PROVE  SerialInv'
  <2>1. PICK status \in {"in_transit", "at_stop"} :
           /\ UNCHANGED <<runs, ships>>
           /\ Begin(h, Holding(s, [ships[s] EXCEPT !.status = status]))
           /\ Requests \cap {"done", "incident", "transit", "arrive"} # {}
    BY <1>13 DEF StopStartTransit, StopArrive, Stop, Request
  <2>2. s \in Made
    BY RowsExist
  <2>3. Fresh(Holding(s, [ships[s] EXCEPT !.status = status]))
    BY <2>1, <2>2, StatusFresh DEF ShipmentStatuses
  <2> QED
    BY <2>1, <2>3, SerialBegin
<1> QED
  BY <1>2, <1>3, <1>5, <1>6, <1>7, <1>8, <1>9, <1>11, <1>12, <1>13 DEF RunRequest

-----------------------------------------------------------------------------
\* Requests on shipments.

LEMMA ShipmentRequestFresh ==
    ASSUME Serial, TypeInv, SerialInv, NEW h \in Handlers, NEW s \in Found,
           ShipmentRequest(h, s)
    PROVE  SerialInv'
<1>1. s \in Made /\ s \in Shipments /\ ships[s] # Null /\ ships[s] \in ShipmentOK
  BY RowsExist DEF Made
<1>2. ASSUME NEW crewed \in BOOLEAN,
             UpdateShipment(h, s, crewed) \/ AssignShipment(h, s, crewed)
      PROVE  SerialInv'
  <2>1. PICK copy \in {[ships[s] EXCEPT !.crewed = crewed], Assign(ships[s], crewed)} :
           UNCHANGED <<runs, ships>> /\ Begin(h, Holding(s, copy))
    BY <1>2 DEF UpdateShipment, AssignShipment, Request
  <2>2. copy \in ShipmentOK
    BY <1>1, CrewedFits
  <2>3. /\ copy.run = ships[s].run
        /\ copy.status = ships[s].status
           \/ (ships[s].status = "confirmed" /\ copy.status = "assigned")
    BY <1>1, <2>1 DEF Assign, ShipmentOK, ShipmentRow
  <2>4. Fresh(Holding(s, copy))
    BY <1>1, <2>2, <2>3, HoldingFresh
  <2> QED
    BY <2>1, <2>4, SerialBegin
<1>3. ASSUME NEW status \in ShipmentStatuses, status # "pending_acceptance",
             status = "cancelled" \/ ships[s].status # "cancelled",
             UNCHANGED <<runs, ships>>,
             Begin(h, Holding(s, [ships[s] EXCEPT !.status = status]))
      PROVE  SerialInv'
  BY <1>1, <1>3, StatusFresh, SerialBegin
<1>4. ASSUME NEW status \in ShipmentStatuses, UpdateStatus(h, s, status) PROVE SerialInv'
  <2>1. status # "pending_acceptance" /\ status \in Transitions[ships[s].status]
    BY <1>4 DEF UpdateStatus
  <2>2. ships[s].status # "cancelled"
    BY <2>1 DEF Transitions
  <2> QED
    BY <1>3, <1>4, <2>1, <2>2 DEF UpdateStatus, Request
<1>5. CASE Accept(h, s) \/ Reject(h, s) \/ CancelShipment(h, s) \/ UploadPod(h, s)
           \/ FinishShipment(h, s)
  BY <1>3, <1>5 DEF Accept, Reject, CancelShipment, UploadPod, FinishShipment, Request,
                    ShipmentStatuses
<1>6. CASE RemoveShipment(h, s)
  <2> DEFINE call == Pending("delete", Null, Null, NoCopies, {s})
  <2>1. UNCHANGED <<runs, ships>> /\ Begin(h, call)
    BY <1>6 DEF RemoveShipment, Request
  <2>2. call.step = "delete" /\ call.copies = NoCopies
    BY DEF Pending
  <2> HIDE DEF call
  <2>3. Answered(call)
    BY <2>2, NoCopiesAfter
  <2>4. Fresh(call)
    BY <2>2, <2>3 DEF Fresh
  <2> QED
    BY <2>1, <2>4, SerialBegin
<1> QED
  BY <1>2, <1>4, <1>5, <1>6 DEF ShipmentRequest

LEMMA CreateShipmentFresh ==
    ASSUME Serial, TypeInv, SerialInv, NEW h \in Handlers, NEW s \in Shipments,
           NEW status \in NewStatuses, NEW crewed \in BOOLEAN,
           CreateShipment(h, s, status, crewed)
    PROVE  SerialInv'
<1> DEFINE copy == NewShipment(status, crewed)
<1>1. copy \in ShipmentOK /\ copy.run = Null
  BY DispatchAssumption DEF NewShipment, ShipmentOK, ShipmentRow
<1>2. UNCHANGED <<runs, ships>> /\ Begin(h, Holding(s, copy)) /\ ships[s] = Null
  BY DEF CreateShipment, Request
<1> HIDE DEF copy
<1>3. Fresh(Holding(s, copy))
  BY <1>1, <1>2, HoldingFresh
<1> QED
  BY <1>2, <1>3, SerialBegin

-----------------------------------------------------------------------------
\* The later steps of the call.

LEMMA EndFresh ==
    ASSUME Serial, TypeInv, SerialInv, NEW h \in Handlers, End(h), UNCHANGED <<runs, ships>>
    PROVE  SerialInv'
<1>1. Aligned(runs, ships)'
  BY DEF SerialInv
<1> QED
  BY <1>1, SerialStore

LEMMA ProbeFresh ==
    ASSUME Serial, TypeInv, SerialInv, NEW h \in Handlers, Probe(h)
    PROVE  SerialInv'
<1> DEFINE r == calls[h].run
           row == calls[h].row
           call == With("advance", r, row)
<1>1. calls[h].step = "probe" /\ UNCHANGED <<runs, ships>> /\ (End(h) \/ Begin(h, call))
  BY DEF Probe
<1>2. r \in Existing /\ row = runs[r] /\ row.status \in {"planned", "ready"} /\ Fit(row)
  BY <1>1 DEF SerialInv, Fresh
<1>3. call.step = "advance" /\ call.run = r /\ call.row = row /\ call.copies = NoCopies
  BY WithFields, WithIsNaming
<1> HIDE DEF call
<1>4. Answered(call)
  BY <1>3, NoCopiesAfter
<1>5. Fresh(call)
  BY <1>2, <1>3, <1>4 DEF Fresh
<1> QED
  BY <1>1, <1>5, EndFresh, SerialBegin

LEMMA AdvanceFresh ==
    ASSUME Serial, TypeInv, Inv, SerialInv, NEW h \in Handlers, AdvanceStops(h)
    PROVE  SerialInv'
<1> DEFINE r == calls[h].run
           old == calls[h].row
           row == [old EXCEPT !.status = "in_progress"]
           copies == [s \in Shipments |->
                        IF s \in StopsOf(r) THEN Advance(ships[s]) ELSE Null]
           call == Pending("save", r, row, copies, {})
<1>1. calls[h].step = "advance" /\ UNCHANGED <<runs, ships>> /\ Begin(h, call)
  BY DEF AdvanceStops
<1>2. r \in Existing /\ old = runs[r] /\ old.status \in {"planned", "ready"} /\ Fit(old)
  BY <1>1 DEF SerialInv, Fresh
<1>3. RowFits(old) /\ r \in Runs
  BY <1>2, RowsExist
<1>4. old.status = "ready"
  BY <1>2, <1>3 DEF RowFits
<1>5. row.status = "in_progress" /\ row.seq = old.seq
  BY <1>3, FitsIsRun DEF IsRun, RunColumns
<1>6. RowFits(row)
  BY <1>3, StatusFits DEF RunStatuses
<1>7. \A s \in StopsOf(r) :
        /\ s \in Made /\ Advance(ships[s]) \in ShipmentOK
        /\ Advance(ships[s]).run = ships[s].run
        /\ \/ Advance(ships[s]).status = ships[s].status
           \/ ships[s].status = "confirmed" /\ Advance(ships[s]).status = "assigned"
  <2> SUFFICES ASSUME NEW s \in StopsOf(r)
               PROVE  /\ s \in Made /\ Advance(ships[s]) \in ShipmentOK
                      /\ Advance(ships[s]).run = ships[s].run
                      /\ \/ Advance(ships[s]).status = ships[s].status
                         \/ ships[s].status = "confirmed" /\ Advance(ships[s]).status = "assigned"
    OBVIOUS
  <2>1. s \in Made /\ ships[s] \in ShipmentOK
    BY RowsExist
  <2> QED
    BY <2>1, AdvanceFits DEF Advance, ShipmentOK, ShipmentRow
<1>8. copies \in Copies
  BY <1>7 DEF Copies
<1>9. /\ call.step = "save" /\ call.run = r /\ call.row = row /\ call.copies = copies
  BY DEF Pending
<1>10. \A s \in Shipments : copies[s] = IF s \in StopsOf(r) THEN Advance(ships[s]) ELSE Null
  OBVIOUS
<1> HIDE DEF call, copies, row
<1>11. Kin(call) /\ Answered(call)
  BY <1>7, <1>9, <1>10 DEF Kin, Answered, Made
<1>12. RunsAfter(call) = [runs EXCEPT ![r] = row]
  BY <1>3, <1>9, NullIsNoId DEF RunsAfter
<1>13. row # Null
  BY <1>6, FitsNotNull
<1>14. Aligned(RunsAfter(call), ShipsAfter(call))
  <2>1. ShipsAfter(call) \in Copies /\ SameRuns(ShipsAfter(call))
    BY <1>8, <1>9, <1>11, KinAfter
  <2>2. runs[r].status \notin ClosedRun /\ row.seq = runs[r].seq
    BY <1>2, <1>4, <1>5 DEF ClosedRun
  <2> QED
    BY <1>2, <1>12, <1>13, <2>1, <2>2, AlignedRow DEF SerialInv
<1>15. Follows(runs[r], row)
  BY <1>2, <1>4, <1>5 DEF Follows, Diagram
<1>16. Fresh(call)
  BY <1>5, <1>9, <1>11, <1>14, <1>15 DEF Fresh
<1> QED
  BY <1>1, <1>16, SerialBegin

LEMMA AttachFresh ==
    ASSUME Serial, TypeInv, Inv, SerialInv, NEW h \in Handlers, AttachStops(h)
    PROVE  SerialInv'
<1> DEFINE r == calls[h].run
           old == calls[h].row
           ids == calls[h].ids
           new == ids \ Range(old.seq)
           copies(found) == [s \in Shipments |->
                               IF s \in Range(found)
                               THEN Attach(ships[s], r, PlaceIn(Extend(old, found).seq, s))
                               ELSE Null]
<1>1. calls[h].step = "attach" /\ UNCHANGED <<runs, ships>>
  BY DEF AttachStops
<1>2. r \in Runs /\ RowFits(old) /\ ids \in SUBSET Shipments
  BY <1>1, HeldFits, CallFields DEF Steps
<1>3. IF runs[r] = Null THEN old.seq = << >> ELSE old = runs[r]
  BY <1>1 DEF SerialInv, Fresh
<1>4. \/ End(h)
      \/ /\ ids \subseteq Found /\ \A s \in ids : Attachable(ships[s], r)
         /\ \E found \in SetToSeqs(new) :
              Begin(h, Pending("save", r, Extend(old, found), copies(found), {}))
  BY DEF AttachStops
<1>5. ASSUME ids \subseteq Found, \A s \in ids : Attachable(ships[s], r),
             NEW found \in SetToSeqs(new),
             Begin(h, Pending("save", r, Extend(old, found), copies(found), {}))
      PROVE  SerialInv'
  <2> DEFINE row == Extend(old, found)
             kept == copies(found)
             call == Pending("save", r, row, kept, {})
  <2>1. new \subseteq Made /\ new \subseteq Shipments /\ new \subseteq ids
    BY <1>2, <1>5, RowsExist
  <2>2. IsFiniteSet(new)
    BY <2>1, FiniteShipments, FS_Subset
  <2>3. \A s \in new : ships[s].run \in {Null, r}
    BY <1>5, <2>1 DEF Attachable
  <2> HIDE DEF new
  <2>4. found \in Seq(new) /\ Range(found) = new
    BY <1>5, <2>2, ListedSet
  <2>5. found \in Seq(Shipments) /\ Range(found) \subseteq Made
    BY <2>1, <2>4
  <2>6. RowFits(row) /\ row.seq \in Seq(Shipments) /\ Range(row.seq) = Range(old.seq) \cup new
    BY <1>2, <2>4, <2>5, ExtendFits
  <2>7. Follows(old, row) /\ (row.status = old.status \/ row.status = "ready")
    <3> DEFINE seq == old.seq \o found
               n == Len(old.seq \o found)
               longer == [old EXCEPT !.seq = seq, !.total = n]
    <3>1. row = Promote(longer)
      BY DEF Extend
    <3> HIDE DEF seq, n
    <3>2. IsRun(longer) /\ longer.status = old.status
      BY <1>2, FitsIsRun, SetStops
    <3> HIDE DEF longer, row
    <3> QED
      BY <3>1, <3>2, PromoteFollows
  <2>8. \A s \in new :
          /\ kept[s] \in ShipmentOK
          /\ kept[s].run = r /\ kept[s].status = ships[s].status
    <3> SUFFICES ASSUME NEW s \in new
                 PROVE  /\ kept[s] \in ShipmentOK
                        /\ kept[s].run = r /\ kept[s].status = ships[s].status
      OBVIOUS
    <3>1. PlaceIn(row.seq, s) \in Nat
      BY <2>6, PlaceExists
    <3>2. ships[s] \in ShipmentOK
      BY <2>1, RowsExist
    <3>3. kept[s] = Attach(ships[s], r, PlaceIn(row.seq, s))
      BY <2>1, <2>4
    <3> HIDE DEF row, kept
    <3> DEFINE n == PlaceIn(row.seq, s)
    <3>4. Attach(ships[s], r, n) \in ShipmentOK
      BY <1>2, <3>1, <3>2, AttachFits
    <3> HIDE DEF n
    <3>5. Attach(ships[s], r, n).run = r /\ Attach(ships[s], r, n).status = ships[s].status
      BY <3>2 DEF Attach, ShipmentOK, ShipmentRow
    <3> QED
      BY <3>3, <3>4, <3>5 DEF n
  <2>9. \A s \in Shipments \ new : kept[s] = Null
    BY <2>4
  <2>10. kept \in Copies
    <3>1. kept = [s \in Shipments |-> kept[s]]
      OBVIOUS
    <3> HIDE DEF kept
    <3> QED
      BY <2>8, <2>9, <3>1 DEF Copies
  <2>11. call.step = "save" /\ call.run = r /\ call.row = row /\ call.copies = kept
    BY DEF Pending
  <2>12. Begin(h, call)
    BY <1>5
  <2> HIDE DEF call, kept, row
  <2>13. \A s \in Shipments : kept[s] # Null <=> s \in new
    BY <2>8, <2>9, NoNullRow
  <2>14. Answered(call)
    BY <2>8, <2>11, <2>13 DEF Answered
  <2> DEFINE S == ShipsAfter(call)
  <2>15. S = [s \in Shipments |-> IF s \in new THEN kept[s] ELSE ships[s]]
    BY <2>11, <2>13 DEF ShipsAfter
  <2>16. S \in Copies
    BY <2>8, <2>15 DEF TypeInv, Copies
  <2>17. \A s \in Shipments : S[s] = IF s \in new THEN kept[s] ELSE ships[s]
    BY <2>15
  <2> HIDE DEF S
  <2>18. \A x \in Runs \ {r} : Pointing(S, x) = Pointing(ships, x)
    BY <2>1, <2>3, <2>8, <2>13, <2>17, NullIsNoId DEF Pointing
  <2>19. Pointing(S, r) = Pointing(ships, r) \cup new
    BY <2>1, <2>3, <2>8, <2>13, <2>17 DEF Pointing
  <2>20. row.status \notin ClosedRun => Range(old.seq) = Pointing(ships, r)
    <3>1. CASE runs[r] = Null
      <4>1. Range(old.seq) = {}
        BY <1>3, <3>1 DEF Range
      <4>2. Pointing(ships, r) = {}
        BY <1>2, <3>1, NullIsNoId DEF SerialInv, Aligned, Pointing
      <4> QED
        BY <4>1, <4>2
    <3>2. CASE runs[r] # Null
      <4>1. row.status \notin ClosedRun => runs[r].status \notin ClosedRun
        BY <1>3, <2>7, <3>2 DEF Follows, Diagram, ClosedRun
      <4> QED
        BY <1>2, <1>3, <3>2, <4>1 DEF SerialInv, Aligned
    <3> QED
      BY <3>1, <3>2
  <2>21. row.status \notin ClosedRun => Range(row.seq) = Pointing(S, r)
    BY <2>6, <2>19, <2>20
  <2>22. RunsAfter(call) = [runs EXCEPT ![r] = row]
    BY <1>2, <2>11, NullIsNoId DEF RunsAfter
  <2>23. Aligned(RunsAfter(call), S)
    <3>1. row # Null
      BY <2>6, FitsNotNull
    <3>2. r \in Runs /\ Aligned(runs, ships)
      BY <1>2 DEF SerialInv
    <3> HIDE DEF r
    <3>3. Aligned([runs EXCEPT ![r] = row], S)
      BY <2>16, <2>18, <2>21, <3>1, <3>2, AlignedAfter
    <3> QED
      BY <2>22, <3>3
  <2>24. r \in Existing => old = runs[r]
    BY <1>3 DEF Existing
  <2>25. Fresh(call)
    BY <2>7, <2>11, <2>14, <2>23, <2>24 DEF Fresh, S
  <2> QED
    BY <1>1, <2>12, <2>25, SerialBegin
<1> QED
  BY <1>1, <1>4, <1>5, EndFresh

\* persistSequence changes places only.
LEMMA RenumberedPointer ==
    ASSUME TypeInv, NEW row, RowFits(row), NEW s \in Shipments
    PROVE  /\ ships[s] = Null => Renumbered(row, s) = Null
           /\ ships[s] # Null =>
                /\ Renumbered(row, s) \in ShipmentOK
                /\ Renumbered(row, s).run = ships[s].run
                /\ Renumbered(row, s).status = ships[s].status
<1>1. CASE ships[s] = Null
  BY <1>1, RenumberedAbsent DEF Made
<1>2. CASE ships[s] # Null
  <2>1. s \in Made /\ ships[s] \in ShipmentOK
    BY <1>2, RowsExist DEF Made
  <2>2. Renumbered(row, s) \in ShipmentOK
    BY <2>1, RenumberedFits
  <2> DEFINE n == PlaceIn(row.seq, s)
  <2>3. Renumbered(row, s) = ships[s] \/ Renumbered(row, s) = [ships[s] EXCEPT !.place = n]
    BY DEF Renumbered
  <2> HIDE DEF n
  <2>4. Renumbered(row, s).run = ships[s].run /\ Renumbered(row, s).status = ships[s].status
    BY <2>1, <2>3 DEF ShipmentOK, ShipmentRow
  <2> QED
    BY <1>2, <2>2, <2>4
<1> QED
  BY <1>1, <1>2

LEMMA ResequenceFresh ==
    ASSUME Serial, TypeInv, Inv, SerialInv, NEW h \in Handlers, Resequence(h)
    PROVE  SerialInv'
<1> DEFINE r == calls[h].run
           row == calls[h].row
<1>1. /\ calls[h].step = "resequence" /\ End(h)
      /\ runs' = [runs EXCEPT ![r] = row]
      /\ ships' = [s \in Shipments |-> Renumbered(row, s)]
  BY DEF Resequence
<1>2. r \in Runs /\ RowFits(row) /\ row # Null
  BY <1>1, HeldFits, FitsNotNull DEF Steps
<1>3. r \in Existing /\ row.status = runs[r].status /\ Range(row.seq) = Range(runs[r].seq)
  BY <1>1 DEF SerialInv, Fresh
<1>4. \A s \in Shipments : ships'[s] = Renumbered(row, s)
  BY <1>1
<1>5. ships' \in Copies /\ SameRuns(ships')
  BY <1>1, <1>2, <1>4, RenumberedPointer, NoNullRow DEF Copies, SameRuns
<1>6. Aligned(runs', ships')
  BY <1>1, <1>2, <1>3, <1>5, AlignedRow DEF SerialInv
<1> QED
  BY <1>1, <1>6, SerialStore

LEMMA DetachFresh ==
    ASSUME Serial, TypeInv, Inv, SerialInv, NEW h \in Handlers, DetachStops(h)
    PROVE  SerialInv'
<1> DEFINE r == calls[h].run
           old == calls[h].row
           removed == calls[h].ids \cap StopsOf(r)
           row == Without(old, removed)
<1>1. calls[h].step = "detach" /\ End(h)
  BY DEF DetachStops
<1>2. \/ UNCHANGED <<runs, ships>>
      \/ /\ runs' = [runs EXCEPT ![r] = row]
         /\ ships' = [s \in Shipments |->
                        IF s \in removed THEN Detach(ships[s]) ELSE Renumbered(row, s)]
  BY DEF DetachStops
<1>3. r \in Existing /\ old = runs[r] /\ r \in Runs
  BY <1>1 DEF SerialInv, Fresh, Existing
<1>4. /\ RowFits(row) /\ row # Null /\ row.status = old.status
      /\ Range(row.seq) = Range(old.seq) \ removed
  BY <1>3, RowsExist, WithoutFits, FitsNotNull
<1>5. \A s \in removed : /\ s \in Shipments /\ ships[s] # Null /\ ships[s] \in ShipmentOK
                         /\ ships[s].run = r
  BY RowsExist DEF StopsOf, Made
<1>6. \A s \in removed : Detach(ships[s]) \in ShipmentOK /\ Detach(ships[s]).run = Null
  BY <1>5, DetachFits DEF Detach, ShipmentOK, ShipmentRow
<1> HIDE DEF removed, row
<1>7. ASSUME runs' = [runs EXCEPT ![r] = row],
             ships' = [s \in Shipments |->
                         IF s \in removed THEN Detach(ships[s]) ELSE Renumbered(row, s)]
      PROVE  Aligned(runs', ships')
  <2>1. \A s \in Shipments :
          ships'[s] = IF s \in removed THEN Detach(ships[s]) ELSE Renumbered(row, s)
    BY <1>7
  <2>2. ships' \in Copies
    BY <1>4, <1>6, <1>7, RenumberedPointer DEF Copies
  <2>3. \A s \in Shipments :
          /\ ships'[s] # Null <=> ships[s] # Null
          /\ ships[s] # Null =>
               ships'[s].run = IF s \in removed THEN Null ELSE ships[s].run
    BY <1>4, <1>5, <1>6, <2>1, RenumberedPointer, NoNullRow
  <2>4. \A x \in Runs \ {r} : Pointing(ships', x) = Pointing(ships, x)
    BY <1>5, <2>3, NullIsNoId DEF Pointing
  <2>5. Pointing(ships', r) = Pointing(ships, r) \ removed
    BY <1>3, <2>3, NullIsNoId DEF Pointing
  <2>6. row.status \notin ClosedRun => Range(row.seq) = Pointing(ships', r)
    BY <1>3, <1>4, <2>5 DEF SerialInv, Aligned, Existing
  <2>7. r \in Runs /\ Aligned(runs, ships)
    BY <1>3 DEF SerialInv
  <2> HIDE DEF r
  <2>8. Aligned([runs EXCEPT ![r] = row], ships')
    BY <1>4, <2>2, <2>4, <2>6, <2>7, AlignedAfter
  <2> QED
    BY <1>7, <2>8
<1>8. CASE UNCHANGED <<runs, ships>>
  BY <1>1, <1>8, EndFresh
<1> QED
  BY <1>1, <1>2, <1>7, <1>8, SerialStore

LEMMA ReleaseFresh ==
    ASSUME Serial, TypeInv, Inv, SerialInv, NEW h \in Handlers, Release(h)
    PROVE  SerialInv'
<1> DEFINE r == calls[h].run
           row == calls[h].row
           Freed(s) == ships[s] # Null /\ ships[s].run = r /\ ships[s].status \notin Counted
<1>1. /\ calls[h].step = "release" /\ End(h)
      /\ runs' = [runs EXCEPT ![r] = row]
      /\ ships' = [s \in Shipments |-> IF Freed(s) THEN Detach(ships[s]) ELSE ships[s]]
  BY DEF Release
<1>2. r \in Runs /\ row # Null /\ Aligned(runs, ships)
  BY <1>1, HeldFits, FitsNotNull DEF Steps, SerialInv
<1>3. row.status = "cancelled"
  BY <1>1 DEF SerialInv, Fresh
<1>4. \A s \in Made : ships[s] \in ShipmentOK /\ Detach(ships[s]) \in ShipmentOK
                      /\ Detach(ships[s]).run = Null
  BY RowsExist, DetachFits DEF Detach, ShipmentOK, ShipmentRow
<1>5. ships' \in Copies
  BY <1>1, <1>4 DEF Copies, Made, TypeInv
<1>6. \A s \in Shipments : IF Freed(s) THEN ships'[s].run = Null /\ ships'[s] # Null
                           ELSE ships'[s] = ships[s]
  BY <1>1, <1>4, NoNullRow DEF Made
<1>7. \A x \in Runs \ {r} : Pointing(ships', x) = Pointing(ships, x)
  BY <1>6, NullIsNoId DEF Pointing
<1>8. row.status \in ClosedRun
  BY <1>3 DEF ClosedRun
<1> HIDE DEF r
<1>9. Aligned([runs EXCEPT ![r] = row], ships')
  BY <1>2, <1>5, <1>7, <1>8, AlignedAfter
<1>10. Aligned(runs', ships')
  BY <1>1, <1>9
<1> QED
  BY <1>1, <1>10, SerialStore

\* Once the count has reached total_stops, every stop was counted.
LEMMA CountIsComplete ==
    ASSUME NEW S, NEW all, NEW counted, IsFiniteSet(all), counted \subseteq all,
           Cardinality(all) <= Cardinality(counted)
    PROVE  counted = all
<1>1. IsFiniteSet(counted) /\ Cardinality(counted) <= Cardinality(all)
      /\ (Cardinality(counted) = Cardinality(all) => counted = all)
  BY FS_Subset
<1>2. Cardinality(counted) \in Nat /\ Cardinality(all) \in Nat
  BY <1>1, FS_CardinalityType
<1> QED
  BY <1>1, <1>2

LEMMA RecountFresh ==
    ASSUME Serial, TypeInv, Inv, SerialInv, NEW h \in Handlers, Recount(h)
    PROVE  SerialInv'
<1> DEFINE r == calls[h].run
           old == calls[h].row
           copies == calls[h].copies
           seen == [s \in Shipments |-> IF copies[s] # Null THEN copies[s] ELSE ships[s]]
           counted == {s \in Shipments :
                         /\ seen[s] # Null /\ ~seen[s].gone
                         /\ seen[s].run = r /\ seen[s].status \in Counted}
           row == [old EXCEPT !.done = Cardinality(counted)]
           call == Pending("saveStop", r, row, copies, {})
<1>1. calls[h].step = "recount" /\ UNCHANGED <<runs, ships>> /\ Begin(h, call)
  BY DEF Recount
<1>2. r \in Existing /\ old = runs[r] /\ old.status = "in_progress" /\ Kin(calls[h])
      /\ Answered(calls[h])
  BY <1>1 DEF SerialInv, Fresh
<1>3. r \in Runs /\ RowFits(old) /\ copies \in Copies
  BY <1>2, RowsExist, CallFields
<1>4. seen = ShipsAfter(calls[h])
  BY DEF ShipsAfter
<1>5. seen \in Copies /\ SameRuns(seen)
  BY <1>2, <1>3, <1>4, KinAfter
<1>6. Range(old.seq) = Pointing(seen, r)
  BY <1>2, <1>3, <1>5, SamePointing DEF SerialInv, Aligned, Existing, ClosedRun
<1>7. counted \subseteq Pointing(seen, r) /\ IsFiniteSet(counted)
      /\ IsFiniteSet(Pointing(seen, r))
  <2>1. counted \subseteq Shipments /\ Pointing(seen, r) \subseteq Shipments
    BY DEF Pointing
  <2>2. counted \subseteq Pointing(seen, r)
    BY DEF Pointing
  <2> HIDE DEF counted
  <2> QED
    BY <2>1, <2>2, FiniteShipments, FS_Subset
<1>8. \A s \in counted : seen[s].gone \/ seen[s].status \in Counted
  OBVIOUS
<1>9. /\ row.done = Cardinality(counted) /\ row.total = old.total
      /\ row.seq = old.seq /\ row.status = old.status
  BY <1>3, FitsIsRun DEF IsRun, RunColumns
<1>10. Cardinality(counted) \in Nat /\ RowFits(row)
  BY <1>3, <1>7, FS_CardinalityType, DoneFits
<1>11. row.done >= row.total => Counts(seen, r)
  <2> SUFFICES ASSUME row.done >= row.total PROVE Counts(seen, r)
    OBVIOUS
  <2>1. Cardinality(Pointing(seen, r)) <= old.total /\ old.total \in Nat
    BY <1>3, <1>6, FitsIsRun DEF RowFits
  <2>2. Cardinality(Pointing(seen, r)) \in Nat
    BY <1>7, FS_CardinalityType
  <2> HIDE DEF counted, row, seen
  <2>3. Cardinality(Pointing(seen, r)) <= Cardinality(counted)
    BY <1>9, <1>10, <2>1, <2>2
  <2>4. counted = Pointing(seen, r)
    BY <1>7, <2>3, CountIsComplete
  <2> QED
    BY <1>8, <2>4 DEF Counts
<1>12. /\ call.step = "saveStop" /\ call.run = r /\ call.row = row /\ call.copies = copies
  BY DEF Pending
<1> HIDE DEF call, row, counted
<1>13. ShipsAfter(call) = seen
  BY <1>12 DEF ShipsAfter
<1>14. Answered(call)
  BY <1>2, <1>12 DEF Answered
<1>15. RunsAfter(call) = [runs EXCEPT ![r] = row]
  BY <1>3, <1>12, NullIsNoId DEF RunsAfter
<1>16. Aligned(RunsAfter(call), ShipsAfter(call))
  <2>1. row # Null /\ Aligned(runs, ships)
    BY <1>10, FitsNotNull DEF SerialInv
  <2> HIDE DEF seen
  <2> QED
    BY <1>2, <1>5, <1>9, <1>13, <1>15, <2>1, AlignedRow
<1>17. Follows(runs[r], row) /\ row.status = "in_progress"
  BY <1>2, <1>9 DEF Follows
<1> HIDE DEF seen
<1>18. Fresh(call)
  BY <1>11, <1>12, <1>13, <1>14, <1>16, <1>17 DEF Fresh
<1> QED
  BY <1>1, <1>18, SerialBegin

\* The tables once the call has saved its copies.
LEMMA Written ==
    ASSUME TypeInv, NEW h \in Handlers, Write(calls[h])
    PROVE  runs' = RunsAfter(calls[h]) /\ ships' = ShipsAfter(calls[h])
BY DEF Write, RunsAfter, ShipsAfter

LEMMA SaveFresh ==
    ASSUME Serial, TypeInv, Inv, SerialInv, NEW h \in Handlers, Save(h) \/ SaveStop(h)
    PROVE  SerialInv'
<1> DEFINE r == calls[h].run
           row == calls[h].row
<1>1. /\ calls[h].step \in {"save", "saveStop"} /\ Write(calls[h])
      /\ \/ End(h)
         \/ /\ calls[h].step = "saveStop" /\ row.done >= row.total
            /\ Begin(h, With("close", r, Null))
  BY DEF Save, SaveStop
<1>2. Aligned(RunsAfter(calls[h]), ShipsAfter(calls[h]))
  BY <1>1 DEF SerialInv, Fresh
<1>3. runs' = RunsAfter(calls[h]) /\ ships' = ShipsAfter(calls[h])
  BY <1>1, Written
<1>4. Aligned(runs', ships')
  BY <1>2, <1>3
<1>5. CASE End(h)
  BY <1>4, <1>5, SerialStore
<1>6. CASE calls[h].step = "saveStop" /\ row.done >= row.total /\ Begin(h, With("close", r, Null))
  <2>1. row.status = "in_progress" /\ Counts(ShipsAfter(calls[h]), r)
    BY <1>6 DEF SerialInv, Fresh
  <2>2. r \in Runs
    BY <1>6, HeldFits DEF Steps
  <2>3. runs'[r] = row
    BY <1>3, <2>2, NullIsNoId DEF RunsAfter, TypeInv, TypeOK
  <2> QED
    BY <1>3, <1>4, <1>6, <2>1, <2>3, SerialStore
<1> QED
  BY <1>1, <1>5, <1>6

LEMMA CloseFresh ==
    ASSUME Serial, TypeInv, Inv, SerialInv, NEW h \in Handlers, Close(h)
    PROVE  SerialInv'
<1> DEFINE r == calls[h].run
           row == [runs[r] EXCEPT !.status = "completed"]
           call == With("save", r, row)
<1>1. calls[h].step = "close" /\ UNCHANGED <<runs, ships>> /\ Begin(h, call)
  BY DEF Close
<1>2. runs[r].status = "in_progress" /\ ("complete" \notin Requests => Counts(ships, r))
  BY <1>1 DEF SerialInv, Fresh
<1>3. r \in Existing /\ r \in Runs
  BY <1>1 DEF TypeInv, CallFits, Existing
<1>4. row.status = "completed" /\ RowFits(row)
  BY <1>3, RowsExist, StatusFits, FitsIsRun, SetStatus DEF RunStatuses
<1>5. /\ call.step = "save" /\ call.run = r /\ call.row = row /\ call.copies = NoCopies
  BY WithFields, WithIsNaming
<1> HIDE DEF call, row
<1>6. ShipsAfter(call) = ships /\ Answered(call)
  BY <1>5, NoCopiesAfter
<1>7. RunsAfter(call) = [runs EXCEPT ![r] = row]
  BY <1>3, <1>5, NullIsNoId DEF RunsAfter
<1>8. Aligned(RunsAfter(call), ShipsAfter(call))
  <2>1. row # Null /\ Aligned(runs, ships) /\ row.status \in ClosedRun
    BY <1>4, FitsNotNull DEF SerialInv, ClosedRun
  <2> HIDE DEF r
  <2> QED
    BY <1>3, <1>6, <1>7, <2>1, AlignedRow, SameShips
<1>9. Follows(runs[r], row)
  BY <1>2, <1>4 DEF Follows, Diagram
<1>10. Fresh(call)
  BY <1>2, <1>5, <1>6, <1>8, <1>9 DEF Fresh
<1> QED
  BY <1>1, <1>10, SerialBegin

LEMMA DeleteFresh ==
    ASSUME Serial, TypeInv, SerialInv, NEW h \in Handlers, Delete(h)
    PROVE  SerialInv'
<1>1. /\ calls[h].step = "delete" /\ End(h) /\ UNCHANGED runs
      /\ ships' = [s \in Shipments |->
                     IF s \in calls[h].ids THEN [ships[s] EXCEPT !.gone = TRUE] ELSE ships[s]]
  BY DEF Delete
<1>2. calls[h].ids \subseteq Made /\ "delete" \in Requests
  BY <1>1 DEF TypeInv, CallFits
<1>3. \A s \in Made : [ships[s] EXCEPT !.gone = TRUE] \in ShipmentOK
                      /\ [ships[s] EXCEPT !.gone = TRUE].run = ships[s].run
  <2>1. \A s \in Made : ships[s] \in ShipmentOK
    BY RowsExist
  <2> QED
    BY <1>2, <2>1, GoneFits DEF ShipmentOK, ShipmentRow
<1>4. ships' \in Copies /\ SameRuns(ships')
  BY <1>1, <1>2, <1>3, NoNullRow DEF Copies, SameRuns, Made, TypeInv
<1>5. Aligned(runs', ships')
  BY <1>1, <1>4, AlignedShips DEF SerialInv
<1> QED
  BY <1>1, <1>5, SerialStore

LEMMA ContinueFresh ==
    ASSUME Serial, TypeInv, Inv, SerialInv, NEW h \in Handlers, Continue(h)
    PROVE  SerialInv'
BY ProbeFresh, AdvanceFresh, AttachFresh, DetachFresh, ResequenceFresh, ReleaseFresh,
   RecountFresh, SaveFresh, CloseFresh, DeleteFresh DEF Continue

LEMMA InitFresh == Init => SerialInv
<1> SUFFICES ASSUME Init PROVE SerialInv
  OBVIOUS
<1>1. Aligned(runs, ships)
  BY DEF Init, Aligned
<1>2. Fresh(Idle)
  BY DEF Fresh, Idle, Pending, Answered, NoCopies
<1> QED
  BY <1>1, <1>2 DEF Init, SerialInv

LEMMA NextFresh == Serial /\ TypeInv /\ Inv /\ SerialInv /\ [Next]_vars => SerialInv'
<1> SUFFICES ASSUME Serial, TypeInv, Inv, SerialInv, [Next]_vars PROVE SerialInv'
  OBVIOUS
<1>1. CASE UNCHANGED vars
  BY <1>1 DEF vars, SerialInv, Fresh, Existing, RunsAfter, ShipsAfter, Kin, Answered
<1>2. ASSUME NEW h \in Handlers, Lose(h) PROVE SerialInv'
  BY <1>2, EndFresh DEF Lose
<1> QED
  BY <1>1, <1>2, ContinueFresh, CreateFresh, RunRequestFresh, ShipmentRequestFresh,
     CreateShipmentFresh DEF Next

LEMMA SerialInvHolds ==
    ASSUME Serial
    PROVE  Spec => []SerialInv
BY InitFresh, NextFresh, InvHolds, TypeInvHolds, PTL DEF Spec

-----------------------------------------------------------------------------
\* What one step makes of a row.

\* Only the later steps of a call change the tables.
LEMMA RequestsWriteNothing ==
    ASSUME [Next]_vars
    PROVE  UNCHANGED <<runs, ships>> \/ \E h \in Handlers : Continue(h)
<1>1. ASSUME NEW h \in Handlers, NEW r, RunRequest(h, r) PROVE UNCHANGED <<runs, ships>>
  BY <1>1 DEF RunRequest, UpdateRun, StartRun, CompleteRun, CancelRun, AssignDriver,
              AddShipments, RemoveShipments, Reorder, StopDone, StopIncident,
              StopStartTransit, StopArrive, Stop, Request
<1>2. ASSUME NEW h \in Handlers, NEW s, ShipmentRequest(h, s) PROVE UNCHANGED <<runs, ships>>
  BY <1>2 DEF ShipmentRequest, UpdateShipment, AssignShipment, UpdateStatus, Accept, Reject,
              CancelShipment, UploadPod, FinishShipment, RemoveShipment, Request
<1> QED
  BY <1>1, <1>2 DEF Next, vars, Lose, CreateRun, CreateShipment, Request

\* How a run may change in one step.
MayBecome(r, new) ==
    /\ Follows(runs[r], new)
    /\ new.status = "completed" /\ runs[r].status # "completed"
         /\ "complete" \notin Requests => Counts(ships, r)

LEMMA RunChange ==
    ASSUME Serial, TypeInv, Inv, SerialInv, [Next]_vars, NEW r \in Existing
    PROVE  MayBecome(r, runs'[r])
<1>1. CASE UNCHANGED runs
  BY <1>1 DEF MayBecome, Follows
<1>2. runs \in [Runs -> RunRow \cup {Null}] /\ r \in Runs
  BY DEF TypeInv, TypeOK, Existing
<1>3. ASSUME NEW h \in Handlers, Save(h) \/ SaveStop(h) PROVE MayBecome(r, runs'[r])
  <2>1. calls[h].step \in {"save", "saveStop"} /\ Write(calls[h])
    BY <1>3 DEF Save, SaveStop
  <2>2. runs' = RunsAfter(calls[h])
    BY <2>1, Written
  <2>3. calls[h].run = r => MayBecome(r, calls[h].row)
    BY <2>1 DEF SerialInv, Fresh, MayBecome
  <2>4. runs'[r] = IF calls[h].run = r THEN calls[h].row ELSE runs[r]
    BY <1>2, <2>2, NullIsNoId DEF RunsAfter
  <2> QED
    BY <2>3, <2>4 DEF MayBecome, Follows
<1>4. ASSUME NEW h \in Handlers, Resequence(h) \/ Release(h) PROVE MayBecome(r, runs'[r])
  <2>1. calls[h].step \in {"resequence", "release"}
        /\ runs' = [runs EXCEPT ![calls[h].run] = calls[h].row]
    BY <1>4 DEF Resequence, Release
  <2>2. calls[h].run = r => Follows(runs[r], calls[h].row)
                            /\ (calls[h].row.status \in {runs[r].status, "cancelled"})
    BY <2>1 DEF SerialInv, Fresh
  <2>3. runs'[r] = IF calls[h].run = r THEN calls[h].row ELSE runs[r]
    BY <1>2, <2>1
  <2> QED
    BY <2>2, <2>3 DEF MayBecome, Follows
<1>5. ASSUME NEW h \in Handlers, DetachStops(h) PROVE MayBecome(r, runs'[r])
  <2>1. calls[h].step = "detach"
        /\ (UNCHANGED runs
            \/ \E ids : runs' = [runs EXCEPT ![calls[h].run] = Without(calls[h].row, ids)])
    BY <1>5 DEF DetachStops
  <2>2. calls[h].row = runs[calls[h].run]
    BY <2>1 DEF SerialInv, Fresh
  <2>3. \A ids : Without(runs[r], ids).status = runs[r].status
    BY RowsExist, WithoutFits
  <2>4. runs'[r].status = runs[r].status
    BY <1>2, <2>1, <2>2, <2>3
  <2> QED
    BY <2>4 DEF MayBecome, Follows
<1>6. ASSUME NEW h \in Handlers, Continue(h) PROVE MayBecome(r, runs'[r])
  <2>1. Probe(h) \/ AdvanceStops(h) \/ AttachStops(h) \/ Recount(h) \/ Close(h) \/ Delete(h)
        => UNCHANGED runs
    BY DEF Probe, AdvanceStops, AttachStops, Recount, Close, Delete
  <2> QED
    BY <1>1, <1>3, <1>4, <1>5, <1>6, <2>1 DEF Continue
<1> QED
  BY <1>1, <1>6, RequestsWriteNothing

\* How the status of a shipment may change in one step.
MayTurn(s, new) ==
    /\ ships[s].status # "pending_acceptance" => new.status # "pending_acceptance"
    /\ ships[s].status = "cancelled"
         /\ Requests \cap {"done", "incident", "transit", "arrive"} = {}
       => new.status = "cancelled"

LEMMA ShipmentChange ==
    ASSUME Serial, TypeInv, Inv, SerialInv, [Next]_vars, NEW s \in Made
    PROVE  MayTurn(s, ships'[s])
<1>1. CASE ships'[s] = ships[s] \/ ships'[s].status = ships[s].status
  BY <1>1 DEF MayTurn
<1>2. s \in Shipments /\ ships[s] # Null /\ ships[s] \in ShipmentOK
  BY RowsExist DEF Made
<1>3. ASSUME NEW h \in Handlers, Save(h) \/ SaveStop(h) PROVE MayTurn(s, ships'[s])
  <2>1. calls[h].step \in {"save", "saveStop"} /\ Write(calls[h])
    BY <1>3 DEF Save, SaveStop
  <2>2. ships' = ShipsAfter(calls[h])
    BY <2>1, Written
  <2>3. calls[h].copies[s] # Null => MayTurn(s, calls[h].copies[s])
    BY <1>2 DEF SerialInv, Fresh, Answered, MayTurn
  <2> QED
    BY <1>2, <2>2, <2>3 DEF ShipsAfter, MayTurn
<1>4. Detach(ships[s]).status = ships[s].status
      /\ [ships[s] EXCEPT !.gone = TRUE].status = ships[s].status
  BY <1>2 DEF Detach, ShipmentOK, ShipmentRow
<1>5. ASSUME NEW h \in Handlers, Resequence(h) PROVE ships'[s].status = ships[s].status
  <2>1. calls[h].step = "resequence" /\ ships'[s] = Renumbered(calls[h].row, s)
    BY <1>2, <1>5 DEF Resequence
  <2>2. RowFits(calls[h].row)
    BY <2>1, HeldFits DEF Steps
  <2> QED
    BY <1>2, <2>1, <2>2, RenumberedPointer
<1>6. ASSUME NEW h \in Handlers, DetachStops(h) PROVE ships'[s].status = ships[s].status
  <2> DEFINE removed == calls[h].ids \cap StopsOf(calls[h].run)
             row == Without(calls[h].row, removed)
  <2>1. calls[h].step = "detach"
        /\ ships'[s] \in {ships[s], Detach(ships[s]), Renumbered(row, s)}
    BY <1>2, <1>6 DEF DetachStops
  <2>2. RowFits(row)
    BY <2>1, HeldFits, WithoutFits DEF Steps
  <2> HIDE DEF row
  <2> QED
    BY <1>2, <1>4, <2>1, <2>2, RenumberedPointer
<1>7. ASSUME NEW h \in Handlers, Release(h) \/ Delete(h)
      PROVE  ships'[s].status = ships[s].status
  BY <1>2, <1>4, <1>7 DEF Release, Delete
<1>8. ASSUME NEW h \in Handlers, Continue(h) PROVE MayTurn(s, ships'[s])
  <2>1. Probe(h) \/ AdvanceStops(h) \/ AttachStops(h) \/ Recount(h) \/ Close(h)
        => UNCHANGED ships
    BY DEF Probe, AdvanceStops, AttachStops, Recount, Close
  <2> QED
    BY <1>1, <1>3, <1>5, <1>6, <1>7, <1>8, <2>1 DEF Continue
<1> QED
  BY <1>1, <1>8, RequestsWriteNothing

-----------------------------------------------------------------------------

\* DR-001.  Of the calls that come one after the other, none makes a shipment a stop
\* of two open runs: what addShipments() checks of a shipment is still so when it
\* writes, and a run that is cancelled lets go of its stops in the same write.
THEOREM SerialCallsKeepOneRunPerShipment ==
    ASSUME Serial
    PROVE  Spec => []OneRunPerShipment
<1>1. SerialInv => OneRunPerShipment
  <2> SUFFICES ASSUME SerialInv, NEW r \in Existing, NEW x \in Existing, Open(r), Open(x),
                      NEW s \in Range(runs[r].seq) \cap Range(runs[x].seq)
               PROVE  r = x
    BY DEF OneRunPerShipment
  <2>1. s \in Pointing(ships, r) /\ s \in Pointing(ships, x)
    BY DEF SerialInv, Aligned, Existing, Open, ClosedRun
  <2> QED
    BY <2>1 DEF Pointing
<1> QED
  BY <1>1, SerialInvHolds, PTL

\* DR-007.  The sequence of an open run lists the shipments that point to it, and the
\* deleted ones that did.
THEOREM SerialCallsKeepSequences ==
    ASSUME Serial
    PROVE  Spec => []SequenceMirrorsStops
<1>1. SerialInv => SequenceMirrorsStops
  <2> SUFFICES ASSUME SerialInv, NEW r \in Existing, Open(r)
               PROVE  Range(runs[r].seq) \cap Found = StopsOf(r)
    BY DEF SequenceMirrorsStops
  <2>1. Range(runs[r].seq) = Pointing(ships, r)
    BY DEF SerialInv, Aligned, Existing, Open, ClosedRun
  <2> QED
    BY <2>1 DEF Pointing, StopsOf, Found
<1> QED
  BY <1>1, SerialInvHolds, PTL

\* A run goes along the diagram: the status that a call checked is that of the row it
\* overwrites.  What start() finds planned is ready, for nothing planned has driver,
\* truck and stops.
THEOREM SerialCallsFollowDiagram ==
    ASSUME Serial
    PROVE  Spec => StatusFollowsDiagram
<1> DEFINE A == \A r \in Existing :
                   \/ runs'[r].status = runs[r].status
                   \/ <<runs[r].status, runs'[r].status>> \in Diagram
<1>1. TypeInv /\ Inv /\ SerialInv /\ [Next]_vars => A
  BY RunChange DEF MayBecome, Follows
<1>2. TypeInv /\ Inv /\ SerialInv /\ [Next]_vars => [A]_vars
  BY <1>1
<1> HIDE DEF A
<1>3. Spec => [][A]_vars
  BY <1>2, TypeInvHolds, InvHolds, SerialInvHolds, PTL DEF Spec
<1> QED
  BY <1>3 DEF A, StatusFollowsDiagram

\* A run that nobody completes by hand completes with its last stop: the count that
\* reached total_stops is that of every shipment that points to the run.
THEOREM SerialCallsCloseEveryStop ==
    ASSUME Serial, "complete" \notin Requests
    PROVE  Spec => CompletedWithEveryStop
<1> DEFINE A == \A r \in Existing :
                   runs'[r].status = "completed" /\ runs[r].status # "completed" =>
                       \A s \in StopsOf(r) : ships[s].status \in Counted
<1>1. TypeInv /\ Inv /\ SerialInv /\ [Next]_vars => A
  <2> SUFFICES ASSUME TypeInv, Inv, SerialInv, [Next]_vars, NEW r \in Existing,
                      runs'[r].status = "completed", runs[r].status # "completed",
                      NEW s \in StopsOf(r)
               PROVE  ships[s].status \in Counted
    OBVIOUS
  <2>1. Counts(ships, r)
    BY RunChange DEF MayBecome
  <2>2. s \in Pointing(ships, r) /\ ~ships[s].gone
    BY DEF StopsOf, Found, Pointing
  <2> QED
    BY <2>1, <2>2 DEF Counts
<1>2. TypeInv /\ Inv /\ SerialInv /\ [Next]_vars => [A]_vars
  BY <1>1
<1> HIDE DEF A
<1>3. Spec => [][A]_vars
  BY <1>2, TypeInvHolds, InvHolds, SerialInvHolds, PTL DEF Spec
<1> QED
  BY <1>3 DEF A, CompletedWithEveryStop

\* An answer to a proposal is final: accept() and reject() find it pending only once,
\* and no other request makes it pending again.
THEOREM SerialCallsAnswerOnce ==
    ASSUME Serial
    PROVE  Spec => AnswerIsFinal
<1> DEFINE A == \A s \in Found :
                   ships[s].status # "pending_acceptance" =>
                       ships'[s].status # "pending_acceptance"
<1>1. TypeInv /\ Inv /\ SerialInv /\ [Next]_vars => A
  BY ShipmentChange, RowsExist DEF MayTurn
<1>2. TypeInv /\ Inv /\ SerialInv /\ [Next]_vars => [A]_vars
  BY <1>1
<1> HIDE DEF A
<1>3. Spec => [][A]_vars
  BY <1>2, TypeInvHolds, InvHolds, SerialInvHolds, PTL DEF Spec
<1> QED
  BY <1>3 DEF A, AnswerIsFinal

\* A cancelled shipment stays so whatever ShipmentsService is asked; a driver who
\* closes it as a stop is not stopped by its status, so those requests are excluded.
THEOREM SerialCallsKeepCancelled ==
    ASSUME Serial, Requests \cap {"done", "incident", "transit", "arrive"} = {}
    PROVE  Spec => CancelledIsFinal
<1> DEFINE A == \A s \in Found :
                   ships[s].status = "cancelled" => ships'[s].status = "cancelled"
<1>1. TypeInv /\ Inv /\ SerialInv /\ [Next]_vars => A
  BY ShipmentChange, RowsExist DEF MayTurn
<1>2. TypeInv /\ Inv /\ SerialInv /\ [Next]_vars => [A]_vars
  BY <1>1
<1> HIDE DEF A
<1>3. Spec => [][A]_vars
  BY <1>2, TypeInvHolds, InvHolds, SerialInvHolds, PTL DEF Spec
<1> QED
  BY <1>3 DEF A, CancelledIsFinal
=============================================================================
