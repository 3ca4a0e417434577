--------------------------- MODULE SyncReplication ---------------------------
(***************************************************************************)
(* Signed sync: devices that write records offline, push their operations  *)
(* through a durable outbox to an untrusted provider, and pull, repair,    *)
(* admit and merge the operations of the others.                           *)
(*                                                                         *)
(* Each device runs one vault-owner thread.  Every action of a device is   *)
(* one vault transaction of that thread, or one network exchange of the    *)
(* sync cycle between two of them; local writes run whenever the owner is  *)
(* not inside a step.  The vault survives a crash, the cycle does not.     *)
(* The provider is either the gap-tolerant one (sync/memory.rs) or the     *)
(* hosted one, which takes a device's operations only in sequence          *)
(* (service_append_sync_operations).                                       *)
(***************************************************************************)
EXTENDS SyncOps

CONSTANTS
  StrictSequence,  \* TRUE: the hosted provider; FALSE: the gap-tolerant one
  Refusals,        \* error codes of refusals that a new session may lift
  MaxBatch,        \* MAX_BATCH, the rows of one push or page (256)
  MaxOperations,   \* max_operations, the rows one pull may process (1024)
  MaxWrites,       \* bound: local writes
  MaxFaults,       \* bound: lost exchanges, refusals and crashes together
  MaxCrashes,      \* bound: daemon crashes among them
  MaxTampered      \* bound: stored rows the provider damages

ASSUME ConstantsAssumption ==
  /\ StrictSequence \in BOOLEAN
  /\ Refusals \subseteq {"auth_required", "quota_blocked", "revoked"}
  /\ MaxBatch \in Nat \ {0} /\ MaxOperations \in Nat \ {0}
  /\ MaxWrites \in Nat /\ MaxFaults \in Nat /\ MaxCrashes \in Nat
  /\ MaxTampered \in Nat

VARIABLES
  server,        \* the provider's rows [op, at, ok]
  clock,         \* the provider's latest received_at
  wire,          \* wire[d]: abandoned push requests that may still arrive
  stored,        \* operations: stored[d]
  deviceHeads,   \* sync_device_heads: deviceHeads[d][e]
  recordHeads,   \* sync_record_heads: recordHeads[d][r]
  live,          \* the operation materialised for a record, {} when none
  conflicts,     \* conflicts: the two operations shown for a record, or {}
  outbox,        \* outbox[d]: rows [op, sec, next, due, code]
  cursor,        \* sync_cursors: cursor[d]
  quarantine,    \* sync_quarantine: receipts [row, code]
  newSession,    \* authentication_changed for the device's next cycle
  cycle,         \* the volatile cycle state of each device
  faults, crashes, tampered   \* how much of each bound is used up

vault == <<stored, deviceHeads, recordHeads, live, conflicts, outbox, cursor,
           quarantine>>
bounds == <<faults, crashes, tampered>>
vars == <<server, clock, wire, vault, newSession, cycle, bounds>>

-----------------------------------------------------------------------------
(* Data. *)

Row == [op : Op, at : Nat, ok : BOOLEAN]
Cursor == [at : Nat, id : Nat]
NoCursor == [at |-> 0, id |-> 0]

(* An outbox row.  `sec` is queued_at, a time in whole seconds.  `next` is *)
(* next_attempt_ms as far as due_outbox tells it apart: 0 for a row never  *)
(* deferred, otherwise the rank in which deferred rows became due, and     *)
(* `due` says whether that time has come.  PERMANENT_RETRY_MS never does.  *)
Codes == {"none", "transient", "integrity_quarantined", "auth_required",
          "quota_blocked", "revoked"}
OutboxRow == [op : Op, sec : Nat, next : Nat, due : BOOLEAN, code : Codes]
Receipt == [row : Row, code : {"integrity_quarantined", "gap_pending"}]

RowCursor(row) == [at |-> row.at, id |-> row.op.id]

(* compare_cursor: received_at, then operation_id. *)
CursorLess(a, b) == a.at < b.at \/ (a.at = b.at /\ a.id < b.id)

(* ORDER BY next_attempt_ms, queued_at, operation_id. *)
DueBefore(a, b) ==
  \/ a.next < b.next
  \/ a.next = b.next /\ a.sec < b.sec
  \/ a.next = b.next /\ a.sec = b.sec /\ a.op.id < b.op.id

(* Faulty variant: a row that failed once is never selected again. *)
DueOutbox_NeverRetries(rows) ==
  {r \in rows : r.due /\ r.code = "none"}

(* due_outbox: at most MaxBatch due rows, the first ones in that order. *)
DueOutbox(rows) ==
  LET due == {r \in rows : r.due /\ r.code \in {"none", "transient"}}
  IN  {r \in due : Cardinality({q \in due : DueBefore(q, r)}) < MaxBatch}

(* pull_operations: the rows after a cursor, at most n, in cursor order. *)
Page(after, n) ==
  LET beyond == {row \in server : CursorLess(after, RowCursor(row))}
  IN  {row \in beyond :
         Cardinality({x \in beyond : CursorLess(RowCursor(x), RowCursor(row))}) < n}

(* pull_device_range. *)
DeviceRange(e, from, to) ==
  {row \in server : row.op.dev = e /\ row.op.seq \in from .. to}

Idle == [phase |-> "idle", batch |-> {}, resp |-> "none", after |-> NoCursor,
         rows |-> {}, processed |-> 0, repaired |-> FALSE, blocker |-> {},
         next |-> 0, last |-> 0, upto |-> 0, got |-> {}]

(* The cycle of d goes on as c. *)
CycleBecomes(d, c) == cycle' = [cycle EXCEPT ![d] = c]

Pushing(batch) == [Idle EXCEPT !.phase = "push", !.batch = batch]
Answered(c, resp) == [c EXCEPT !.phase = "pushed", !.resp = resp]
PullFrom(at) == [Idle EXCEPT !.phase = "pull", !.after = at]
InPhase(c, phase) == [c EXCEPT !.phase = phase]

Phases == {"idle", "push", "pushed", "pull", "page", "rows", "range", "ranged",
           "repair", "blocked"}

CycleState ==
  [phase : Phases, batch : SUBSET OutboxRow, resp : Codes \union {"ok"},
   after : Cursor, rows : SUBSET Row, processed : 0 .. MaxOperations, repaired : BOOLEAN,
   blocker : SUBSET Row, next : Nat, last : Nat, upto : Nat, got : SUBSET Row]

TypeOK ==
  /\ server \in SUBSET Row
  /\ clock \in Nat
  /\ wire \in [Device -> SUBSET SUBSET OutboxRow]
  /\ stored \in [Device -> SUBSET Op]
  /\ deviceHeads \in [Device -> [Device -> Nat]]
  /\ recordHeads \in [Device -> [Record -> SUBSET Op]]
  /\ live \in [Device -> [Record -> SUBSET Op]]
  /\ conflicts \in [Device -> [Record -> SUBSET Op]]
  /\ outbox \in [Device -> SUBSET OutboxRow]
  /\ cursor \in [Device -> Cursor]
  /\ quarantine \in [Device -> SUBSET Receipt]
  /\ newSession \in [Device -> BOOLEAN]
  /\ cycle \in [Device -> CycleState]
  /\ faults \in Nat /\ crashes \in Nat /\ tampered \in Nat

Init ==
  /\ server = {}
  /\ clock = 0
  /\ wire = [d \in Device |-> {}]
  /\ stored = [d \in Device |-> {}]
  /\ deviceHeads = [d \in Device |-> [e \in Device |-> 0]]
  /\ recordHeads = [d \in Device |-> [r \in Record |-> {}]]
  /\ live = [d \in Device |-> [r \in Record |-> {}]]
  /\ conflicts = [d \in Device |-> [r \in Record |-> {}]]
  /\ outbox = [d \in Device |-> {}]
  /\ cursor = [d \in Device |-> NoCursor]
  /\ quarantine = [d \in Device |-> {}]
  /\ newSession = [d \in Device |-> TRUE]
  /\ cycle = [d \in Device |-> Idle]
  /\ faults = 0 /\ crashes = 0 /\ tampered = 0

-----------------------------------------------------------------------------
(* Local writes. *)

AllOps == UNION {stored[d] : d \in Device}

MayFail == faults + crashes < MaxFaults

(* The vault owner is inside finish_pull: no other command can run. *)
OwnerBusy(d) == cycle[d].phase \in {"rows", "repair", "blocked"}

(* Faulty variant: the sequence of the head is used again. *)
BuildOperation_ReusesHead(d, r, id) ==
  [id |-> id, dev |-> d, seq |-> deviceHeads[d][d], rec |-> r, front |-> deviceHeads[d]]

(* build: the next sequence of the device, with every device head the      *)
(* vault knows as causal frontier.                                         *)
BuildOperation(d, r, id) ==
  [id |-> id, dev |-> d, seq |-> deviceHeads[d][d] + 1, rec |-> r,
   front |-> deviceHeads[d]]

(* commit_outgoing_operation: one transaction stores the operation, makes  *)
(* it the record's only head and live value, clears the conflict, advances *)
(* the device head and queues the operation.                               *)
CommitOutgoing(d, o, queuedAt) ==
  /\ stored' = [stored EXCEPT ![d] = @ \union {o}]
  /\ deviceHeads' = [deviceHeads EXCEPT ![d][d] = o.seq]
  /\ recordHeads' = [recordHeads EXCEPT ![d][o.rec] = {o}]
  /\ live' = [live EXCEPT ![d][o.rec] = {o}]
  /\ conflicts' = [conflicts EXCEPT ![d][o.rec] = {}]
  /\ outbox' = [outbox EXCEPT ![d] = @ \union
                  {[op |-> o, sec |-> queuedAt, next |-> 0, due |-> TRUE, code |-> "none"]}]

(* A local mutation.  The operation is refused unless it causally follows  *)
(* every head of its record.  queued_at is the current second: that of the *)
(* newest row, or a later one.                                             *)
LocalWrite(d, r) ==
  /\ ~OwnerBusy(d)
  /\ Cardinality(AllOps) < MaxWrites
  /\ \E id \in 1 .. MaxWrites, sec \in {0} \union {q.sec : q \in outbox[d]}, later \in 0 .. 1 :
       LET o == BuildOperation(d, r, id) IN
       /\ \A p \in AllOps : p.id # id
       /\ \A q \in outbox[d] : q.sec <= sec
       /\ \A h \in recordHeads[d][r] : CompareOperations(o, h) = "After"
       /\ CommitOutgoing(d, o, sec + later)
  /\ UNCHANGED <<server, clock, wire, cursor, quarantine, newSession, cycle, bounds>>

-----------------------------------------------------------------------------
(* The provider. *)

(* Rows of the batch that the provider does not hold yet. *)
Unseen(batch) == {b \in batch : \A row \in server : row.op.id # b.op.id}

(* An operation id that is present with other bytes is refused. *)
BytesDiffer(batch) ==
  \E b \in batch, row \in server : row.op.id = b.op.id /\ ~(row.op = b.op /\ row.ok)

(* service_append_sync_operations walks the batch in the order received    *)
(* and takes an unseen operation only as the successor of the device's     *)
(* newest row: n unseen operations must be exactly the next n sequences    *)
(* after the head h, in order, or the whole batch rolls back.              *)
NewestSequence(e, h) ==
  /\ h = 0 \/ \E row \in server : row.op.dev = e /\ row.op.seq = h
  /\ \A row \in server : row.op.dev = e => row.op.seq <= h

(* Faulty variant: sequences may be skipped. *)
InSequence_SkipsAhead(new, h, n) ==
  /\ \A b \in new : NewestSequence(b.op.dev, h) /\ b.op.seq > h
  /\ n = Cardinality(new)

InSequence(new, h, n) ==
  /\ \A b \in new : NewestSequence(b.op.dev, h)
  /\ {b.op.seq : b \in new} = (h + 1) .. (h + n)
  /\ \A a, b \in new : DueBefore(a, b) => a.op.seq < b.op.seq

(* The provider handles a push; outcome is "ok" or the error it answers.   *)
(* memory.rs gives one received_at to the whole batch, the hosted provider *)
(* a later one to every row it inserts.                                    *)
ServerAppend(batch, outcome) ==
  LET new == Unseen(batch) IN
  \/ /\ outcome = "ok" /\ ~BytesDiffer(batch)
     /\ ~StrictSequence
     /\ clock' = IF new = {} THEN clock ELSE clock + 1
     /\ server' = server \union {[op |-> b.op, at |-> clock + 1, ok |-> TRUE] : b \in new}
  \/ /\ outcome = "ok" /\ ~BytesDiffer(batch)
     /\ StrictSequence
     /\ \E h \in {0} \union {row.op.seq : row \in server}, n \in 0 .. MaxBatch :
          /\ InSequence(new, h, n)
          /\ clock' = clock + n
          /\ server' = server \union
               {[op |-> b.op, at |-> clock + (b.op.seq - h), ok |-> TRUE] : b \in new}
  \/ /\ outcome = "integrity_quarantined"
     /\ \/ BytesDiffer(batch)
        \/ /\ StrictSequence
           /\ ~ \E h \in {0} \union {row.op.seq : row \in server}, n \in 0 .. MaxBatch :
                 InSequence(new, h, n)
     /\ UNCHANGED <<server, clock>>

(* Untrusted storage damages a row it holds. *)
TamperRow(row) ==
  /\ tampered < MaxTampered
  /\ row \in server /\ row.ok
  /\ server' = (server \ {row}) \union {[row EXCEPT !.ok = FALSE]}
  /\ tampered' = tampered + 1
  /\ UNCHANGED <<clock, wire, vault, newSession, cycle, faults, crashes>>

-----------------------------------------------------------------------------
(* Pushing. *)

(* A time after that of every due row of the outbox. *)
NextRank(d, k) ==
  /\ k \in {0} \union {q.next : q \in outbox[d]}
  /\ \A q \in outbox[d] : q.next <= k

(* Time passes: a transiently deferred row reaches its retry time. *)
RetryTimeComes(d, row) ==
  /\ row \in outbox[d] /\ row.code = "transient" /\ ~row.due
  /\ \E k \in {0} \union {q.next : q \in outbox[d]} :
       /\ NextRank(d, k)
       /\ outbox' = [outbox EXCEPT ![d] = (@ \ {row}) \union
                      {[row EXCEPT !.due = TRUE, !.next = k + 1]}]
  /\ UNCHANGED <<server, clock, wire, stored, deviceHeads, recordHeads, live,
                 conflicts, cursor, quarantine, newSession, cycle, bounds>>

(* unblock_scoped_outbox_after_state_change: rows blocked for want of a    *)
(* session are due now.                                                    *)
Unblocked(rows, k) ==
  {IF q.code = "auth_required" THEN [q EXCEPT !.code = "none", !.due = TRUE, !.next = k + 1]
                               ELSE q : q \in rows}

(* Begin and Certificates of the hosted cycle, then prepare_push: lift     *)
(* what a new session lifts, and request a push of the due rows, or go on  *)
(* to prepare_pull when there is none.                                     *)
BeginCycle(d) ==
  /\ cycle[d].phase = "idle"
  /\ \E k \in {0} \union {q.next : q \in outbox[d]} :
       LET rows  == IF newSession[d] THEN Unblocked(outbox[d], k) ELSE outbox[d]
           batch == DueOutbox(rows)
       IN  /\ NextRank(d, k)
           /\ outbox' = [outbox EXCEPT ![d] = rows]
           /\ CycleBecomes(d, IF batch = {} THEN PullFrom(cursor[d]) ELSE Pushing(batch))
  /\ newSession' = [newSession EXCEPT ![d] = FALSE]
  /\ UNCHANGED <<server, clock, wire, stored, deviceHeads, recordHeads, live,
                 conflicts, cursor, quarantine, bounds>>

(* The request reaches the provider and its answer reaches the device. *)
PushServed(d) ==
  /\ cycle[d].phase = "push"
  /\ \E outcome \in {"ok", "integrity_quarantined"} :
       /\ ServerAppend(cycle[d].batch, outcome)
       /\ CycleBecomes(d, Answered(cycle[d], outcome))
  /\ UNCHANGED <<wire, vault, newSession, bounds>>

(* The transport sends a large batch as several requests in order, so what *)
(* has left the device when an exchange breaks off is a prefix of it.      *)
Prefixes(batch) ==
  {p \in SUBSET batch : \A a \in p, b \in batch : DueBefore(b, a) => b \in p}

(* There is no answer: what was sent is lost, or it is still on its way    *)
(* and the provider may yet handle it.  The transport sends the request    *)
(* again, or has done so often enough and gives up.                        *)
PushLost(d) ==
  /\ cycle[d].phase = "push"
  /\ MayFail
  /\ faults' = faults + 1
  /\ \E sent \in Prefixes(cycle[d].batch) : wire' = [wire EXCEPT ![d] = @ \union ({sent} \ {{}})]
  /\ UNCHANGED cycle \/ CycleBecomes(d, Answered(cycle[d], "transient"))
  /\ UNCHANGED <<server, clock, vault, newSession, crashes, tampered>>

LateArrival(d) ==
  \E batch \in wire[d] :
    /\ \E outcome \in {"ok", "integrity_quarantined"} : ServerAppend(batch, outcome)
    /\ wire' = [wire EXCEPT ![d] = @ \ {batch}]
    /\ UNCHANGED <<vault, newSession, cycle, bounds>>

(* The provider refuses for a reason that has nothing to do with the rows. *)
PushRefused(d) ==
  /\ cycle[d].phase = "push"
  /\ MayFail
  /\ faults' = faults + 1
  /\ \E code \in Refusals :
       CycleBecomes(d, Answered(cycle[d], code))
  /\ UNCHANGED <<server, clock, wire, vault, newSession, crashes, tampered>>

(* A new session replaces the one the last cycle used. *)
SessionChanged(d) ==
  /\ \E q \in outbox[d] : q.code = "auth_required"
  /\ ~newSession[d]
  /\ newSession' = [newSession EXCEPT ![d] = TRUE]
  /\ UNCHANGED <<server, clock, wire, vault, cycle, bounds>>

(* Faulty variant: the rows of a failed push are dropped. *)
Deferred_Dropped(rows, batch, code) == {q \in rows : \A b \in batch : b.op # q.op}

(* defer_transport_failure: a retryable failure gives every row of the     *)
(* batch a retry time of its own, any other one parks the rows for good.   *)
Deferred(rows, batch, code) ==
  {IF \E b \in batch : b.op = q.op
   THEN [q EXCEPT !.code = code, !.due = FALSE, !.next = 0] ELSE q : q \in rows}

(* acknowledge_outbox: DELETE by operation id. *)
Acknowledged(rows, batch) == {q \in rows : \A b \in batch : b.op # q.op}

(* finish_push.  An acknowledged push continues with prepare_pull; a       *)
(* failed one ends the cycle.                                              *)
FinishPush(d) ==
  /\ cycle[d].phase = "pushed"
  /\ IF cycle[d].resp = "ok"
     THEN /\ outbox' = [outbox EXCEPT ![d] = Acknowledged(@, cycle[d].batch)]
          /\ CycleBecomes(d, PullFrom(cursor[d]))
     ELSE /\ outbox' = [outbox EXCEPT ![d] = Deferred(@, cycle[d].batch, cycle[d].resp)]
          /\ CycleBecomes(d, Idle)
  /\ UNCHANGED <<server, clock, wire, stored, deviceHeads, recordHeads, live,
                 conflicts, cursor, quarantine, newSession, bounds>>

-----------------------------------------------------------------------------
(* Pulling: requests and responses. *)

Smaller(a, b) == IF a < b THEN a ELSE b

(* next_page and next_repair, the two requests of a pull. *)
NextPage(c, at) ==
  IF c.processed = MaxOperations THEN Idle
  ELSE [c EXCEPT !.phase = "pull", !.after = at, !.repaired = FALSE]

NextRepair(c, at) ==
  IF c.processed = MaxOperations THEN Idle
  ELSE [c EXCEPT !.phase = "range", !.after = at, !.repaired = FALSE,
          !.upto = Smaller(c.next + Smaller(MaxOperations - c.processed, MaxBatch) - 1, c.last)]

PageServed(d) ==
  /\ cycle[d].phase = "pull"
  /\ CycleBecomes(d, [cycle[d] EXCEPT !.phase = "page",
        !.rows = Page(cycle[d].after, Smaller(MaxOperations - cycle[d].processed, MaxBatch))])
  /\ UNCHANGED <<server, clock, wire, vault, newSession, bounds>>

RangeServed(d) ==
  /\ cycle[d].phase = "range"
  /\ \E b \in cycle[d].blocker :
       CycleBecomes(d, [cycle[d] EXCEPT !.phase = "ranged",
                          !.got = DeviceRange(b.op.dev, cycle[d].next, cycle[d].upto)])
  /\ UNCHANGED <<server, clock, wire, vault, newSession, bounds>>

(* A failed pull exchange ends the cycle and changes nothing durable. *)
PullLost(d) ==
  /\ cycle[d].phase \in {"pull", "range"}
  /\ MayFail
  /\ faults' = faults + 1
  /\ CycleBecomes(d, Idle)
  /\ UNCHANGED <<server, clock, wire, vault, newSession, crashes, tampered>>

(* finish_pull on a page: an answer for a cursor that has moved is an      *)
(* error, an empty page completes the pull.                                *)
FinishPage(d) ==
  /\ cycle[d].phase = "page"
  /\ CycleBecomes(d, IF cursor[d] # cycle[d].after \/ cycle[d].rows = {}
                     THEN Idle ELSE InPhase(cycle[d], "rows"))
  /\ UNCHANGED <<server, clock, wire, vault, newSession, bounds>>

(* finish_pull on a device range: a range the provider cannot fill yet     *)
(* completes the pull and leaves the cursor before the gap.                *)
FinishRange(d) ==
  /\ cycle[d].phase = "ranged"
  /\ CycleBecomes(d, IF \/ cursor[d] # cycle[d].after
                        \/ Cardinality(cycle[d].got) # cycle[d].upto - cycle[d].next + 1
                     THEN Idle ELSE InPhase(cycle[d], "repair"))
  /\ UNCHANGED <<server, clock, wire, vault, newSession, bounds>>

-----------------------------------------------------------------------------
(* Admission and application. *)

(* Faulty variants: a gap is admitted; the frontier is not checked; the    *)
(* frontier is compared with the wrong strictness.                         *)
Admit_IgnoresGap(d, row) ==
  IF ~row.ok THEN "InvalidSignature"
  ELSE IF row.op \in stored[d] THEN "ExactReplay"
  ELSE "Admitted"

Admit_IgnoresFrontier(d, row) ==
  IF ~row.ok THEN "InvalidSignature"
  ELSE IF row.op \in stored[d] THEN "ExactReplay"
  ELSE IF row.op.seq > deviceHeads[d][row.op.dev] + 1 THEN "Gap"
  ELSE "Admitted"

Admit_FrontierStrict(d, row) ==
  IF ~row.ok THEN "InvalidSignature"
  ELSE IF row.op \in stored[d] THEN "ExactReplay"
  ELSE IF row.op.seq > deviceHeads[d][row.op.dev] + 1 THEN "Gap"
  ELSE IF \E e \in Device : row.op.front[e] > 0 /\ row.op.front[e] >= deviceHeads[d][e]
       THEN "InvalidFrontier"
  ELSE "Admitted"

(* admit_operation, in the order of its checks. *)
Admit(d, row) ==
  LET o == row.op
      expected == deviceHeads[d][o.dev] + 1
  IN  IF ~row.ok THEN "InvalidSignature"
      ELSE IF o \in stored[d] THEN "ExactReplay"
      ELSE IF o.seq > expected THEN "Gap"
      ELSE IF o.seq < expected THEN "SequenceConflict"
      ELSE IF \E e \in Device : o.front[e] > deviceHeads[d][e] THEN "InvalidFrontier"
      ELSE "Admitted"

Refused(d, row) == Admit(d, row) \in {"InvalidSignature", "SequenceConflict", "InvalidFrontier"}

(* apply_verified_in_transaction. *)
Apply(d, o) ==
  /\ stored' = [stored EXCEPT ![d] = @ \union {o}]
  /\ deviceHeads' = [deviceHeads EXCEPT ![d][o.dev] = o.seq]
  /\ recordHeads' = [recordHeads EXCEPT ![d][o.rec] = MergedHeads(o, @)]
  /\ live' = [live EXCEPT ![d][o.rec] = MergedLive(o, recordHeads[d][o.rec], @)]
  /\ conflicts' = [conflicts EXCEPT ![d][o.rec] = MergedConflict(o, recordHeads[d][o.rec], @)]

UnchangedRecords == UNCHANGED <<stored, deviceHeads, recordHeads, live, conflicts>>

(* upsert_cursor never moves a cursor back. *)
AdvanceCursor(d, row) ==
  cursor' = [cursor EXCEPT ![d] = IF CursorLess(@, RowCursor(row)) THEN RowCursor(row) ELSE @]

Known(d, row) == {q \in quarantine[d] : RowCursor(q.row) = RowCursor(row)}

Quarantined(d, row, code) ==
  quarantine' = [quarantine EXCEPT ![d] = @ \union {[row |-> row, code |-> code]}]

-----------------------------------------------------------------------------
(* advance_pull: one step per row of the page, each its own transaction. *)

Processed(c, row) ==
  [c EXCEPT !.rows = @ \ {row}, !.processed = @ + 1, !.repaired = FALSE]

(* row is the next one of the page, and the pull may still process it. *)
NextRow(d, row) ==
  /\ cycle[d].phase = "rows"
  /\ row \in cycle[d].rows
  /\ \A x \in cycle[d].rows : x = row \/ CursorLess(RowCursor(row), RowCursor(x))
  /\ cycle[d].processed < MaxOperations

Elsewhere == UNCHANGED <<server, clock, wire, outbox, newSession, bounds>>

(* A receipt quarantined before is passed over, unless its bytes changed. *)
RowSkip(d, row) ==
  /\ NextRow(d, row)
  /\ \E q \in Known(d, row) :
       IF q.row = row
       THEN AdvanceCursor(d, row) /\ CycleBecomes(d, Processed(cycle[d], row))
       ELSE CycleBecomes(d, Idle) /\ UNCHANGED cursor
  /\ UnchangedRecords /\ UNCHANGED quarantine /\ Elsewhere

RowReplay(d, row) ==
  /\ NextRow(d, row) /\ Known(d, row) = {}
  /\ Admit(d, row) = "ExactReplay"
  /\ AdvanceCursor(d, row)
  /\ CycleBecomes(d, Processed(cycle[d], row))
  /\ UnchangedRecords /\ UNCHANGED quarantine /\ Elsewhere

RowApply(d, row) ==
  /\ NextRow(d, row) /\ Known(d, row) = {}
  /\ Admit(d, row) = "Admitted"
  /\ Apply(d, row.op)
  /\ AdvanceCursor(d, row)
  /\ CycleBecomes(d, Processed(cycle[d], row))
  /\ UNCHANGED quarantine /\ Elsewhere

RowQuarantine(d, row) ==
  /\ NextRow(d, row) /\ Known(d, row) = {}
  /\ Refused(d, row)
  /\ Quarantined(d, row, "integrity_quarantined")
  /\ AdvanceCursor(d, row)
  /\ CycleBecomes(d, Processed(cycle[d], row))
  /\ UnchangedRecords /\ Elsewhere

Blocked(c, row, head) ==
  [c EXCEPT !.rows = @ \ {row}, !.blocker = {row}, !.next = head + 1, !.last = row.op.seq - 1]

(* missing_range: the row is set aside and the operations between the      *)
(* device head and it are requested; a gap that survives its own repair    *)
(* ends the pull.                                                          *)
RowGap(d, row) ==
  /\ NextRow(d, row) /\ Known(d, row) = {}
  /\ Admit(d, row) = "Gap"
  /\ CycleBecomes(d, IF cycle[d].repaired THEN Idle
       ELSE NextRepair(Blocked(cycle[d], row, deviceHeads[d][row.op.dev]), cursor[d]))
  /\ UnchangedRecords /\ UNCHANGED <<cursor, quarantine>> /\ Elsewhere

(* The page is used up, or the budget is. *)
PageDone(d) ==
  /\ cycle[d].phase = "rows"
  /\ cycle[d].rows = {} \/ cycle[d].processed = MaxOperations
  /\ CycleBecomes(d, NextPage(cycle[d], cursor[d]))
  /\ UNCHANGED vault /\ UNCHANGED <<server, clock, wire, newSession, bounds>>

-----------------------------------------------------------------------------
(* apply_repair_rows: one step per row of the range, in sequence order.    *)
(* Repaired operations are applied without moving the cursor.              *)

NextRepairRow(d, row) ==
  /\ cycle[d].phase = "repair"
  /\ row \in cycle[d].got
  /\ \A x \in cycle[d].got : row.op.seq <= x.op.seq

Repaired(c, row) == [c EXCEPT !.got = @ \ {row}, !.processed = @ + 1]

(* A gap row quarantined before blocks the repair. *)
RepairSkip(d, row) ==
  /\ NextRepairRow(d, row)
  /\ \E q \in Known(d, row) :
       CycleBecomes(d, IF q.row = row THEN InPhase(cycle[d], "blocked") ELSE Idle)
  /\ UNCHANGED vault /\ UNCHANGED <<server, clock, wire, newSession, bounds>>

RepairReplay(d, row) ==
  /\ NextRepairRow(d, row) /\ Known(d, row) = {}
  /\ Admit(d, row) = "ExactReplay"
  /\ CycleBecomes(d, Repaired(cycle[d], row))
  /\ UNCHANGED vault /\ UNCHANGED <<server, clock, wire, newSession, bounds>>

(* Faulty variant: a repaired row moves the cursor. *)
RepairApply_MovesCursor(d, row) ==
  /\ NextRepairRow(d, row) /\ Known(d, row) = {}
  /\ Admit(d, row) = "Admitted"
  /\ Apply(d, row.op)
  /\ AdvanceCursor(d, row)
  /\ CycleBecomes(d, Repaired(cycle[d], row))
  /\ UNCHANGED quarantine /\ Elsewhere

RepairApply(d, row) ==
  /\ NextRepairRow(d, row) /\ Known(d, row) = {}
  /\ Admit(d, row) = "Admitted"
  /\ Apply(d, row.op)
  /\ CycleBecomes(d, Repaired(cycle[d], row))
  /\ UNCHANGED <<cursor, quarantine>> /\ Elsewhere

RepairQuarantine(d, row) ==
  /\ NextRepairRow(d, row) /\ Known(d, row) = {}
  /\ Refused(d, row)
  /\ Quarantined(d, row, "integrity_quarantined")
  /\ CycleBecomes(d, InPhase(cycle[d], "blocked"))
  /\ UnchangedRecords /\ UNCHANGED cursor /\ Elsewhere

(* BlockedByQuarantine: the row behind the gap is quarantined as           *)
(* gap_pending and passed, budget permitting.                              *)
QuarantineBlocker(d) ==
  /\ cycle[d].phase = "blocked"
  /\ \E b \in cycle[d].blocker :
       IF cycle[d].processed = MaxOperations
       THEN /\ CycleBecomes(d, Idle)
            /\ UNCHANGED <<cursor, quarantine>>
       ELSE /\ Quarantined(d, b, "gap_pending")
            /\ AdvanceCursor(d, b)
            /\ CycleBecomes(d, [cycle[d] EXCEPT !.phase = "rows", !.blocker = {},
                                  !.got = {}, !.processed = @ + 1])
  /\ UnchangedRecords /\ Elsewhere

(* The chunk is applied: request the next one, or put the blocked row back *)
(* in front of its page.                                                   *)
RepairDone(d) ==
  /\ cycle[d].phase = "repair" /\ cycle[d].got = {}
  /\ CycleBecomes(d, IF cycle[d].upto < cycle[d].last
       THEN NextRepair([cycle[d] EXCEPT !.next = cycle[d].upto + 1], cursor[d])
       ELSE [cycle[d] EXCEPT !.phase = "rows", !.rows = @ \union cycle[d].blocker,
               !.blocker = {}, !.repaired = TRUE])
  /\ UNCHANGED vault /\ UNCHANGED <<server, clock, wire, newSession, bounds>>

-----------------------------------------------------------------------------
(* The daemon dies and restarts at any point: the vault is durable, the    *)
(* cycle is not, and a request already sent may still arrive.              *)
Crash(d) ==
  /\ MayFail /\ crashes < MaxCrashes
  /\ cycle[d].phase # "idle"
  /\ crashes' = crashes + 1
  /\ \E sent \in IF cycle[d].phase = "push" THEN Prefixes(cycle[d].batch) ELSE {{}} :
       wire' = [wire EXCEPT ![d] = @ \union ({sent} \ {{}})]
  /\ CycleBecomes(d, Idle)
  /\ newSession' = [newSession EXCEPT ![d] = TRUE]
  /\ UNCHANGED <<server, clock, vault, faults, tampered>>

RowStep(d) ==
  \E row \in cycle[d].rows :
    RowSkip(d, row) \/ RowReplay(d, row) \/ RowApply(d, row)
      \/ RowQuarantine(d, row) \/ RowGap(d, row)

RepairStep(d) ==
  \E row \in cycle[d].got :
    RepairSkip(d, row) \/ RepairReplay(d, row) \/ RepairApply(d, row)
      \/ RepairQuarantine(d, row)

(* What the device's sync cycle does by itself, without faults. *)
CycleStep(d) ==
  \/ BeginCycle(d) \/ PushServed(d) \/ FinishPush(d)
  \/ PageServed(d) \/ FinishPage(d) \/ RowStep(d) \/ PageDone(d)
  \/ RangeServed(d) \/ FinishRange(d) \/ RepairStep(d) \/ RepairDone(d)
  \/ QuarantineBlocker(d)

TimeStep(d) == \E row \in outbox[d] : RetryTimeComes(d, row)

Next ==
  \/ \E d \in Device :
       \/ \E r \in Record : LocalWrite(d, r)
       \/ CycleStep(d) \/ TimeStep(d) \/ SessionChanged(d)
       \/ PushLost(d) \/ PushRefused(d) \/ PullLost(d) \/ LateArrival(d) \/ Crash(d)
  \/ \E row \in server : TamperRow(row)

Spec == Init /\ [][Next]_vars

(* The supervisor polls for ever and a jittered delay is finite: the cycle *)
(* keeps stepping and deferred rows become due.  Nothing is assumed of     *)
(* writes, sessions, faults or crashes.                                    *)
FairSpec ==
  Spec /\ \A d \in Device : WF_vars(CycleStep(d)) /\ WF_vars(TimeStep(d))

-----------------------------------------------------------------------------
(* Safety. *)

(* What a device has stored is closed under causality: the frontier check  *)
(* of admission, gap repair and the per-row transactions never leave an    *)
(* operation without its whole past, whatever was lost or interrupted.     *)
CausallyClosed ==
  \A d \in Device : \A o \in stored[d] : \A e \in Device : \A n \in 1 .. o.front[e] :
    \E p \in stored[d] : p.dev = e /\ p.seq = n

(* The incremental merge computes the right view: the heads of a record    *)
(* are the stored operations no stored one supersedes, the materialised    *)
(* record is the head with the least id, and the conflicts row names the   *)
(* two least heads exactly when there are two.                             *)
ViewIsMerge ==
  \A d \in Device, r \in Record :
    LET heads == Maximal(stored[d], r) IN
    /\ recordHeads[d][r] = heads
    /\ live[d][r] = ValueOf(heads)
    /\ conflicts[d][r] = ConflictOf(heads)

(* Replicas that have reached the same device heads show the same records  *)
(* and conflicts, in whatever order the operations arrived.                *)
Convergence ==
  \A d, e \in Device :
    deviceHeads[d] = deviceHeads[e] =>
      /\ recordHeads[d] = recordHeads[e]
      /\ live[d] = live[e]
      /\ conflicts[d] = conflicts[e]

(* A cursor never passes a row that was neither stored nor quarantined,    *)
(* although repairs apply rows out of order, pages are stale when they     *)
(* arrive and the daemon may die between two rows.                         *)
CursorPassesNothing ==
  \A d \in Device, row \in server :
    CursorLess(cursor[d], RowCursor(row))
      \/ row.op \in stored[d] \/ \E q \in quarantine[d] : q.row.op = row.op

(* An operation leaves the outbox of its author only when the provider     *)
(* holds it: a lost answer, a crash or a late arrival loses no write.      *)
NothingLost ==
  \A d \in Device : \A o \in stored[d] :
    o.dev = d => \/ \E q \in outbox[d] : q.op = o
                 \/ \E row \in server : row.op = o

(* An undamaged operation is quarantined only because of a damaged one in  *)
(* its own past: admission accepts everything honest devices write.        *)
QuarantineHasCause ==
  \A d \in Device : \A q \in quarantine[d] :
    \E row \in server : ~row.ok /\ (row.op = q.row.op \/ Past(row.op, q.row.op))

(* Rows the hosted provider took in sequence arrive in sequence: unless it *)
(* damages one, no pull from it ever meets a gap.                          *)
HostedNeverRepairs ==
  StrictSequence /\ tampered = 0 =>
    \A d \in Device : cycle[d].phase \notin {"range", "ranged", "repair", "blocked"}

(* No step forgets an operation, moves a cursor back, or lets a device     *)
(* head move by anything but the next operation of that device.            *)
DurableProgress ==
  [][\A d \in Device :
       /\ stored[d] \subseteq stored'[d]
       /\ ~CursorLess(cursor'[d], cursor[d])
       /\ \A e \in Device :
            deviceHeads'[d][e] # deviceHeads[d][e] =>
              /\ deviceHeads'[d][e] = deviceHeads[d][e] + 1
              /\ \E o \in stored'[d] \ stored[d] : o.dev = e /\ o.seq = deviceHeads'[d][e]]_vars

(* What a device shows of its records. *)
Shown ==
  [d \in Device |-> [r \in Record |->
     [heads |-> recordHeads[d][r], value |-> live[d][r], conflict |-> conflicts[d][r]]]]

(* The whole protocol implements the causal store. *)
Abstract == INSTANCE CausalStore WITH known <- stored, shown <- Shown

(* Every step of a device changes what it stores and shows as the causal   *)
(* store allows: by one operation whose past it has, shown at once.        *)
ImplementsCausalStore == Abstract!Spec

-----------------------------------------------------------------------------
(* Liveness. *)

(* A write of this device is refused until a session that never comes. *)
WaitsForSession(d) == ~newSession[d] /\ \E q \in outbox[d] : q.code = "auth_required"

(* Once faults end, every write reaches every device and every outbox is   *)
(* empty: retries, gap repair and replays neither block nor starve, and    *)
(* the next session lifts what was refused for want of one, unless it      *)
(* never comes.                                                            *)
EventuallyReplicated ==
  \/ <>[](\A d \in Device : stored[d] = AllOps /\ outbox[d] = {})
  \/ \E d \in Device : <>[]WaitsForSession(d)

(* Pushing the oldest operations first and retrying what failed in transit *)
(* is enough: no undamaged write of an honest device is ever parked in its *)
(* outbox as damaged, where nothing retries it.                            *)
NoHonestWriteParked ==
  \A d \in Device : \A q \in outbox[d] : q.code # "integrity_quarantined"

=============================================================================
